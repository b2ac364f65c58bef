---- MODULE ObjectFilesProofs ----
(***************************************************************************)
(* Theorems about ObjectFiles: whatever puts and reads race, fail or die,  *)
(* a digest path holds whole objects, errors mean damage, temporary files  *)
(* are accounted for, and the directory is a content store.                *)
(***************************************************************************)
EXTENDS ObjectFiles, TLAPS

Linked(r) == r.at = "syncDirectory" \/ r.outcome = "created"

\* What a call has established, given the directory.
CallOK(r) ==
    /\ r.at # "idle" => r.digest \in Digests
    /\ r.op # "put" => r.file = NULL /\ r.at \notin {"create", "write", "sync", "link", "syncDirectory", "unlink"}
    /\ r.file # NULL => r.file \in pending \ litter
    /\ r.at \in {"idle", "create", "return"} => r.file = NULL
    /\ r.at = "syncDirectory" => r.file # NULL
    /\ r.at \in {"write", "sync", "link"} =>
          r.file # NULL /\ \A d \in Digests : target[d] # r.file
    /\ r.at \in {"sync", "link"} => body[r.file] = r.digest
    /\ r.at \in {"stat", "readback", "syncDirectory"} => r.digest \in installed
    /\ r.outcome \in {"created", "found"} => r.digest \in installed
    /\ r.outcome = "integrity" => r.digest \in damaged

\* The digest paths: whole objects, unless damaged from outside, each in a file of its own.
PathsOK ==
    /\ \A d \in Digests : target[d] # NULL => d \in installed /\ body[target[d]] \in {d, "altered"}
    /\ \A d \in installed \ damaged : target[d] # NULL /\ body[target[d]] = d
    /\ \A d, e \in Digests : d # e /\ target[d] # NULL => target[d] # target[e]

\* The temporary names: in use, or left behind.
NamesOK ==
    /\ \A f \in pending : body[f] # "unused"
    /\ litter \subseteq pending
    /\ \A f \in pending \ litter : \E c \in Callers : call[c].file = f

FilesInv ==
    /\ TypeOK
    /\ \A c \in Callers : CallOK(call[c])
    /\ PathsOK
    /\ NamesOK
    /\ \A c, e \in Callers : c # e /\ call[c].file # NULL => call[c].file # call[e].file
    /\ \A c, e \in Callers :
          c # e /\ Linked(call[c]) /\ Linked(call[e]) /\ call[c].digest = call[e].digest
              => call[c].digest \in damaged

LEMMA FilesInit == Init => FilesInv
BY FilesAssumption DEF Init, Idle, Outcomes, FilesInv, TypeOK, Calls, Outcomes, CallOK, PathsOK, NamesOK, Linked, Junk

\* A step of one call that changes no file.
LEMMA CallKeeps ==
    ASSUME FilesInv, NEW c \in Callers, NEW r \in Calls,
           call' = [call EXCEPT ![c] = r],
           UNCHANGED <<target, body, pending, installed, damaged, litter>>,
           CallOK(r), r.file = call[c].file,
           Linked(r) => Linked(call[c]) /\ r.digest = call[c].digest
    PROVE  FilesInv'
<1>1. /\ call'[c] = r
      /\ \A e \in Callers : e # c => call'[e] = call[e]
      /\ call' \in [Callers -> Calls]
  BY DEF FilesInv, TypeOK
<1>2. \A e \in Callers : call'[e].file = call[e].file
  BY <1>1
<1>3. ASSUME NEW e \in Callers PROVE CallOK(call[e])'
  <2>1. CASE e = c
    BY <1>1, <2>1 DEF CallOK
  <2>2. CASE e # c
    <3>1. CallOK(call[e])
      BY DEF FilesInv
    <3> QED
      BY <1>1, <2>2, <3>1 DEF CallOK
  <2> QED
    BY <2>1, <2>2
<1>4. TypeOK'
  BY <1>1, <1>3 DEF FilesInv, TypeOK, CallOK
<1>5. PathsOK'
  BY DEF FilesInv, PathsOK
<1>6. NamesOK'
  BY <1>2 DEF FilesInv, NamesOK
<1>7. (\A a, e \in Callers : a # e /\ call[a].file # NULL => call[a].file # call[e].file)'
  BY <1>2 DEF FilesInv
<1>8. ASSUME NEW a \in Callers, NEW e \in Callers, a # e,
             Linked(call[a])', Linked(call[e])', call'[a].digest = call'[e].digest
      PROVE  call'[a].digest \in damaged'
  <2>1. \A b \in Callers : Linked(call[b])' => Linked(call[b]) /\ call'[b].digest = call[b].digest
    BY <1>1 DEF Linked
  <2> QED
    BY <1>8, <2>1 DEF FilesInv
<1> QED
  BY <1>3, <1>4, <1>5, <1>6, <1>7, <1>8 DEF FilesInv

\* The steps of a call that look or wait.
LEMMA LookKeeps ==
    ASSUME FilesInv, NEW c \in Callers,
           \/ \E op \in {"put", "read"}, d \in Digests : Begin(c, op, d)
           \/ SyncFile(c) \/ SyncDirectory(c) \/ StatTarget(c) \/ ReadTarget(c)
           \/ FailCall(c) \/ Return(c)
    PROVE  FilesInv'
<1> USE FilesAssumption DEF Outcomes
<1>0. call[c] \in Calls /\ CallOK(call[c])
  BY DEF FilesInv, TypeOK
<1>1. ASSUME NEW op \in {"put", "read"}, NEW d \in Digests, Begin(c, op, d) PROVE FilesInv'
  <2> DEFINE r == [Idle EXCEPT !.op = op, !.digest = d,
                               !.at = IF op = "put" THEN "create" ELSE "stat"]
  <2>1. call' = [call EXCEPT ![c] = r] /\ r.file = NULL
    BY <1>1 DEF Begin, Idle
  <2>2. r \in Calls /\ CallOK(r) /\ ~Linked(r)
    BY <1>1 DEF Begin, Idle, Calls, CallOK, Linked
  <2>3. call[c].file = NULL
    BY <1>0, <1>1 DEF Begin, At, CallOK
  <2> QED
    BY <1>1, <2>1, <2>2, <2>3, CallKeeps DEF Begin
<1>2. CASE SyncFile(c)
  <2> DEFINE r == [call[c] EXCEPT !.at = "link"]
  <2>1. call' = [call EXCEPT ![c] = r]
    BY <1>2 DEF SyncFile, Goto
  <2>2. r \in Calls /\ CallOK(r) /\ (Linked(r) => Linked(call[c]))
    BY <1>0, <1>2 DEF SyncFile, At, Calls, Outcomes, CallOK, Linked
  <2> QED
    BY <1>0, <1>2, <2>1, <2>2, CallKeeps DEF SyncFile, Calls
<1>3. CASE SyncDirectory(c)
  <2> DEFINE r == [call[c] EXCEPT !.at = IF call[c].op = "put" THEN "unlink" ELSE "return", !.outcome = "created"]
  <2>1. call' = [call EXCEPT ![c] = r]
    BY <1>3 DEF SyncDirectory, Finish
  <2>2. r \in Calls /\ CallOK(r) /\ Linked(call[c])
    BY <1>0, <1>3 DEF SyncDirectory, At, Calls, Outcomes, CallOK, Linked
  <2> QED
    BY <1>0, <1>3, <2>1, <2>2, CallKeeps DEF SyncDirectory, Calls
<1>4. CASE StatTarget(c) /\ Exists(call[c].digest)
  <2> DEFINE r == [call[c] EXCEPT !.at = "readback"]
  <2>1. call' = [call EXCEPT ![c] = r]
    BY <1>4 DEF StatTarget, Goto
  <2>2. r \in Calls /\ CallOK(r) /\ (Linked(r) => Linked(call[c]))
    BY <1>0, <1>4 DEF StatTarget, At, Calls, Outcomes, CallOK, Linked
  <2> QED
    BY <1>0, <1>4, <2>1, <2>2, CallKeeps DEF StatTarget, Calls
<1>5. CASE StatTarget(c) /\ ~Exists(call[c].digest)
  <2> DEFINE r == [call[c] EXCEPT !.at = IF call[c].op = "put" THEN "unlink" ELSE "return", !.outcome = "integrity"]
  <2>1. call' = [call EXCEPT ![c] = r]
    BY <1>5 DEF StatTarget, Finish
  <2>2. call[c].digest \in damaged
    BY <1>0, <1>5 DEF StatTarget, At, CallOK, Exists, FilesInv, PathsOK
  <2>3. r \in Calls /\ CallOK(r) /\ ~Linked(r)
    BY <1>0, <1>5, <2>2 DEF StatTarget, At, Calls, Outcomes, CallOK, Linked
  <2> QED
    BY <1>0, <1>5, <2>1, <2>3, CallKeeps DEF StatTarget, Calls
<1>6. CASE ReadTarget(c)
  <2> DEFINE d == call[c].digest
             found(v) == [call[c] EXCEPT !.at = IF call[c].op = "put" THEN "unlink" ELSE "return",
                                         !.outcome = v]
  <2>1. call[c].at = "readback"
    BY <1>6 DEF ReadTarget, At
  <2>2. d \in installed /\ d \in Digests
    BY <1>0, <2>1 DEF CallOK
  <2>3. PICK v \in {"dependency", "found", "integrity"} :
            call' = [call EXCEPT ![c] = found(v)] /\ (v = "integrity" => d \in damaged)
    BY <1>6, <2>2 DEF ReadTarget, Finish, Verdict, FilesInv, PathsOK
  <2>4. \A x \in {"dependency", "found", "integrity"} :
            (x = "integrity" => d \in damaged)
                => /\ found(x) \in Calls /\ CallOK(found(x)) /\ ~Linked(found(x))
                   /\ found(x).file = call[c].file
    BY <1>0, <2>1, <2>2 DEF Calls, Outcomes, CallOK, Linked
  <2>5. PICK r \in Calls : /\ call' = [call EXCEPT ![c] = r]
                           /\ CallOK(r) /\ ~Linked(r) /\ r.file = call[c].file
    <3> HIDE DEF found
    <3> QED
      BY <2>3, <2>4, Zenon
  <2>6. UNCHANGED <<target, body, pending, installed, damaged, litter>>
    BY <1>6 DEF ReadTarget
  <2> QED
    BY <2>5, <2>6, CallKeeps
<1>7. CASE FailCall(c)
  <2> DEFINE r == [call[c] EXCEPT !.at = IF call[c].op = "put" THEN "unlink" ELSE "return", !.outcome = "dependency"]
  <2>1. call' = [call EXCEPT ![c] = r]
    BY <1>7 DEF FailCall, Finish
  <2>2. r \in Calls /\ CallOK(r) /\ ~Linked(r)
    BY <1>0, <1>7 DEF FailCall, Calls, Outcomes, CallOK, Linked
  <2> QED
    BY <1>0, <1>7, <2>1, <2>2, CallKeeps DEF FailCall, Calls
<1>8. CASE Return(c)
  <2>1. Idle \in Calls /\ CallOK(Idle) /\ ~Linked(Idle) /\ Idle.file = call[c].file
    BY <1>0, <1>8 DEF Return, At, Idle, Calls, Outcomes, CallOK, Linked
  <2> QED
    BY <1>8, <2>1, CallKeeps DEF Return
<1> QED
  BY <1>1, <1>2, <1>3, <1>4, <1>5, <1>6, <1>7, <1>8

\* A step of one call c, which becomes r, touches its own file f and no other.
Touches(c, r, f) ==
    /\ call' = [call EXCEPT ![c] = r]
    /\ f \in Files \cup {NULL} /\ call[c].file \in {f, NULL} /\ r.file \in {f, NULL}
    /\ target' \in [Digests -> Files \cup {NULL}] /\ \A d \in Digests : target'[d] \in {target[d], f}
    /\ body' \in [Files -> Digests \cup Junk]
    /\ pending' \subseteq Files /\ litter' \subseteq pending'
    /\ installed \subseteq installed' /\ installed' \subseteq Digests /\ UNCHANGED damaged
    /\ \A g \in Files : g # f => /\ body'[g] = body[g]
                                 /\ g \in pending' <=> g \in pending
                                 /\ g \in litter' <=> g \in litter
    /\ f \in pending' => body'[f] # "unused"
    /\ f \in pending' \ litter' => r.file = f
    /\ \A e \in Callers : e # c /\ call[e].file # NULL => call[e].file # f

\* The others lose nothing by it.
LEMMA CallMoves ==
    ASSUME FilesInv, NEW c \in Callers, NEW r \in Calls, NEW f, Touches(c, r, f),
           PathsOK', CallOK(r)',
           \A e \in Callers :
               e # c /\ Linked(r) /\ Linked(call[e]) /\ call[e].digest = r.digest
                   => r.digest \in damaged
    PROVE  FilesInv'
<1>1. /\ call'[c] = r
      /\ \A e \in Callers : e # c => call'[e] = call[e]
      /\ call' \in [Callers -> Calls]
  BY DEF FilesInv, TypeOK, Touches
<1>2. ASSUME NEW e \in Callers PROVE CallOK(call[e])'
  <2>1. CASE e = c
    BY <1>1, <2>1 DEF CallOK
  <2>2. CASE e # c
    <3>1. CallOK(call[e]) /\ call[e].file \in Files \cup {NULL} /\ call'[e] = call[e]
      BY <1>1, <2>2 DEF FilesInv, TypeOK, Calls
    <3>2. call[e].file # NULL => /\ call[e].file # f /\ body'[call[e].file] = body[call[e].file]
                                 /\ call[e].file \in pending \ litter
                                 /\ call[e].file \in pending' \ litter'
                                 /\ \A d \in Digests : target[d] # call[e].file => target'[d] # call[e].file
      BY <2>2, <3>1 DEF CallOK, Touches
    <3> QED
      BY <3>1, <3>2 DEF CallOK, Touches
  <2> QED
    BY <2>1, <2>2
<1>3. TypeOK'
  BY <1>1, <1>2 DEF FilesInv, TypeOK, CallOK, Touches
<1>4. (\A a, e \in Callers : a # e /\ call[a].file # NULL => call[a].file # call[e].file)'
  BY <1>1 DEF FilesInv, Touches
<1>5. ASSUME NEW a \in Callers, NEW e \in Callers, a # e,
             Linked(call[a])', Linked(call[e])', call'[a].digest = call'[e].digest
      PROVE  call'[a].digest \in damaged'
  <2>1. CASE a # c /\ e # c
    BY <1>1, <1>5, <2>1 DEF Linked, FilesInv, Touches
  <2>2. CASE a = c
    BY <1>1, <1>5, <2>2 DEF Linked, Touches
  <2>3. CASE e = c
    BY <1>1, <1>5, <2>3 DEF Linked, Touches
  <2> QED
    BY <2>1, <2>2, <2>3
<1>6. NamesOK'
  <2>1. \A g \in pending' : body'[g] # "unused"
    BY DEF FilesInv, NamesOK, Touches
  <2>2. ASSUME NEW g \in pending' \ litter' PROVE \E e \in Callers : call'[e].file = g
    <3>1. CASE g = f
      BY <1>1, <3>1 DEF Touches
    <3>2. CASE g # f
      <4>1. PICK e \in Callers : call[e].file = g
        BY <3>2 DEF FilesInv, NamesOK, Touches
      <4>2. e # c
        BY <3>2, <4>1, FilesAssumption DEF Touches
      <4> QED
        BY <1>1, <4>1, <4>2
    <3> QED
      BY <3>1, <3>2
  <2> QED
    BY <2>1, <2>2 DEF NamesOK, Touches
<1> QED
  BY <1>2, <1>3, <1>4, <1>5, <1>6 DEF FilesInv

\* The steps of a put that change the directory, and the end of its process.
LEMMA CreateKeeps ==
    ASSUME FilesInv, NEW c \in Callers, NEW f \in Files, CreateTemporary(c, f)
    PROVE  FilesInv'
<1> USE FilesAssumption
<1>1. /\ call[c] \in Calls /\ CallOK(call[c]) /\ call[c].at = "create" /\ body[f] = "unused"
      /\ f \notin pending /\ f \notin litter /\ f # NULL
      /\ \A d \in Digests : target[d] # f
      /\ \A e \in Callers : call[e].file # f
  BY DEF FilesInv, TypeOK, CreateTemporary, At, CallOK, NamesOK, PathsOK, Junk
<1>2. PICK r \in Calls :
          /\ call' = [call EXCEPT ![c] = r]
          /\ r.at = "write" /\ r.file = f /\ r.op = call[c].op
          /\ r.digest = call[c].digest /\ r.outcome = call[c].outcome
  <2> DEFINE x == [call[c] EXCEPT !.at = "write", !.file = f]
  <2>1. call' = [call EXCEPT ![c] = x]
    BY DEF CreateTemporary
  <2>2. /\ x \in Calls /\ x.at = "write" /\ x.file = f /\ x.op = call[c].op
        /\ x.digest = call[c].digest /\ x.outcome = call[c].outcome
    BY <1>1 DEF Calls
  <2> HIDE DEF x
  <2> QED
    BY <2>1, <2>2
<1>3. /\ pending' = pending \cup {f} /\ UNCHANGED <<target, installed, damaged, litter>>
      /\ body' \in [Files -> Digests \cup Junk] /\ body'[f] = "partial"
      /\ \A g \in Files : g # f => body'[g] = body[g]
  BY DEF CreateTemporary, FilesInv, TypeOK, Junk
<1>4. CallOK(r)' /\ (Linked(r) => Linked(call[c]))
  BY <1>1, <1>2, <1>3 DEF CallOK, Linked
<1>5. PathsOK'
  BY <1>1, <1>3 DEF FilesInv, TypeOK, PathsOK
<1>6. /\ target' \in [Digests -> Files \cup {NULL}] /\ pending' \subseteq Files
      /\ litter' \subseteq pending' /\ installed' \subseteq Digests
  BY <1>3 DEF FilesInv, TypeOK, NamesOK
<1>7. call[c].file \in {f, NULL}
  BY <1>1 DEF CallOK
<1>8. \A e \in Callers : e # c /\ Linked(r) /\ Linked(call[e]) /\ call[e].digest = r.digest
          => r.digest \in damaged
  BY <1>2, <1>4 DEF FilesInv
<1>9. Touches(c, r, f)
  BY <1>1, <1>2, <1>3, <1>7, <1>6 DEF Touches
<1> QED
  BY <1>4, <1>5, <1>8, <1>9, CallMoves

LEMMA WriteKeeps ==
    ASSUME FilesInv, NEW c \in Callers, WriteBytes(c)
    PROVE  FilesInv'
<1> USE FilesAssumption
<1>0. PICK f \in Files : f = call[c].file
  BY DEF FilesInv, TypeOK, WriteBytes, At, CallOK, Calls
<1>1. /\ call[c] \in Calls /\ CallOK(call[c]) /\ call[c].at = "write"
      /\ f # NULL /\ f \in pending \ litter /\ call[c].digest \in Digests
      /\ \A d \in Digests : target[d] # f
      /\ \A e \in Callers : e # c => call[e].file # f
  BY <1>0 DEF FilesInv, TypeOK, WriteBytes, At, CallOK
<1>2. PICK r \in Calls :
          /\ call' = [call EXCEPT ![c] = r]
          /\ r.at = "sync" /\ r.file = f /\ r.op = call[c].op
          /\ r.digest = call[c].digest /\ r.outcome = call[c].outcome
  <2> DEFINE x == [call[c] EXCEPT !.at = "sync"]
  <2>1. call' = [call EXCEPT ![c] = x]
    BY DEF WriteBytes, Goto
  <2>2. /\ x \in Calls /\ x.at = "sync" /\ x.file = f /\ x.op = call[c].op
        /\ x.digest = call[c].digest /\ x.outcome = call[c].outcome
    BY <1>0, <1>1 DEF Calls
  <2> HIDE DEF x
  <2> QED
    BY <2>1, <2>2
<1>3. /\ UNCHANGED <<target, pending, installed, damaged, litter>>
      /\ body' \in [Files -> Digests \cup Junk] /\ body'[f] = r.digest /\ body'[f] # "unused"
      /\ \A g \in Files : g # f => body'[g] = body[g]
  BY <1>0, <1>1, <1>2 DEF WriteBytes, FilesInv, TypeOK, Junk
<1>4. CallOK(r)' /\ (Linked(r) => Linked(call[c]))
  BY <1>0, <1>1, <1>2, <1>3 DEF CallOK, Linked
<1>5. PathsOK'
  BY <1>1, <1>3 DEF FilesInv, TypeOK, PathsOK
<1>6. /\ target' \in [Digests -> Files \cup {NULL}] /\ pending' \subseteq Files
      /\ litter' \subseteq pending' /\ installed' \subseteq Digests
  BY <1>3 DEF FilesInv, TypeOK, NamesOK
<1>7. \A e \in Callers : e # c /\ Linked(r) /\ Linked(call[e]) /\ call[e].digest = r.digest
          => r.digest \in damaged
  BY <1>2, <1>4 DEF FilesInv
<1>8. Touches(c, r, f)
  BY <1>0, <1>1, <1>2, <1>3, <1>6 DEF Touches
<1> QED
  BY <1>4, <1>5, <1>7, <1>8, CallMoves

LEMMA LinkKeeps ==
    ASSUME FilesInv, NEW c \in Callers, LinkTarget(c)
    PROVE  FilesInv'
<1> USE FilesAssumption
<1>0. PICK f \in Files, d \in Digests : f = call[c].file /\ d = call[c].digest
  BY DEF FilesInv, TypeOK, LinkTarget, At, CallOK, Calls
<1>1. /\ call[c] \in Calls /\ CallOK(call[c]) /\ call[c].at = "link"
      /\ f # NULL /\ f \in pending \ litter /\ body[f] = d /\ body[f] # "unused"
      /\ \A e \in Digests : target[e] # f
      /\ \A e \in Callers : e # c => call[e].file # f
  BY <1>0 DEF FilesInv, TypeOK, LinkTarget, At, CallOK, NamesOK
<1>2. CASE ~Exists(d)
  <2>1. PICK r \in Calls :
            /\ call' = [call EXCEPT ![c] = r]
            /\ r.at = "syncDirectory" /\ r.file = f /\ r.op = call[c].op
            /\ r.digest = d /\ r.outcome = call[c].outcome
    <3> DEFINE x == [call[c] EXCEPT !.at = "syncDirectory"]
    <3>1. call' = [call EXCEPT ![c] = x]
      BY <1>0, <1>2 DEF LinkTarget, Goto
    <3>2. /\ x \in Calls /\ x.at = "syncDirectory" /\ x.file = f /\ x.op = call[c].op
          /\ x.digest = d /\ x.outcome = call[c].outcome
      BY <1>0, <1>1 DEF Calls
    <3> HIDE DEF x
    <3> QED
      BY <3>1, <3>2
  <2>2. /\ UNCHANGED <<body, pending, damaged, litter>> /\ installed' = installed \cup {d}
        /\ target' \in [Digests -> Files \cup {NULL}] /\ target'[d] = f /\ target[d] = NULL
        /\ \A e \in Digests : e # d => target'[e] = target[e]
    BY <1>0, <1>2 DEF LinkTarget, Exists, FilesInv, TypeOK
  <2>3. CallOK(r)'
    BY <1>0, <1>1, <2>1, <2>2 DEF CallOK
  <2>4. PathsOK'
    <3>1. \A e \in Digests : target'[e] # NULL => e \in installed' /\ body[target'[e]] \in {e, "altered"}
      BY <1>1, <2>2 DEF FilesInv, PathsOK
    <3>2. \A e \in installed' \ damaged : target'[e] # NULL /\ body[target'[e]] = e
      BY <1>1, <2>2 DEF FilesInv, TypeOK, PathsOK
    <3>3. \A a, e \in Digests : a # e /\ target'[a] # NULL => target'[a] # target'[e]
      BY <1>1, <2>2 DEF FilesInv, PathsOK
    <3> QED
      BY <2>2, <3>1, <3>2, <3>3 DEF PathsOK
  <2>5. \A e \in Callers : Linked(call[e]) /\ call[e].digest = d => d \in damaged
    BY <2>2 DEF FilesInv, CallOK, Linked, PathsOK
  <2>6. /\ body' \in [Files -> Digests \cup Junk] /\ pending' \subseteq Files
        /\ litter' \subseteq pending' /\ installed' \subseteq Digests
    BY <2>2 DEF FilesInv, TypeOK, NamesOK
  <2>7. Touches(c, r, f)
    BY <1>0, <1>1, <2>1, <2>2, <2>6 DEF Touches
  <2> QED
    BY <2>1, <2>3, <2>4, <2>5, <2>7, CallMoves
<1>3. CASE Exists(d)
  <2>1. PICK r \in Calls :
            /\ call' = [call EXCEPT ![c] = r]
            /\ r.at = "stat" /\ r.file = f /\ r.op = call[c].op
            /\ r.digest = d /\ r.outcome = call[c].outcome
    <3> DEFINE x == [call[c] EXCEPT !.at = "stat"]
    <3>1. call' = [call EXCEPT ![c] = x]
      BY <1>0, <1>3 DEF LinkTarget, Goto
    <3>2. /\ x \in Calls /\ x.at = "stat" /\ x.file = f /\ x.op = call[c].op
          /\ x.digest = d /\ x.outcome = call[c].outcome
      BY <1>0, <1>1 DEF Calls
    <3> HIDE DEF x
    <3> QED
      BY <3>1, <3>2
  <2>2. UNCHANGED <<target, body, pending, installed, damaged, litter>> /\ d \in installed
    BY <1>0, <1>3 DEF LinkTarget, Exists, FilesInv, PathsOK
  <2>3. CallOK(r) /\ (Linked(r) => Linked(call[c]))
    BY <1>0, <1>1, <2>1, <2>2 DEF CallOK, Linked
  <2> QED
    BY <1>0, <2>1, <2>2, <2>3, CallKeeps
<1> QED
  BY <1>2, <1>3

LEMMA UnlinkKeeps ==
    ASSUME FilesInv, NEW c \in Callers, UnlinkTemporary(c)
    PROVE  FilesInv'
<1> USE FilesAssumption
<1>0. PICK f \in Files \cup {NULL} : f = call[c].file
  BY DEF FilesInv, TypeOK, Calls
<1>1. /\ call[c] \in Calls /\ CallOK(call[c]) /\ call[c].at = "unlink" /\ call[c].op = "put"
      /\ f # NULL => f \in Files /\ f \in pending \ litter
      /\ \A e \in Callers : e # c /\ call[e].file # NULL => call[e].file # f
      /\ UNCHANGED <<target, installed, damaged>>
  BY <1>0 DEF FilesInv, TypeOK, UnlinkTemporary, At, CallOK
<1>2. PICK r \in Calls :
          /\ call' = [call EXCEPT ![c] = r]
          /\ r.at = "return" /\ r.file = NULL /\ r.op = "put" /\ r.digest = call[c].digest
          /\ \/ f = NULL /\ r.outcome = call[c].outcome /\ UNCHANGED <<body, pending, litter>>
             \/ /\ f # NULL /\ r.outcome = call[c].outcome
                /\ pending' = pending \ {f} /\ body' = Freed(f) /\ UNCHANGED litter
             \/ /\ r.outcome = "notRemoved"
                /\ litter' = litter \cup ({f} \ {NULL}) /\ UNCHANGED <<body, pending>>
  <2> DEFINE x == [call[c] EXCEPT !.at = "return", !.file = NULL]
             y == [x EXCEPT !.outcome = "notRemoved"]
  <2>1. /\ x \in Calls /\ x.at = "return" /\ x.file = NULL /\ x.op = "put"
        /\ x.digest = call[c].digest /\ x.outcome = call[c].outcome
    BY <1>1 DEF Calls
  <2>2. /\ y \in Calls /\ y.at = "return" /\ y.file = NULL /\ y.op = "put"
        /\ y.digest = call[c].digest /\ y.outcome = "notRemoved"
    BY <1>1 DEF Calls, Outcomes
  <2>3. \/ f = NULL /\ call' = [call EXCEPT ![c] = x] /\ UNCHANGED <<body, pending, litter>>
        \/ /\ f # NULL /\ call' = [call EXCEPT ![c] = x]
           /\ pending' = pending \ {f} /\ body' = Freed(f) /\ UNCHANGED litter
        \/ /\ call' = [call EXCEPT ![c] = y]
           /\ litter' = litter \cup ({f} \ {NULL}) /\ UNCHANGED <<body, pending>>
    BY <1>0 DEF UnlinkTemporary
  <2> HIDE DEF x, y
  <2> QED
    BY <2>1, <2>2, <2>3
<1>3. CallOK(r)' /\ (Linked(r) => Linked(call[c]))
  BY <1>1, <1>2 DEF CallOK, Linked
<1>4. /\ body' \in [Files -> Digests \cup Junk]
      /\ \A g \in Files : g # f => body'[g] = body[g]
      /\ \A d \in Digests : target[d] # NULL => body'[target[d]] = body[target[d]]
  BY <1>1, <1>2 DEF Freed, FilesInv, TypeOK, Junk
<1>5. PathsOK'
  BY <1>1, <1>4 DEF FilesInv, TypeOK, PathsOK
<1>6. /\ pending' \subseteq Files /\ litter' \subseteq pending' /\ f \notin pending' \ litter'
      /\ f \in pending' => body'[f] # "unused"
      /\ \A g \in Files : g # f => /\ g \in pending' <=> g \in pending
                                   /\ g \in litter' <=> g \in litter
  BY <1>1, <1>2 DEF FilesInv, TypeOK, NamesOK
<1>7. Touches(c, r, f)
  BY <1>0, <1>1, <1>2, <1>4, <1>6 DEF Touches, FilesInv, TypeOK
<1>8. \A e \in Callers : e # c /\ Linked(r) /\ Linked(call[e]) /\ call[e].digest = r.digest
          => r.digest \in damaged
  BY <1>2, <1>3 DEF FilesInv
<1> QED
  BY <1>3, <1>5, <1>7, <1>8, CallMoves

LEMMA CrashKeeps ==
    ASSUME FilesInv, NEW c \in Callers, Crash(c)
    PROVE  FilesInv'
<1> USE FilesAssumption
<1>0. PICK f \in Files \cup {NULL} : f = call[c].file
  BY DEF FilesInv, TypeOK, Calls
<1>1. /\ f # NULL => f \in pending \ litter
      /\ \A e \in Callers : e # c /\ call[e].file # NULL => call[e].file # f
      /\ UNCHANGED <<target, body, pending, installed, damaged>>
      /\ litter' = litter \cup ({f} \ {NULL}) /\ call' = [call EXCEPT ![c] = Idle]
  BY <1>0 DEF FilesInv, Crash, CallOK
<1>2. Idle \in Calls /\ Idle.file = NULL /\ ~Linked(Idle)
  BY DEF Idle, Calls, Outcomes, Linked
<1>3. CallOK(Idle)'
  BY DEF Idle, CallOK, Outcomes
<1>4. PathsOK'
  BY <1>1 DEF FilesInv, PathsOK
<1>5. Touches(c, Idle, f)
  BY <1>0, <1>1, <1>2 DEF Touches, FilesInv, TypeOK, NamesOK
<1> QED
  BY <1>2, <1>3, <1>4, <1>5, CallMoves

\* Damage from outside changes no call and no temporary name.
LEMMA DamageKeeps ==
    ASSUME FilesInv, NEW d \in Digests, AlterObject(d) \/ LoseObject(d)
    PROVE  FilesInv'
<1> USE FilesAssumption
<1>0. PICK f \in Files : f = target[d] /\ body[f] = d
  BY DEF FilesInv, TypeOK, AlterObject, LoseObject
<1>1. /\ UNCHANGED <<pending, call, installed, litter>> /\ damaged' = damaged \cup {d}
      /\ body' \in [Files -> Digests \cup Junk]
      /\ target' \in [Digests -> Files \cup {NULL}]
      /\ \A g \in Files : g # f => body'[g] = body[g]
      /\ \A e \in Digests : e # d => target'[e] = target[e]
      /\ target'[d] \in {f, NULL} /\ (target'[d] # NULL => body'[f] = "altered")
      /\ f \in pending => body'[f] # "unused"
  BY <1>0 DEF AlterObject, LoseObject, FilesInv, TypeOK, NamesOK, Junk
<1>2. TypeOK'
  BY <1>1 DEF FilesInv, TypeOK
<1>3. ASSUME NEW e \in Callers PROVE CallOK(call[e])'
  <2>1. CallOK(call[e]) /\ call'[e] = call[e] /\ call[e].file \in Files \cup {NULL}
    BY <1>1 DEF FilesInv, TypeOK, Calls
  <2>2. call[e].at \in {"write", "sync", "link"} =>
            /\ body'[call[e].file] = body[call[e].file]
            /\ \A g \in Digests : target'[g] # call[e].file
    BY <1>0, <1>1, <2>1 DEF CallOK
  <2> QED
    BY <1>1, <2>1, <2>2 DEF CallOK
<1>4. PathsOK'
  <2>1. \A e \in Digests : target'[e] # NULL => e \in installed /\ body'[target'[e]] \in {e, "altered"}
    BY <1>0, <1>1 DEF FilesInv, TypeOK, PathsOK
  <2>2. \A e \in installed \ damaged' : target'[e] # NULL /\ body'[target'[e]] = e
    BY <1>0, <1>1 DEF FilesInv, TypeOK, PathsOK
  <2>3. \A a, e \in Digests : a # e /\ target'[a] # NULL => target'[a] # target'[e]
    BY <1>0, <1>1 DEF FilesInv, PathsOK
  <2> QED
    BY <1>1, <2>1, <2>2, <2>3 DEF PathsOK
<1>5. NamesOK'
  BY <1>1 DEF FilesInv, TypeOK, NamesOK
<1> QED
  BY <1>1, <1>2, <1>3, <1>4, <1>5 DEF FilesInv, Linked

\* Every step of the object store keeps the invariant.
LEMMA FilesNext == FilesInv /\ [Next]_vars => FilesInv'
<1> SUFFICES ASSUME FilesInv, [Next]_vars PROVE FilesInv'
  OBVIOUS
<1>1. ASSUME NEW c \in Callers,
             \/ \E op \in {"put", "read"}, d \in Digests : Begin(c, op, d)
             \/ SyncFile(c) \/ SyncDirectory(c) \/ StatTarget(c) \/ ReadTarget(c)
             \/ FailCall(c) \/ Return(c)
      PROVE  FilesInv'
  BY <1>1, LookKeeps
<1>2. ASSUME NEW c \in Callers, NEW f \in Files, CreateTemporary(c, f) PROVE FilesInv'
  BY <1>2, CreateKeeps
<1>3. ASSUME NEW c \in Callers, WriteBytes(c) PROVE FilesInv'
  BY <1>3, WriteKeeps
<1>4. ASSUME NEW c \in Callers, LinkTarget(c) PROVE FilesInv'
  BY <1>4, LinkKeeps
<1>5. ASSUME NEW c \in Callers, UnlinkTemporary(c) PROVE FilesInv'
  BY <1>5, UnlinkKeeps
<1>6. ASSUME NEW c \in Callers, Crash(c) PROVE FilesInv'
  BY <1>6, CrashKeeps
<1>7. ASSUME NEW d \in Digests, AlterObject(d) \/ LoseObject(d) PROVE FilesInv'
  BY <1>7, DamageKeeps
<1>8. CASE UNCHANGED vars
  BY <1>8 DEF vars, FilesInv, TypeOK, CallOK, PathsOK, NamesOK, Linked
<1> QED
  BY <1>1, <1>2, <1>3, <1>4, <1>5, <1>6, <1>7, <1>8 DEF Next

LEMMA FilesHolds == Spec => []FilesInv
BY FilesInit, FilesNext, PTL DEF Spec

\* Every reachable state of the object store is well typed.
THEOREM FileTypes == Spec => []TypeOK
<1>1. FilesInv => TypeOK
  BY DEF FilesInv
<1> QED
  BY <1>1, FilesHolds, PTL

\* An integrity error of put or read means that the file of the digest was altered
\* or removed outside the program; no race, failure or crash produces one.
THEOREM NoFalseAlarm == Spec => []IntegrityErrorsMeanDamage
<1>1. FilesInv => IntegrityErrorsMeanDamage
  BY DEF FilesInv, CallOK, IntegrityErrorsMeanDamage
<1> QED
  BY <1>1, FilesHolds, PTL

\* A put or read that succeeds found or left the digest installed, and its path
\* holds the whole content until somebody outside damages it.
THEOREM SuccessIsInstalled == Spec => []SuccessMeansInstalled
<1>1. FilesInv => SuccessMeansInstalled
  BY DEF FilesInv, CallOK, PathsOK, SuccessMeansInstalled
<1> QED
  BY <1>1, FilesHolds, PTL

\* Of all puts of the same bytes at most one reports that it created the object.
THEOREM OneCreator == Spec => []CreatedByOne
<1>1. FilesInv => CreatedByOne
  BY DEF FilesInv, Linked, CreatedByOne
<1> QED
  BY <1>1, FilesHolds, PTL

\* Every temporary file belongs to exactly one put under way, or was left behind by
\* a process that died or could not remove it.
THEOREM TemporariesOwned == Spec => []TemporariesAccountedFor
<1>1. FilesInv => TemporariesAccountedFor
  BY DEF FilesInv, NamesOK, TemporariesAccountedFor
<1> QED
  BY <1>1, FilesHolds, PTL

\* What a step does to the content of the digest paths: nothing, or it installs a
\* whole object at a free path, or damages an intact one.
LEMMA StoreStep == FilesInv /\ [Next]_vars => [Store!Next]_Store!contents
<1> SUFFICES ASSUME FilesInv, [Next]_vars PROVE [Store!Next]_Store!contents
  OBVIOUS
<1> USE FilesAssumption
<1>1. ASSUME UNCHANGED <<target, installed>>,
             \A d \in Digests : target[d] # NULL => body'[target[d]] = body[target[d]]
      PROVE  UNCHANGED Store!contents
  BY <1>1 DEF Store!contents, FilesInv, TypeOK
<1>2. ASSUME NEW c \in Callers,
             \/ \E op \in {"put", "read"}, d \in Digests : Begin(c, op, d)
             \/ SyncFile(c) \/ SyncDirectory(c) \/ StatTarget(c) \/ ReadTarget(c)
             \/ FailCall(c) \/ Return(c) \/ Crash(c)
      PROVE  UNCHANGED Store!contents
  <2>1. UNCHANGED <<target, body, installed>>
    BY <1>2 DEF Begin, SyncFile, SyncDirectory, StatTarget, ReadTarget, FailCall, Return, Crash
  <2> QED
    BY <1>1, <2>1
<1>3. ASSUME NEW c \in Callers, NEW f \in Files, CreateTemporary(c, f)
      PROVE  UNCHANGED Store!contents
  <2>1. \A d \in Digests : target[d] # f
    BY <1>3 DEF CreateTemporary, FilesInv, PathsOK, Junk
  <2>2. UNCHANGED <<target, installed>> /\ body' = [body EXCEPT ![f] = "partial"]
    BY <1>3 DEF CreateTemporary
  <2> QED
    BY <1>1, <2>1, <2>2 DEF FilesInv, TypeOK
<1>4. ASSUME NEW c \in Callers, WriteBytes(c) PROVE UNCHANGED Store!contents
  <2>1. \A d \in Digests : target[d] # call[c].file
    BY <1>4 DEF WriteBytes, At, FilesInv, CallOK
  <2>2. UNCHANGED <<target, installed>> /\ body' = [body EXCEPT ![call[c].file] = call[c].digest]
    BY <1>4 DEF WriteBytes
  <2> QED
    BY <1>1, <2>1, <2>2 DEF FilesInv, TypeOK
<1>5. ASSUME NEW c \in Callers, UnlinkTemporary(c) PROVE UNCHANGED Store!contents
  <2>1. UNCHANGED <<target, installed>> /\ (UNCHANGED body \/ body' = Freed(call[c].file))
    BY <1>5 DEF UnlinkTemporary
  <2>2. \A d \in Digests : target[d] # NULL => body'[target[d]] = body[target[d]]
    BY <2>1 DEF Freed, FilesInv, TypeOK
  <2> QED
    BY <1>1, <2>1, <2>2
<1>6. ASSUME NEW c \in Callers, LinkTarget(c) PROVE [Store!Next]_Store!contents
  <2>1. PICK d \in Digests, f \in Files :
            /\ d = call[c].digest /\ f = call[c].file /\ body[f] = d /\ UNCHANGED body
            /\ \/ UNCHANGED <<target, installed>>
               \/ /\ target[d] = NULL /\ target' = [target EXCEPT ![d] = f]
                  /\ installed' = installed \cup {d}
    BY <1>6 DEF LinkTarget, At, Exists, FilesInv, TypeOK, CallOK, Calls
  <2>2. CASE UNCHANGED <<target, installed>>
    BY <1>1, <2>1, <2>2
  <2>3. CASE /\ target[d] = NULL /\ target' = [target EXCEPT ![d] = f]
             /\ installed' = installed \cup {d}
    <3>1. target'[d] = f /\ \A e \in Digests : e # d => target'[e] = target[e]
      BY <2>3 DEF FilesInv, TypeOK
    <3>2. {e \in Digests : target'[e] # NULL /\ body'[target'[e]] = e}
              = {e \in Digests : target[e] # NULL /\ body[target[e]] = e} \cup {d}
      BY <2>1, <2>3, <3>1
    <3>3. {e \in Digests : target'[e] # NULL /\ body'[target'[e]] # e}
              = {e \in Digests : target[e] # NULL /\ body[target[e]] # e}
      BY <2>1, <2>3, <3>1
    <3>4. {e \in installed' : target'[e] = NULL} = {e \in installed : target[e] = NULL} \ {d}
      BY <2>3, <3>1 DEF FilesInv, TypeOK
    <3>5. Store!Install(d)
      BY <2>3, <3>2, <3>3, <3>4 DEF Store!Install
    <3> QED
      BY <3>2, <3>5 DEF Store!Next
  <2> QED
    BY <2>1, <2>2, <2>3
<1>7. ASSUME NEW d \in Digests, AlterObject(d) \/ LoseObject(d)
      PROVE  [Store!Next]_Store!contents
  <2>1. PICK f \in Files : f = target[d] /\ body[f] = d
    BY <1>7 DEF AlterObject, LoseObject, FilesInv, TypeOK
  <2>2. /\ UNCHANGED installed /\ d \in installed
        /\ \A e \in Digests : e # d => target'[e] = target[e]
        /\ \A e \in Digests : e # d /\ target[e] # NULL => body'[target[e]] = body[target[e]]
        /\ \/ target'[d] = f /\ body'[f] # d
           \/ target'[d] = NULL
    BY <1>7, <2>1 DEF AlterObject, LoseObject, FilesInv, TypeOK, PathsOK, Junk
  <2>3. {e \in Digests : target'[e] # NULL /\ body'[target'[e]] = e}
            = {e \in Digests : target[e] # NULL /\ body[target[e]] = e} \ {d}
    BY <2>1, <2>2
  <2>4. CASE target'[d] = f /\ body'[f] # d
    <3>1. {e \in Digests : target'[e] # NULL /\ body'[target'[e]] # e}
              = {e \in Digests : target[e] # NULL /\ body[target[e]] # e} \cup {d}
      BY <2>1, <2>2, <2>4
    <3>2. {e \in installed' : target'[e] = NULL} = {e \in installed : target[e] = NULL}
      BY <2>1, <2>2, <2>4 DEF FilesInv, TypeOK
    <3>3. Store!Damage(d)
      BY <2>1, <2>3, <3>1, <3>2 DEF Store!Damage
    <3> QED
      BY <2>1, <3>3 DEF Store!Next
  <2>5. CASE target'[d] = NULL
    <3>1. {e \in Digests : target'[e] # NULL /\ body'[target'[e]] # e}
              = {e \in Digests : target[e] # NULL /\ body[target[e]] # e}
      BY <2>1, <2>2, <2>5
    <3>2. {e \in installed' : target'[e] = NULL} = {e \in installed : target[e] = NULL} \cup {d}
      BY <2>1, <2>2, <2>5 DEF FilesInv, TypeOK
    <3>3. Store!Damage(d)
      BY <2>1, <2>3, <3>1, <3>2 DEF Store!Damage
    <3> QED
      BY <2>1, <3>3 DEF Store!Next
  <2> QED
    BY <2>2, <2>4, <2>5
<1>8. CASE UNCHANGED vars
  BY <1>1, <1>8 DEF vars
<1> QED
  BY <1>2, <1>3, <1>4, <1>5, <1>6, <1>7, <1>8 DEF Next

\* The directory implements the content store: a digest path, once installed, names
\* its content until it is damaged from outside, and no put overwrites or repairs it.
THEOREM FilesImplementStore == Spec => ImplementsContentStore
<1>1. Init => Store!Init
  BY DEF Init, Store!Init
<1> QED
  BY <1>1, StoreStep, FilesHolds, PTL DEF Spec, Store!Spec, ImplementsContentStore
====
