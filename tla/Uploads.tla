------------------------------ MODULE Uploads ------------------------------
(***************************************************************************)
(* Resumable (tus) uploads: internal/files/uploads.go.                     *)
(*                                                                         *)
(* An upload is two files, <id>.json (the metadata, with the offset) and   *)
(* <id>.bin (the bytes received), and a lock in the process-wide map       *)
(* uploadPatchLocks.  Every request is served by a goroutine of its own;   *)
(* every file operation and every operation on the lock or on the map is a *)
(* step.  A complete upload is renamed to its target, or, on a cloud       *)
(* storage, handed to the job queue (modelled in Jobs; here a job uploads  *)
(* the file and removes it, or fails and removes it).                      *)
(*                                                                         *)
(* Clients are honest about data: what a PATCH sends at an offset is what  *)
(* the file has there.  So a file is the set of positions that have been   *)
(* written; a position that is missing below the largest is a hole.        *)
(*                                                                         *)
(* Not modelled: HEAD, which reads only; the sudo fallbacks, which do what *)
(* the plain calls do; the copy across devices, as the temporary files are *)
(* under the mount path of their storage.                                  *)
(*                                                                         *)
(* A definition named Slip... is a plausible fault of the definition after *)
(* it, substituted to see that a property notices.                         *)
(***************************************************************************)
EXTENDS Integers

CONSTANTS Upload,     \* upload ids
          Length,     \* the declared length of each upload
          Target,     \* paths in local storages
          Cloud,      \* a cloud storage
          Handler,    \* goroutines serving requests
          Lock,       \* lock objects, as many as can be in use at a time
          None,       \* no upload, no lock
          MaxCrashes, \* bound: how many times the process may die
          MaxQueue    \* bound: jobs waiting for one upload

ASSUME LengthAssumption == Length \in [Upload -> Nat]
ASSUME TargetAssumption == Cloud \notin Target
ASSUME NoneAssumption   == None \notin Upload \cup Lock \cup Target \cup {Cloud}
ASSUME BoundsAssumption == MaxCrashes \in Nat /\ MaxQueue \in Nat

NoFile == {-1}   \* what a path leads to when there is no file
Whole(u) == 0 .. (Length[u] - 1)
\* Bound: a PATCH sends at most one byte too many.
Positions(u) == 0 .. Length[u]

Patching == {"open", "copy", "truncate", "save", "finalize", "persist",
             "cleanMeta", "forget", "scrubTemp", "scrubMeta"}
Point == Patching \cup {"idle", "getLock", "tryLock", "endTemp", "endMeta", "endLock"}

VARIABLES
    dest,     \* where each upload goes: a path, or Cloud; None before its creation
    saved,    \* <id>.json: "none", "torn" (truncated, not parsed) or "ok"
    offset,   \* the offset in <id>.json
    temp,     \* <id>.bin
    target,   \* the files at the targets, and the upload each came from
    queue,    \* how many jobs wait for the upload
    remote,   \* the file the cloud storage has of the upload
    lockOf,   \* uploadPatchLocks
    held,     \* locks that are taken
    pc, up,   \* where each handler stands, and for which upload
    seen,     \* meta.Offset in the handler's copy of the metadata
    ref,      \* the lock the handler got
    fd,       \* where the file that the handler opened is now linked
    crashes,
    over,     \* history: uploads that were stored, or refused as their target exists
    spoiled   \* history: uploads that were terminated, overrun, or failed otherwise

files  == <<dest, saved, offset, temp, target, queue, remote>>
locks  == <<lockOf, held>>
locals == <<pc, up, seen, ref, fd>>
hist   == <<over, spoiled>>
vars   == <<files, locks, locals, crashes, hist>>

Init ==
    /\ dest = [u \in Upload |-> None]
    /\ saved = [u \in Upload |-> "none"] /\ offset = [u \in Upload |-> 0]
    /\ temp = [u \in Upload |-> NoFile]
    /\ target = [t \in Target |-> [of |-> None, at |-> NoFile]]
    /\ queue = [u \in Upload |-> 0] /\ remote = [u \in Upload |-> NoFile]
    /\ lockOf = [u \in Upload |-> None] /\ held = {}
    /\ pc = [h \in Handler |-> "idle"] /\ up = [h \in Handler |-> None]
    /\ seen = [h \in Handler |-> 0] /\ ref = [h \in Handler |-> None]
    /\ fd = [h \in Handler |-> "closed"]
    /\ crashes = 0 /\ over = {} /\ spoiled = {}

-----------------------------------------------------------------------------
Goto(h, point) == pc' = [pc EXCEPT ![h] = point]

\* The handler returns: its file is closed and, when it has it, its lock
\* released (the deferred calls of HandleTusPatch).
Return(h) ==
    /\ pc' = [pc EXCEPT ![h] = "idle"] /\ up' = [up EXCEPT ![h] = None]
    /\ seen' = [seen EXCEPT ![h] = 0]  /\ ref' = [ref EXCEPT ![h] = None]
    /\ fd' = [fd EXCEPT ![h] = "closed"]
Unlock(h) == held' = held \ {ref[h]}

\* The handlers that have a file open when it is unlinked or renamed keep it.
Relink(u, from, to) ==
    fd' = [h \in Handler |-> IF up[h] = u /\ fd[h] = from THEN to ELSE fd[h]]
RemoveTemp(u) == temp' = [temp EXCEPT ![u] = NoFile] /\ Relink(u, "temp", "gone")

-----------------------------------------------------------------------------
(* Creation and termination.                                               *)

\* HandleTusCreate: nobody knows the id before the answer, so one step.
Create(u, d) ==
    /\ dest[u] = None
    /\ dest' = [dest EXCEPT ![u] = d]
    /\ temp' = [temp EXCEPT ![u] = {}]
    /\ saved' = [saved EXCEPT ![u] = "ok"] /\ offset' = [offset EXCEPT ![u] = 0]
    /\ UNCHANGED <<target, queue, remote, locks, locals, crashes, hist>>

\* HandleTusDelete takes no lock.
DeleteLoad(h, u) ==
    /\ pc[h] = "idle" /\ saved[u] = "ok"
    /\ Goto(h, "endTemp") /\ up' = [up EXCEPT ![h] = u]
    /\ spoiled' = spoiled \cup {u}
    /\ UNCHANGED <<files, locks, seen, ref, fd, crashes, over>>

EndLock(h) ==
    /\ pc[h] = "endLock"
    /\ lockOf' = [lockOf EXCEPT ![up[h]] = None]
    /\ Return(h)
    /\ UNCHANGED <<files, held, crashes, hist>>

\* cleanupTusUpload, after a termination ("end...") and after a finalization
\* that failed: first the bytes, then the metadata.
ScrubTemp(h) ==
    /\ pc[h] \in {"scrubTemp", "endTemp"}
    /\ RemoveTemp(up[h])
    /\ Goto(h, IF pc[h] = "endTemp" THEN "endMeta" ELSE "scrubMeta")
    /\ UNCHANGED <<dest, saved, offset, target, queue, remote, locks,
                   up, seen, ref, crashes, hist>>
ScrubMeta(h) ==
    /\ pc[h] \in {"scrubMeta", "endMeta"}
    /\ saved' = [saved EXCEPT ![up[h]] = "none"]
    /\ offset' = [offset EXCEPT ![up[h]] = 0]
    /\ IF pc[h] = "endMeta"
         THEN Goto(h, "endLock") /\ UNCHANGED <<held, up, seen, ref, fd>>
         ELSE Return(h) /\ Unlock(h)
    /\ UNCHANGED <<dest, temp, target, queue, remote, lockOf, crashes, hist>>

-----------------------------------------------------------------------------
(* HandleTusPatch: the metadata are read before the lock is taken.         *)

PatchLoad(h, u) ==
    /\ pc[h] = "idle" /\ saved[u] = "ok"
    /\ Goto(h, "getLock") /\ up' = [up EXCEPT ![h] = u]
    /\ seen' = [seen EXCEPT ![h] = offset[u]]
    /\ UNCHANGED <<files, locks, ref, fd, crashes, hist>>

InUse == {lockOf[u] : u \in Upload} \cup {ref[h] : h \in Handler}

\* LoadOrStore of a new lock.
GetLock(h) ==
    /\ pc[h] = "getLock"
    /\ IF lockOf[up[h]] = None
         THEN \E l \in Lock \ InUse : /\ lockOf' = [lockOf EXCEPT ![up[h]] = l]
                                      /\ ref' = [ref EXCEPT ![h] = l]
         ELSE ref' = [ref EXCEPT ![h] = lockOf[up[h]]] /\ UNCHANGED lockOf
    /\ Goto(h, "tryLock")
    /\ UNCHANGED <<files, held, up, seen, fd, crashes, hist>>

\* Slip: a busy upload is patched all the same.
SlipTry(h) ==
    /\ pc[h] = "tryLock"
    /\ held' = held \cup {ref[h]} /\ Goto(h, "open")
    /\ UNCHANGED <<files, lockOf, up, seen, ref, fd, crashes, hist>>

\* 409 when the lock is taken, or the Upload-Offset of the request is not
\* the one seen (whatever the client sent, the lock is released again).
TryLock(h) ==
    /\ pc[h] = "tryLock"
    /\ \/ ref[h] \notin held /\ held' = held \cup {ref[h]}
          /\ Goto(h, "open") /\ UNCHANGED <<up, seen, ref, fd>>
       \/ Return(h) /\ UNCHANGED held
    /\ UNCHANGED <<files, lockOf, crashes, hist>>

\* openTusTempFileForPatch creates the file when it is not there.
Open(h) ==
    /\ pc[h] = "open"
    /\ temp' = [temp EXCEPT ![up[h]] = IF @ = NoFile THEN {} ELSE @]
    /\ fd' = [fd EXCEPT ![h] = "temp"]
    /\ Goto(h, "copy")
    /\ UNCHANGED <<dest, saved, offset, target, queue, remote, locks,
                   up, seen, ref, crashes, hist>>

\* The bytes go to the open file, wherever it is linked by now.
Write(h, bytes) ==
    LET u == up[h] IN
    /\ temp' = IF fd[h] = "temp" THEN [temp EXCEPT ![u] = @ \cup bytes] ELSE temp
    /\ target' = IF fd[h] = "target"
                   THEN [target EXCEPT ![dest[u]].at = @ \cup bytes] ELSE target

\* io.Copy of a body that ends before position "end"; on an error what was
\* written stays in the file but the offset does not move, nor does it when
\* the body goes past the limit.
CopyBody(h, limit) ==
    LET u == up[h] IN
    /\ pc[h] = "copy"
    /\ \E end \in seen[h] .. (Length[u] + 1) :
          /\ Write(h, seen[h] .. (end - 1))
          /\ spoiled' = IF end > Length[u] THEN spoiled \cup {u} ELSE spoiled
          /\ \/ /\ end <= limit
                /\ seen' = [seen EXCEPT ![h] = end] /\ Goto(h, "truncate")
                /\ UNCHANGED <<held, up, ref, fd>>
             \/ Return(h) /\ Unlock(h)
    /\ UNCHANGED <<dest, saved, offset, queue, remote, lockOf, crashes, over>>

\* Slip: a chunk that was cut short is counted in full.
SlipShort(h) ==
    LET u == up[h] IN
    /\ pc[h] = "copy"
    /\ \E written, sent \in Positions(u) :
          /\ seen[h] <= written /\ written <= sent
          /\ Write(h, seen[h] .. (written - 1))
          /\ seen' = [seen EXCEPT ![h] = sent] /\ Goto(h, "truncate")
    /\ UNCHANGED <<dest, saved, offset, queue, remote, locks,
                   up, ref, fd, crashes, hist>>

Copy(h) == CopyBody(h, Length[up[h]])

\* saveTusUploadMeta: os.WriteFile truncates the file, then writes it.
Truncate(h) ==
    /\ pc[h] = "truncate"
    /\ saved' = [saved EXCEPT ![up[h]] = "torn"]
    /\ offset' = [offset EXCEPT ![up[h]] = 0]
    /\ Goto(h, "save")
    /\ UNCHANGED <<dest, temp, target, queue, remote, locks,
                   up, seen, ref, fd, crashes, hist>>
\* After a write that failed the locks in freed are released: the handler's own,
\* or (slip) none.
SaveOr(h, freed) ==
    /\ pc[h] = "save"
    /\ \/ /\ saved' = [saved EXCEPT ![up[h]] = "ok"]
          /\ offset' = [offset EXCEPT ![up[h]] = seen[h]]
          /\ IF seen[h] = Length[up[h]]
               THEN Goto(h, "finalize") /\ UNCHANGED <<held, up, seen, ref, fd>>
               ELSE Return(h) /\ Unlock(h)
       \/ UNCHANGED <<saved, offset>> /\ Return(h) /\ held' = held \ freed
    /\ UNCHANGED <<dest, temp, target, queue, remote, lockOf, crashes, hist>>
SlipSave(h) == SaveOr(h, {})
Save(h) == SaveOr(h, {ref[h]})

-----------------------------------------------------------------------------
(* finalizeTusUpload, and what HandleTusPatch does with its result.        *)

\* Slip: the check for a file at the target is left out.
SlipFinalize(h) ==
    /\ pc[h] = "finalize" /\ dest[up[h]] # Cloud
    /\ Goto(h, "persist")
    /\ UNCHANGED <<files, locks, up, seen, ref, fd, crashes, hist>>

\* The storage may be gone, a directory not be created, a statement fail.
Finalize(h) ==
    LET u == up[h] IN
    /\ pc[h] = "finalize"
    /\ \/ /\ Goto(h, "scrubTemp")
          /\ spoiled' = spoiled \cup {u} /\ UNCHANGED <<queue, over>>
       \/ /\ dest[u] = Cloud /\ queue[u] < MaxQueue
          /\ queue' = [queue EXCEPT ![u] = @ + 1] /\ over' = over \cup {u}
          /\ Goto(h, "cleanMeta") /\ UNCHANGED spoiled
       \/ /\ dest[u] # Cloud /\ target[dest[u]].at = NoFile
          /\ Goto(h, "persist") /\ UNCHANGED <<queue, hist>>
       \/ /\ dest[u] # Cloud /\ target[dest[u]].at # NoFile
          /\ Goto(h, "scrubTemp")
          /\ over' = over \cup {u} /\ UNCHANGED <<queue, spoiled>>
    /\ UNCHANGED <<dest, saved, offset, temp, target, remote, locks,
                   up, seen, ref, fd, crashes>>

\* persistUploadedFile: a rename, which replaces a file that is there by now.
Persist(h) ==
    LET u == up[h] IN
    /\ pc[h] = "persist"
    /\ IF temp[u] = NoFile
         THEN Goto(h, "scrubTemp") /\ UNCHANGED <<temp, target, fd, over>>
         ELSE /\ target' = [target EXCEPT ![dest[u]] = [of |-> u, at |-> temp[u]]]
              /\ temp' = [temp EXCEPT ![u] = NoFile]
              /\ fd' = [g \in Handler |->
                    CASE up[g] = u /\ fd[g] = "temp" -> "target"
                      [] fd[g] = "target" /\ dest[up[g]] = dest[u] -> "gone"
                      [] OTHER -> fd[g]]
              /\ over' = over \cup {u}
              /\ Goto(h, "cleanMeta")
    /\ UNCHANGED <<dest, saved, offset, queue, remote, locks,
                   up, seen, ref, crashes, spoiled>>

CleanMeta(h) ==
    /\ pc[h] = "cleanMeta"
    /\ IF saved[up[h]] = "none"
         THEN Return(h) /\ Unlock(h)
         ELSE Goto(h, "forget") /\ UNCHANGED <<held, up, seen, ref, fd>>
    /\ saved' = [saved EXCEPT ![up[h]] = "none"]
    /\ offset' = [offset EXCEPT ![up[h]] = 0]
    /\ UNCHANGED <<dest, temp, target, queue, remote, lockOf, crashes, hist>>

\* uploadPatchLocks.Delete, then the deferred unlock.
Forget(h) ==
    /\ pc[h] = "forget"
    /\ lockOf' = [lockOf EXCEPT ![up[h]] = None]
    /\ Return(h) /\ Unlock(h)
    /\ UNCHANGED <<files, crashes, hist>>

-----------------------------------------------------------------------------
(* The job queue, and crashes.                                             *)

\* The worker delivers the file of a job unless the cloud has one already...
SyncDeliver(u) ==
    /\ queue[u] > 0 /\ temp[u] # NoFile /\ remote[u] = NoFile
    /\ remote' = [remote EXCEPT ![u] = temp[u]]
    /\ UNCHANGED <<dest, saved, offset, temp, target, queue, locks, locals,
                   crashes, hist>>

\* ... and whether or not it could, the job ends and the file is removed.
SyncEnd(u) ==
    /\ queue[u] > 0
    /\ queue' = [queue EXCEPT ![u] = @ - 1]
    /\ RemoveTemp(u)
    /\ spoiled' = IF remote[u] = NoFile THEN spoiled \cup {u} ELSE spoiled
    /\ UNCHANGED <<dest, saved, offset, target, remote, locks, pc, up, seen, ref, crashes, over>>

Crash ==
    /\ crashes < MaxCrashes
    /\ crashes' = crashes + 1
    /\ lockOf' = [u \in Upload |-> None] /\ held' = {}
    /\ pc' = [h \in Handler |-> "idle"] /\ up' = [h \in Handler |-> None]
    /\ seen' = [h \in Handler |-> 0] /\ ref' = [h \in Handler |-> None]
    /\ fd' = [h \in Handler |-> "closed"]
    /\ UNCHANGED <<files, hist>>

PatchStep(h) ==
    \/ GetLock(h) \/ TryLock(h) \/ Open(h) \/ Copy(h) \/ Truncate(h) \/ Save(h)
    \/ Finalize(h) \/ Persist(h) \/ CleanMeta(h) \/ Forget(h)
    \/ ScrubTemp(h) \/ ScrubMeta(h) \/ EndLock(h)

Next ==
    \/ \E u \in Upload, d \in Target \cup {Cloud} : Create(u, d)
    \/ \E u \in Upload : SyncDeliver(u) \/ SyncEnd(u)
    \/ \E h \in Handler, u \in Upload : DeleteLoad(h, u) \/ PatchLoad(h, u)
    \/ \E h \in Handler : PatchStep(h)
    \/ Crash

Spec == Init /\ [][Next]_vars

-----------------------------------------------------------------------------
(* Properties.                                                             *)

File(u) == (SUBSET Positions(u)) \cup {NoFile}

TypeOK ==
    /\ over \subseteq Upload /\ spoiled \subseteq Upload
    /\ dest \in [Upload -> Target \cup {Cloud, None}]
    /\ saved \in [Upload -> {"none", "torn", "ok"}] /\ offset \in [Upload -> Nat]
    /\ temp \in [Upload -> SUBSET Int] /\ remote \in [Upload -> SUBSET Int]
    /\ target \in [Target -> [of : Upload \cup {None}, at : SUBSET Int]]
    /\ queue \in [Upload -> 0 .. MaxQueue]
    /\ \A u \in Upload : offset[u] <= Length[u] /\ temp[u] \in File(u) /\ remote[u] \in File(u)
    /\ \A t \in Target : IF target[t].of = None
                           THEN target[t].at = NoFile
                           ELSE /\ dest[target[t].of] = t
                                /\ target[t].at \in SUBSET Positions(target[t].of)
    /\ lockOf \in [Upload -> Lock \cup {None}] /\ held \subseteq Lock
    /\ pc \in [Handler -> Point] /\ up \in [Handler -> Upload \cup {None}]
    /\ seen \in [Handler -> Nat] /\ ref \in [Handler -> Lock \cup {None}]
    /\ fd \in [Handler -> {"closed", "temp", "target", "gone"}]
    /\ crashes \in 0 .. MaxCrashes

\* What a client resumes from: all bytes below the offset on record are in
\* the file, through concurrent PATCHes, cut connections, failed saves and
\* crashes.  (Not for an upload that is stored already, whose bytes have moved
\* on, and not after a termination raced with a PATCH or a failed finalization.)
Current(u) == u \notin over \cup spoiled
OffsetIsBacked ==
    \A u \in Upload : Current(u) /\ saved[u] = "ok" => 0 .. (offset[u] - 1) \subseteq temp[u]

\* A file that reaches its target, or the cloud, is the whole file, nothing
\* less and nothing more, although finalization may be entered more than once
\* for an upload (from metadata read too early, or left behind by a crash).
DeliveredIsWhole ==
    /\ \A t \in Target : target[t].of \in Upload \ spoiled => target[t].at = Whole(target[t].of)
    /\ \A u \in Upload \ spoiled : remote[u] # NoFile => remote[u] = Whole(u)

\* A lock is held only on behalf of a PATCH that is under way: no error path
\* of HandleTusPatch leaves an upload locked ("upload patch already in
\* progress") for good.
LockedIsPatched ==
    \A l \in held : \E h \in Handler : ref[h] = l /\ pc[h] \in Patching

\* Until an upload is stored one PATCH at a time works on it, although the
\* lock is looked up, taken, forgotten and released in separate steps.  (After
\* a termination, which drops the lock of a PATCH under way, there may be two.)
PatchesExclusive ==
    \A g, h \in Handler :
        g # h /\ up[g] = up[h] /\ pc[g] \in Patching /\ pc[h] \in Patching
        => ~Current(up[g])

-----------------------------------------------------------------------------
(* The inductive invariant behind the properties.                          *)

InPlace ==
    \A h \in Handler :
        /\ pc[h] # "idle" => up[h] \in Upload /\ dest[up[h]] # None /\ seen[h] <= Length[up[h]]
        /\ pc[h] = "idle" => seen[h] = 0
        /\ pc[h] \in {"finalize", "persist"} => seen[h] = Length[up[h]]
        /\ pc[h] = "persist" => dest[up[h]] \in Target
        /\ pc[h] \in {"endTemp", "endMeta", "endLock"} => up[h] \in spoiled
        /\ pc[h] \in {"cleanMeta", "forget", "scrubTemp", "scrubMeta"} => ~Current(up[h])
        /\ pc[h] \in {"scrubTemp", "scrubMeta"} => up[h] \in spoiled \/ dest[up[h]] \in Target

\* The lock of a PATCH under way is held, and by nobody else.
Locking ==
    /\ \A h \in Handler :
         /\ pc[h] \in Patching \cup {"tryLock"} => ref[h] \in Lock
         /\ pc[h] \in Patching => ref[h] \in held
    /\ \A g, h \in Handler : g # h /\ pc[g] \in Patching /\ pc[h] \in Patching
                               => ref[g] # ref[h]
    /\ \A h \in Handler : pc[h] \in Patching \cup {"tryLock"} /\ Current(up[h])
                            => ref[h] = lockOf[up[h]]

\* An open file is where the handler believes it to be.
Opened ==
    \A h \in Handler :
        /\ fd[h] # "closed" => pc[h] \in Patching
        /\ fd[h] = "temp" => temp[up[h]] # NoFile
        /\ fd[h] = "target" => dest[up[h]] \in Target /\ target[dest[up[h]]].of = up[h]
        /\ pc[h] = "copy" /\ Current(up[h]) => fd[h] = "temp"

\* Before an upload is stored its bytes are in its file and nowhere else.
Bytes ==
    /\ \A u \in Upload :
         /\ dest[u] = None => /\ saved[u] = "none" /\ temp[u] = NoFile /\ Current(u)
                              /\ queue[u] = 0 /\ remote[u] = NoFile
         /\ dest[u] # None /\ Current(u) => temp[u] # NoFile
         /\ queue[u] > 0 \/ remote[u] # NoFile => u \in over /\ dest[u] = Cloud
         /\ u \notin spoiled => temp[u] \in (SUBSET Whole(u)) \cup {NoFile}
         /\ u \notin spoiled /\ queue[u] > 0 /\ remote[u] = NoFile => temp[u] = Whole(u)
    /\ \A h \in Handler :
         pc[h] # "idle" /\ Current(up[h]) => 0 .. (seen[h] - 1) \subseteq temp[up[h]]

\* The decision to store an upload is taken once.
Once ==
    /\ \A t \in Target : target[t].of \in Upload => target[t].of \in over
    /\ \A u \in over \ spoiled :
         IF dest[u] \in Target THEN target[dest[u]].at # NoFile
                             ELSE queue[u] > 0 \/ remote[u] # NoFile
    /\ \A h \in Handler : pc[h] = "persist" /\ up[h] \notin spoiled => up[h] \notin over

IInv ==
    /\ TypeOK /\ InPlace /\ Locking /\ LockedIsPatched /\ Opened
    /\ Bytes /\ OffsetIsBacked /\ Once /\ DeliveredIsWhole

\* Through interleaved requests, cut connections, failures and crashes every
\* upload is stored once and whole, or refused, and no byte that was received is
\* lost before (uploads.go): seen without its means, this is Delivery.
Received(u) == IF dest[u] # None /\ Current(u) THEN temp[u] ELSE {}
Promise == INSTANCE Delivery WITH bytes <- [u \in Upload |-> Received(u)],
                                  astray <- spoiled
ImplementsDelivery == Promise!DSpec
=============================================================================
