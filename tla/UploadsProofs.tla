---------------------------- MODULE UploadsProofs ----------------------------
(***************************************************************************)
(* Theorems about Uploads, for any set of uploads, lengths and targets,    *)
(* any number of concurrent requests and any number of crashes.  IInv of   *)
(* Uploads is shown inductive: first the part about the locks, which most  *)
(* steps disturb in one of two ways, then one lemma per action.            *)
(*                                                                         *)
(* Then theorems about Cloud, where the storages are linked that the       *)
(* uploads are delivered to, for any set of storages, sessions and keys,   *)
(* any number of requests and of faults.  CloudInv is shown inductive: one *)
(* lemma, Moves, says what a step of one actor has to see to, and most     *)
(* actions are instances of it.                                            *)
(***************************************************************************)
EXTENDS Uploads, Cloud, TLAPS

USE LengthAssumption, TargetAssumption, NoneAssumption, BoundsAssumption
USE DEF Patching, Point, Goto, files, locks, locals, hist

-----------------------------------------------------------------------------
(* Facts about files as sets of positions.                                 *)

LEMMA FileFacts ==
    ASSUME NEW u \in Upload
    PROVE  /\ Whole(u) \subseteq Positions(u) /\ Positions(u) \subseteq Int
           /\ NoFile \in SUBSET Int /\ NoFile \notin SUBSET Positions(u)
           /\ {} # NoFile /\ Whole(u) # NoFile
           /\ NoFile \in File(u) /\ {} \in File(u)
           /\ \A f \in File(u) : f # NoFile => f \in SUBSET Positions(u)
<1>1. Whole(u) \subseteq Positions(u) /\ Positions(u) \subseteq Int
  BY DEF Whole, Positions
<1>2. NoFile \in SUBSET Int /\ NoFile \notin SUBSET Positions(u) /\ NoFile \notin SUBSET Whole(u)
  BY DEF Whole, Positions, NoFile
<1>3. {} # NoFile
  <2>1. -1 \in NoFile
    BY DEF NoFile
  <2>2. -1 \notin {}
    OBVIOUS
  <2> QED  BY <2>1, <2>2, Zenon
<1> QED  BY <1>1, <1>2, <1>3 DEF File

\* A chunk written at the end of a backed prefix makes a longer prefix.
LEMMA WriteExtends ==
    ASSUME NEW T \in SUBSET Int, NEW m \in Nat, NEW e \in Nat,
           0 .. (m - 1) \subseteq T, m <= e
    PROVE  0 .. (e - 1) \subseteq T \cup (m .. (e - 1))
  OBVIOUS

\* A file with every position, and no other, is the whole file.
LEMMA PrefixIsWhole ==
    ASSUME NEW u \in Upload, NEW T \in SUBSET Whole(u),
           0 .. (Length[u] - 1) \subseteq T
    PROVE  T = Whole(u)
  BY DEF Whole

-----------------------------------------------------------------------------
(* The locks.                                                              *)

LockInv == Locking /\ LockedIsPatched

\* A handler goes on, with the lock it has or without one.
LEMMA LockStay ==
    ASSUME TypeOK, LockInv, NEW h \in Handler, NEW p \in Point,
           \/ pc[h] \in Patching /\ p \in Patching /\ up'[h] = up[h]
           \/ pc[h] \notin Patching \cup {"tryLock"} /\ p \notin Patching \cup {"tryLock"},
           pc' = [pc EXCEPT ![h] = p],
           \A g \in Handler \ {h} : up'[g] = up[g],
           UNCHANGED <<ref, locks>>, over \subseteq over', spoiled \subseteq spoiled'
    PROVE  LockInv'
<1>1. \A g \in Handler : /\ pc'[g] \in Patching <=> pc[g] \in Patching
                         /\ pc'[g] = "tryLock" <=> pc[g] = "tryLock"
  BY DEF TypeOK
<1>2. Locking'
  BY <1>1 DEF LockInv, Locking, TypeOK, Current
<1>3. LockedIsPatched'
  BY <1>1 DEF LockInv, LockedIsPatched
<1> QED  BY <1>2, <1>3 DEF LockInv

\* A handler returns, and releases its lock if it has it.
LEMMA LockLeave ==
    ASSUME TypeOK, InPlace, LockInv, NEW h \in Handler, Return(h),
           \/ pc[h] \in Patching /\ Unlock(h)
           \/ pc[h] \notin Patching /\ UNCHANGED held,
           \/ UNCHANGED lockOf
           \/ lockOf' = [lockOf EXCEPT ![up[h]] = None] /\ ~Current(up[h]),
           over \subseteq over', spoiled \subseteq spoiled'
    PROVE  LockInv'
<1> USE DEF Return, Unlock
<1>1. \A g \in Handler \ {h} : /\ pc'[g] = pc[g] /\ ref'[g] = ref[g] /\ up'[g] = up[g]
  BY DEF TypeOK
<1>2. pc'[h] = "idle"
  BY DEF TypeOK
<1>3. \A g \in Handler : pc[g] \in Patching /\ g # h => ref[g] \in held'
  BY DEF LockInv, Locking, TypeOK
<1>4. Locking'
  <2>1. \A g \in Handler : /\ pc'[g] \in Patching \cup {"tryLock"} => ref'[g] \in Lock
                           /\ pc'[g] \in Patching => ref'[g] \in held'
    BY <1>1, <1>2, <1>3 DEF LockInv, Locking
  <2>2. \A f, g \in Handler : f # g /\ pc'[f] \in Patching /\ pc'[g] \in Patching
                                => ref'[f] # ref'[g]
    BY <1>1, <1>2 DEF LockInv, Locking
  <2>3. \A g \in Handler : pc'[g] \in Patching \cup {"tryLock"} 
                             /\ up'[g] \notin over' \cup spoiled'
                             => ref'[g] = lockOf'[up'[g]]
    BY <1>1, <1>2 DEF LockInv, Locking, Current, TypeOK, InPlace
  <2> QED  BY <2>1, <2>2, <2>3 DEF Locking, Current
<1>5. LockedIsPatched'
  <2> SUFFICES ASSUME NEW l \in held'
               PROVE  \E g \in Handler : ref'[g] = l /\ pc'[g] \in Patching
    BY DEF LockedIsPatched
  <2>1. PICK g \in Handler : ref[g] = l /\ pc[g] \in Patching
    BY DEF LockInv, LockedIsPatched
  <2>2. g # h
    BY <2>1
  <2> QED  BY <1>1, <2>1, <2>2
<1> QED  BY <1>4, <1>5 DEF LockInv

-----------------------------------------------------------------------------
(* Every action preserves the invariant.                                   *)

LEMMA PatchLoadIInv ==
    ASSUME IInv, NEW h \in Handler, NEW u \in Upload, PatchLoad(h, u)
    PROVE  IInv'
<1> USE DEF PatchLoad
<1>1. TypeOK'
  BY DEF IInv, TypeOK
<1>2. InPlace'
  BY DEF IInv, TypeOK, InPlace, Bytes, Current
<1>3. Opened'
  BY DEF IInv, Opened, Current
<1>4. Bytes'
  BY DEF IInv, TypeOK, Bytes, OffsetIsBacked, Current
<1>5. OffsetIsBacked'
  BY DEF IInv, OffsetIsBacked, Current
<1>6. Once'
  BY DEF IInv, Once
<1>7. DeliveredIsWhole'
  BY DEF IInv, DeliveredIsWhole
<1>8. LockInv'
  BY LockStay DEF IInv, LockInv, TypeOK
<1> QED  BY <1>1, <1>2, <1>3, <1>4, <1>5, <1>6, <1>7, <1>8 DEF IInv, LockInv

LEMMA DeleteLoadIInv ==
    ASSUME IInv, NEW h \in Handler, NEW u \in Upload, DeleteLoad(h, u)
    PROVE  IInv'
<1> USE DEF DeleteLoad
<1>1. TypeOK'
  BY DEF IInv, TypeOK
<1>2. InPlace'
  <2>1. dest[u] # None
    BY DEF IInv, Bytes
  <2>2. \A g \in Handler \ {h} : pc'[g] = pc[g] /\ up'[g] = up[g]
    BY DEF IInv, TypeOK
  <2>3. pc'[h] = "endTemp" /\ up'[h] = u /\ u \in spoiled' /\ seen'[h] <= Length[u]
    BY DEF IInv, TypeOK, InPlace
  <2> QED  BY <2>1, <2>2, <2>3 DEF IInv, InPlace, Current
<1>3. Opened'
  BY DEF IInv, Opened, Current
<1>4. Bytes'
  BY DEF IInv, TypeOK, Bytes, Current
<1>5. OffsetIsBacked'
  BY DEF IInv, OffsetIsBacked, Current
<1>6. Once'
  BY DEF IInv, Once
<1>7. DeliveredIsWhole'
  BY DEF IInv, DeliveredIsWhole
<1>8. LockInv'
  BY LockStay DEF IInv, LockInv, TypeOK
<1> QED  BY <1>1, <1>2, <1>3, <1>4, <1>5, <1>6, <1>7, <1>8 DEF IInv, LockInv

LEMMA OpenIInv ==
    ASSUME IInv, NEW h \in Handler, Open(h)
    PROVE  IInv'
<1> USE DEF Open
<1>1. TypeOK'
  BY FileFacts DEF IInv, TypeOK, InPlace
<1>2. InPlace'
  BY DEF IInv, TypeOK, InPlace, Current
<1>3. Opened'
  BY FileFacts DEF IInv, TypeOK, InPlace, Opened, Current
<1>4. Bytes'
  BY FileFacts DEF IInv, InPlace, Bytes, Current
<1>5. OffsetIsBacked'
  BY DEF IInv, InPlace, Bytes, OffsetIsBacked, Current
<1>6. Once'
  BY DEF IInv, Once
<1>7. DeliveredIsWhole'
  BY DEF IInv, DeliveredIsWhole
<1>8. LockInv'
  BY LockStay DEF IInv, LockInv, TypeOK
<1> QED  BY <1>1, <1>2, <1>3, <1>4, <1>5, <1>6, <1>7, <1>8 DEF IInv, LockInv

LEMMA TruncateIInv ==
    ASSUME IInv, NEW h \in Handler, Truncate(h)
    PROVE  IInv'
<1> USE DEF Truncate
<1>1. TypeOK'
  BY DEF IInv, TypeOK, InPlace
<1>2. InPlace'
  BY DEF IInv, TypeOK, InPlace, Current
<1>3. Opened'
  BY DEF IInv, Opened, Current
<1>4. Bytes'
  BY DEF IInv, InPlace, Bytes, Current
<1>5. OffsetIsBacked'
  BY DEF IInv, OffsetIsBacked, Current
<1>6. Once'
  BY DEF IInv, Once
<1>7. DeliveredIsWhole'
  BY DEF IInv, DeliveredIsWhole
<1>8. LockInv'
  BY LockStay DEF IInv, LockInv, TypeOK
<1> QED  BY <1>1, <1>2, <1>3, <1>4, <1>5, <1>6, <1>7, <1>8 DEF IInv, LockInv

LEMMA ForgetIInv ==
    ASSUME IInv, NEW h \in Handler, Forget(h)
    PROVE  IInv'
<1> USE DEF Forget, Return, Unlock
<1>1. TypeOK'
  BY DEF IInv, TypeOK
<1>2. InPlace'
  BY DEF IInv, TypeOK, InPlace, Current
<1>3. Opened'
  BY DEF IInv, TypeOK, Opened, Current
<1>4. Bytes'
  BY DEF IInv, TypeOK, Bytes, Current
<1>5. OffsetIsBacked'
  BY DEF IInv, OffsetIsBacked, Current
<1>6. Once'
  BY DEF IInv, Once
<1>7. DeliveredIsWhole'
  BY DEF IInv, DeliveredIsWhole
<1>8. LockInv'
  BY LockLeave DEF IInv, LockInv, TypeOK, InPlace, Current
<1> QED  BY <1>1, <1>2, <1>3, <1>4, <1>5, <1>6, <1>7, <1>8 DEF IInv, LockInv

LEMMA EndLockIInv ==
    ASSUME IInv, NEW h \in Handler, EndLock(h)
    PROVE  IInv'
<1> USE DEF EndLock, Return
<1>1. TypeOK'
  BY DEF IInv, TypeOK
<1>2. InPlace'
  BY DEF IInv, TypeOK, InPlace, Current
<1>3. Opened'
  BY DEF IInv, Opened, Current
<1>4. Bytes'
  BY DEF IInv, TypeOK, Bytes, Current
<1>5. OffsetIsBacked'
  BY DEF IInv, OffsetIsBacked, Current
<1>6. Once'
  BY DEF IInv, Once
<1>7. DeliveredIsWhole'
  BY DEF IInv, DeliveredIsWhole
<1>8. LockInv'
  BY LockLeave DEF IInv, LockInv, TypeOK, InPlace, Current
<1> QED  BY <1>1, <1>2, <1>3, <1>4, <1>5, <1>6, <1>7, <1>8 DEF IInv, LockInv

LEMMA GetLockIInv ==
    ASSUME IInv, NEW h \in Handler, GetLock(h)
    PROVE  IInv'
<1> USE DEF GetLock, InUse
<1>1. TypeOK'
  <2>1. pc' \in [Handler -> Point]
    BY DEF IInv, TypeOK
  <2>2. ref' \in [Handler -> Lock \cup {None}] /\ lockOf' \in [Upload -> Lock \cup {None}]
    BY DEF IInv, TypeOK, InPlace
  <2> QED  BY <2>1, <2>2 DEF IInv, TypeOK, File
<1>2. InPlace'
  BY DEF IInv, TypeOK, InPlace, Current
<1>3. Opened'
  BY DEF IInv, Opened, Current
<1>4. Bytes'
  BY DEF IInv, Bytes, Current
<1>5. OffsetIsBacked'
  BY DEF IInv, OffsetIsBacked, Current
<1>6. Once'
  BY DEF IInv, Once
<1>7. DeliveredIsWhole'
  BY DEF IInv, DeliveredIsWhole
<1>8. LockInv'
  <2>0. up[h] \in Upload
    BY DEF IInv, InPlace
  <2>1. \A g \in Handler \ {h} : pc'[g] = pc[g] /\ ref'[g] = ref[g]
    BY DEF IInv, TypeOK
  <2>2. pc'[h] = "tryLock" /\ ref'[h] \in Lock /\ ref'[h] = lockOf'[up[h]]
    BY <2>0 DEF IInv, TypeOK
  <2>3. \A g \in Handler : pc[g] \in Patching \cup {"tryLock"} /\ Current(up[g])
                            => ref[g] = lockOf'[up[g]]
    BY <2>0 DEF IInv, TypeOK, InPlace, Locking
  <2>4. Locking'
    BY <2>1, <2>2, <2>3 DEF IInv, Locking, Current
  <2>5. LockedIsPatched'
    BY <2>1 DEF IInv, LockedIsPatched
  <2> QED  BY <2>4, <2>5 DEF LockInv
<1> QED  BY <1>1, <1>2, <1>3, <1>4, <1>5, <1>6, <1>7, <1>8 DEF IInv, LockInv


LEMMA TryLockIInv ==
    ASSUME IInv, NEW h \in Handler, TryLock(h)
    PROVE  IInv'
<1> USE DEF TryLock, Return
<1>0. up[h] \in Upload
  BY DEF IInv, InPlace
<1>1. CASE pc'[h] = "open"
  <2>0. /\ ref[h] \notin held /\ held' = held \cup {ref[h]} /\ pc' = [pc EXCEPT ![h] = "open"]
       /\ pc[h] = "tryLock" /\ UNCHANGED <<files, lockOf, up, seen, ref, fd, crashes, hist>>
    BY <1>0, <1>1 DEF IInv, TypeOK
  <2> USE <1>0, <2>0
  <2>1. TypeOK'
    BY DEF IInv, TypeOK, InPlace, Locking
  <2>2. InPlace'
    BY DEF IInv, TypeOK, InPlace, Current
  <2>3. Opened'
    BY DEF IInv, Opened, Current
  <2>4. Bytes'
    BY DEF IInv, Bytes, Current
  <2>5. OffsetIsBacked'
    BY DEF IInv, OffsetIsBacked, Current
  <2>6. Once'
    BY DEF IInv, Once
  <2>7. DeliveredIsWhole'
    BY DEF IInv, DeliveredIsWhole
  <2>8. LockInv'
    <3>1. \A g \in Handler \ {h} : pc'[g] = pc[g]
      BY DEF IInv, TypeOK
    <3>2. pc'[h] = "open"
      BY DEF IInv, TypeOK
    <3>3. Locking'
      BY <3>1, <3>2 DEF IInv, Locking, Current
    <3>4. LockedIsPatched'
      BY <3>1, <3>2 DEF IInv, LockedIsPatched
    <3> QED  BY <3>3, <3>4 DEF LockInv
  <2> QED  BY <2>1, <2>2, <2>3, <2>4, <2>5, <2>6, <2>7, <2>8 DEF IInv, LockInv
<1>2. CASE pc'[h] # "open"
  <2>0. pc[h] = "tryLock" /\ Return(h) /\ UNCHANGED <<files, locks, crashes, hist>>
    BY <1>0, <1>2 DEF IInv, TypeOK
  <2> USE <1>0, <2>0
  <2>1. TypeOK'
    BY DEF IInv, TypeOK
  <2>2. InPlace'
    BY DEF IInv, TypeOK, InPlace, Current
  <2>3. Opened'
    BY DEF IInv, Opened, Current
  <2>4. Bytes'
    BY DEF IInv, TypeOK, Bytes, Current
  <2>5. OffsetIsBacked'
    BY DEF IInv, OffsetIsBacked, Current
  <2>6. Once'
    BY DEF IInv, Once
  <2>7. DeliveredIsWhole'
    BY DEF IInv, DeliveredIsWhole
  <2>8. LockInv'
    BY LockLeave DEF IInv, LockInv, TypeOK, InPlace, Current
  <2> QED  BY <2>1, <2>2, <2>3, <2>4, <2>5, <2>6, <2>7, <2>8 DEF IInv, LockInv
<1> QED  BY <1>0, <1>1, <1>2 DEF IInv, TypeOK

LEMMA SaveIInv ==
    ASSUME IInv, NEW h \in Handler, Save(h)
    PROVE  IInv'
<1> USE DEF Return, Unlock
<1>0. up[h] \in Upload
  BY DEF IInv, InPlace, Save, SaveOr
<1>1. CASE pc'[h] = "finalize"
  <2>0. /\ pc[h] = "save" /\ seen[h] = Length[up[h]] /\ pc' = [pc EXCEPT ![h] = "finalize"]
       /\ saved' = [saved EXCEPT ![up[h]] = "ok"] /\ offset' = [offset EXCEPT ![up[h]] = seen[h]]
       /\ UNCHANGED <<dest, temp, target, queue, remote, locks, up, seen, ref, fd, crashes, hist>>
    BY <1>0, <1>1 DEF IInv, TypeOK, Save, SaveOr
  <2> USE <1>0, <2>0
  <2>1. TypeOK'
    BY DEF IInv, TypeOK
  <2>2. InPlace'
    BY DEF IInv, TypeOK, InPlace, Current
  <2>3. Opened'
    BY DEF IInv, Opened, Current
  <2>4. Bytes'
    BY DEF IInv, InPlace, Bytes, Current
  <2>5. OffsetIsBacked'
    BY DEF IInv, TypeOK, InPlace, Bytes, OffsetIsBacked, Current
  <2>6. Once'
    BY DEF IInv, Once
  <2>7. DeliveredIsWhole'
    BY DEF IInv, DeliveredIsWhole
  <2>8. LockInv'
    BY LockStay DEF IInv, LockInv, TypeOK
  <2> QED  BY <2>1, <2>2, <2>3, <2>4, <2>5, <2>6, <2>7, <2>8 DEF IInv, LockInv
<1>2. CASE pc'[h] # "finalize"
  <2>0. /\ pc[h] = "save" /\ Return(h) /\ Unlock(h)
       /\ \/ /\ saved' = [saved EXCEPT ![up[h]] = "ok"] /\ offset' = [offset EXCEPT ![up[h]] = seen[h]]
          \/ UNCHANGED <<saved, offset>>
       /\ UNCHANGED <<dest, temp, target, queue, remote, lockOf, crashes, hist>>
    BY <1>0, <1>2 DEF IInv, TypeOK, Save, SaveOr
  <2> USE <1>0, <2>0
  <2>1. TypeOK'
    <3>1. /\ pc' \in [Handler -> Point] /\ up' \in [Handler -> Upload \cup {None}]
      BY DEF IInv, TypeOK, Point
    <3>2. /\ seen' \in [Handler -> Nat] /\ ref' \in [Handler -> Lock \cup {None}]
      BY DEF IInv, TypeOK
    <3>3. /\ fd' \in [Handler -> {"closed", "temp", "target", "gone"}] /\ held' \subseteq Lock
      BY DEF IInv, TypeOK
    <3>4. saved' \in [Upload -> {"none", "torn", "ok"}]
      BY DEF IInv, TypeOK
    <3>5. seen[h] \in Nat /\ seen[h] <= Length[up[h]]
      BY DEF IInv, TypeOK, InPlace
    <3>6. offset' \in [Upload -> Nat] /\ \A u \in Upload : offset'[u] <= Length[u]
      BY <3>5 DEF IInv, TypeOK
    <3> QED  BY <3>1, <3>2, <3>3, <3>4, <3>6 DEF IInv, TypeOK, File
  <2>2. InPlace'
    BY DEF IInv, TypeOK, InPlace, Current
  <2>3. Opened'
    BY DEF IInv, TypeOK, Opened, Current
  <2>4. Bytes'
    BY DEF IInv, TypeOK, InPlace, Bytes, Current
  <2>5. OffsetIsBacked'
    BY DEF IInv, TypeOK, InPlace, Bytes, OffsetIsBacked, Current
  <2>6. Once'
    BY DEF IInv, Once
  <2>7. DeliveredIsWhole'
    BY DEF IInv, DeliveredIsWhole
  <2>8. LockInv'
    BY LockLeave DEF IInv, LockInv, TypeOK, InPlace, Current
  <2> QED  BY <2>1, <2>2, <2>3, <2>4, <2>5, <2>6, <2>7, <2>8 DEF IInv, LockInv
<1> QED  BY <1>0, <1>1, <1>2 DEF IInv, TypeOK

LEMMA CleanMetaIInv ==
    ASSUME IInv, NEW h \in Handler, CleanMeta(h)
    PROVE  IInv'
<1> USE DEF CleanMeta, Return, Unlock
<1>0. up[h] \in Upload
  BY DEF IInv, InPlace
<1>1. CASE pc'[h] = "forget"
  <2>0. /\ pc[h] = "cleanMeta" /\ pc' = [pc EXCEPT ![h] = "forget"]
       /\ saved' = [saved EXCEPT ![up[h]] = "none"] /\ offset' = [offset EXCEPT ![up[h]] = 0]
       /\ UNCHANGED <<dest, temp, target, queue, remote, locks, up, seen, ref, fd, crashes, hist>>
    BY <1>0, <1>1 DEF IInv, TypeOK
  <2> USE <1>0, <2>0
  <2>1. TypeOK'
    BY DEF IInv, TypeOK
  <2>2. InPlace'
    BY DEF IInv, TypeOK, InPlace, Current
  <2>3. Opened'
    BY DEF IInv, Opened, Current
  <2>4. Bytes'
    BY DEF IInv, Bytes, Current
  <2>5. OffsetIsBacked'
    BY DEF IInv, OffsetIsBacked, Current
  <2>6. Once'
    BY DEF IInv, Once
  <2>7. DeliveredIsWhole'
    BY DEF IInv, DeliveredIsWhole
  <2>8. LockInv'
    BY LockStay DEF IInv, LockInv, TypeOK
  <2> QED  BY <2>1, <2>2, <2>3, <2>4, <2>5, <2>6, <2>7, <2>8 DEF IInv, LockInv
<1>2. CASE pc'[h] # "forget"
  <2>0. /\ pc[h] = "cleanMeta" /\ Return(h) /\ Unlock(h)
       /\ saved' = [saved EXCEPT ![up[h]] = "none"] /\ offset' = [offset EXCEPT ![up[h]] = 0]
       /\ UNCHANGED <<dest, temp, target, queue, remote, lockOf, crashes, hist>>
    BY <1>0, <1>2 DEF IInv, TypeOK
  <2> USE <1>0, <2>0
  <2>1. TypeOK'
    BY DEF IInv, TypeOK
  <2>2. InPlace'
    BY DEF IInv, TypeOK, InPlace, Current
  <2>3. Opened'
    BY DEF IInv, TypeOK, Opened, Current
  <2>4. Bytes'
    BY DEF IInv, TypeOK, Bytes, Current
  <2>5. OffsetIsBacked'
    BY DEF IInv, OffsetIsBacked, Current
  <2>6. Once'
    BY DEF IInv, Once
  <2>7. DeliveredIsWhole'
    BY DEF IInv, DeliveredIsWhole
  <2>8. LockInv'
    BY LockLeave DEF IInv, LockInv, TypeOK, InPlace, Current
  <2> QED  BY <2>1, <2>2, <2>3, <2>4, <2>5, <2>6, <2>7, <2>8 DEF IInv, LockInv
<1> QED  BY <1>0, <1>1, <1>2 DEF IInv, TypeOK

LEMMA ScrubMetaIInv ==
    ASSUME IInv, NEW h \in Handler, ScrubMeta(h)
    PROVE  IInv'
<1> USE DEF ScrubMeta, Return, Unlock
<1>0. up[h] \in Upload
  BY DEF IInv, InPlace
<1>1. CASE pc[h] = "endMeta"
  <2>0. /\ pc' = [pc EXCEPT ![h] = "endLock"]
       /\ saved' = [saved EXCEPT ![up[h]] = "none"] /\ offset' = [offset EXCEPT ![up[h]] = 0]
       /\ UNCHANGED <<dest, temp, target, queue, remote, locks, up, seen, ref, fd, crashes, hist>>
    BY <1>0, <1>1 DEF IInv, TypeOK
  <2> USE <1>0, <2>0
  <2>1. TypeOK'
    BY DEF IInv, TypeOK
  <2>2. InPlace'
    BY DEF IInv, TypeOK, InPlace, Current
  <2>3. Opened'
    BY DEF IInv, Opened, Current
  <2>4. Bytes'
    BY DEF IInv, Bytes, Current
  <2>5. OffsetIsBacked'
    BY DEF IInv, OffsetIsBacked, Current
  <2>6. Once'
    BY DEF IInv, Once
  <2>7. DeliveredIsWhole'
    BY DEF IInv, DeliveredIsWhole
  <2>8. LockInv'
    BY <1>1, LockStay DEF IInv, LockInv, TypeOK
  <2> QED  BY <2>1, <2>2, <2>3, <2>4, <2>5, <2>6, <2>7, <2>8 DEF IInv, LockInv
<1>2. CASE pc[h] # "endMeta"
  <2>0. /\ pc[h] = "scrubMeta" /\ Return(h) /\ Unlock(h)
       /\ saved' = [saved EXCEPT ![up[h]] = "none"] /\ offset' = [offset EXCEPT ![up[h]] = 0]
       /\ UNCHANGED <<dest, temp, target, queue, remote, lockOf, crashes, hist>>
    BY <1>0, <1>2 DEF IInv, TypeOK
  <2> USE <1>0, <2>0
  <2>1. TypeOK'
    BY DEF IInv, TypeOK
  <2>2. InPlace'
    BY DEF IInv, TypeOK, InPlace, Current
  <2>3. Opened'
    BY DEF IInv, TypeOK, Opened, Current
  <2>4. Bytes'
    BY DEF IInv, TypeOK, Bytes, Current
  <2>5. OffsetIsBacked'
    BY DEF IInv, OffsetIsBacked, Current
  <2>6. Once'
    BY DEF IInv, Once
  <2>7. DeliveredIsWhole'
    BY DEF IInv, DeliveredIsWhole
  <2>8. LockInv'
    BY LockLeave DEF IInv, LockInv, TypeOK, InPlace, Current
  <2> QED  BY <2>1, <2>2, <2>3, <2>4, <2>5, <2>6, <2>7, <2>8 DEF IInv, LockInv
<1> QED  BY <1>0, <1>1, <1>2 DEF IInv, TypeOK

LEMMA FinalizeIInv ==
    ASSUME IInv, NEW h \in Handler, Finalize(h)
    PROVE  IInv'
<1> USE DEF Finalize
<1>0. up[h] \in Upload
  BY DEF IInv, InPlace
<1>1. CASE pc'[h] = "cleanMeta"
  <2>0. /\ pc[h] = "finalize" /\ pc' = [pc EXCEPT ![h] = "cleanMeta"] /\ dest[up[h]] = Cloud
       /\ queue[up[h]] < MaxQueue /\ queue' = [queue EXCEPT ![up[h]] = @ + 1]
       /\ over' = over \cup {up[h]}
       /\ UNCHANGED <<dest, saved, offset, temp, target, remote, locks, up, seen, ref, fd, crashes, spoiled>>
    BY <1>0, <1>1 DEF IInv, TypeOK
  <2> USE <1>0, <2>0
  <2>1. TypeOK'
    BY DEF IInv, TypeOK
  <2>2. InPlace'
    BY DEF IInv, TypeOK, InPlace, Current
  <2>3. Opened'
    BY DEF IInv, Opened, Current
  <2>4. Bytes'
    <3> DEFINE u == up[h]
    <3>1. u \notin spoiled /\ remote[u] = NoFile => temp[u] = Whole(u)
      <4> SUFFICES ASSUME u \notin spoiled, remote[u] = NoFile  PROVE temp[u] = Whole(u)
        OBVIOUS
      <4>1. CASE u \in over
        BY <4>1, queue[u] > 0 DEF IInv, TypeOK, Once, Bytes
      <4>2. CASE u \notin over
        <5>1. Current(u) /\ seen[h] = Length[u] /\ dest[u] # None
          BY <4>2 DEF IInv, InPlace, Current
        <5>2. temp[u] \in SUBSET Whole(u)
          BY <5>1 DEF IInv, Bytes, Current
        <5>3. 0 .. (seen[h] - 1) \subseteq temp[u]
          BY <5>1 DEF IInv, Bytes
        <5> QED  BY <5>1, <5>2, <5>3, PrefixIsWhole
      <4> QED  BY <4>1, <4>2
    <3>2. \A v \in Upload \ {u} : queue'[v] = queue[v]
      BY DEF IInv, TypeOK
    <3>3. dest[u] = Cloud /\ dest[u] # None /\ u \in over' /\ ~Current(u)'
      BY DEF Current
    <3>4. \A g \in Handler : pc'[g] # "idle" /\ Current(up[g])' => pc[g] # "idle" /\ Current(up[g])
      BY DEF IInv, TypeOK, Current
    <3> QED  BY <3>1, <3>2, <3>3, <3>4 DEF IInv, Bytes, Current
  <2>5. OffsetIsBacked'
    BY DEF IInv, OffsetIsBacked, Current
  <2>6. Once'
    BY DEF IInv, TypeOK, InPlace, Once
  <2>7. DeliveredIsWhole'
    BY DEF IInv, DeliveredIsWhole
  <2>8. LockInv'
    BY LockStay DEF IInv, LockInv, TypeOK
  <2> QED  BY <2>1, <2>2, <2>3, <2>4, <2>5, <2>6, <2>7, <2>8 DEF IInv, LockInv
<1>2. CASE pc'[h] = "persist"
  <2>0. /\ pc[h] = "finalize" /\ pc' = [pc EXCEPT ![h] = "persist"]
       /\ dest[up[h]] # Cloud /\ target[dest[up[h]]].at = NoFile
       /\ UNCHANGED <<dest, saved, offset, temp, target, remote, locks, up, seen, ref, fd, crashes, queue, hist>>
    BY <1>0, <1>2 DEF IInv, TypeOK
  <2> USE <1>0, <2>0
  <2>1. TypeOK'
    BY DEF IInv, TypeOK
  <2>2. InPlace'
    BY DEF IInv, TypeOK, InPlace, Current
  <2>3. Opened'
    BY DEF IInv, Opened, Current
  <2>4. Bytes'
    BY DEF IInv, Bytes, Current
  <2>5. OffsetIsBacked'
    BY DEF IInv, OffsetIsBacked, Current
  <2>6. Once'
    BY DEF IInv, TypeOK, InPlace, Once
  <2>7. DeliveredIsWhole'
    BY DEF IInv, DeliveredIsWhole
  <2>8. LockInv'
    BY LockStay DEF IInv, LockInv, TypeOK
  <2> QED  BY <2>1, <2>2, <2>3, <2>4, <2>5, <2>6, <2>7, <2>8 DEF IInv, LockInv
<1>3. CASE pc'[h] = "scrubTemp"
  <2>0. /\ pc[h] = "finalize" /\ pc' = [pc EXCEPT ![h] = "scrubTemp"]
       /\ \/ spoiled' = spoiled \cup {up[h]} /\ UNCHANGED over
          \/ /\ dest[up[h]] # Cloud /\ target[dest[up[h]]].at # NoFile
             /\ over' = over \cup {up[h]} /\ UNCHANGED spoiled
       /\ UNCHANGED <<dest, saved, offset, temp, target, remote, locks, up, seen, ref, fd, crashes, queue>>
    BY <1>0, <1>3 DEF IInv, TypeOK
  <2> USE <1>0, <2>0
  <2>1. TypeOK'
    BY DEF IInv, TypeOK
  <2>2. InPlace'
    BY DEF IInv, TypeOK, InPlace, Current
  <2>3. Opened'
    BY DEF IInv, Opened, Current
  <2>4. Bytes'
    BY DEF IInv, InPlace, Bytes, Current
  <2>5. OffsetIsBacked'
    BY DEF IInv, OffsetIsBacked, Current
  <2>6. Once'
    <3>1. \A g \in Handler \ {h} : up[g] = up[h] /\ Current(up[h]) => pc[g] # "persist"
      BY DEF IInv, Locking
    <3> QED  BY <3>1 DEF IInv, TypeOK, InPlace, Once, Current
  <2>7. DeliveredIsWhole'
    BY DEF IInv, DeliveredIsWhole
  <2>8. LockInv'
    BY LockStay DEF IInv, LockInv, TypeOK
  <2> QED  BY <2>1, <2>2, <2>3, <2>4, <2>5, <2>6, <2>7, <2>8 DEF IInv, LockInv
<1> QED  BY <1>0, <1>1, <1>2, <1>3 DEF IInv, TypeOK

LEMMA PersistIInv ==
    ASSUME IInv, NEW h \in Handler, Persist(h)
    PROVE  IInv'
<1>0. up[h] \in Upload
  BY DEF IInv, InPlace, Persist
<1>3. pc[h] = "persist" /\ dest[up[h]] # None /\ seen[h] = Length[up[h]]
  BY DEF IInv, InPlace, Persist
<1>4. Current(up[h]) => 0 .. (seen[h] - 1) \subseteq temp[up[h]]
  BY <1>3 DEF IInv, Bytes
<1>1. CASE temp[up[h]] = NoFile
  <2>0. /\ pc[h] = "persist" /\ pc' = [pc EXCEPT ![h] = "scrubTemp"]
       /\ UNCHANGED <<files, locks, up, seen, ref, fd, crashes, hist>>
    BY <1>0, <1>1 DEF IInv, TypeOK, Persist
  <2> USE <1>0, <2>0
  <2>1. TypeOK'
    BY DEF IInv, TypeOK
  <2>2. InPlace'
    BY <1>1, <1>3 DEF IInv, TypeOK, InPlace, Bytes, Current
  <2>3. Opened'
    BY DEF IInv, Opened, Current
  <2>4. Bytes'
    BY DEF IInv, Bytes, Current
  <2>5. OffsetIsBacked'
    BY DEF IInv, OffsetIsBacked, Current
  <2>6. Once'
    BY DEF IInv, Once
  <2>7. DeliveredIsWhole'
    BY DEF IInv, DeliveredIsWhole
  <2>8. LockInv'
    BY LockStay DEF IInv, LockInv, TypeOK
  <2> QED  BY <2>1, <2>2, <2>3, <2>4, <2>5, <2>6, <2>7, <2>8 DEF IInv, LockInv
<1>2. CASE temp[up[h]] # NoFile
  <2>0. /\ pc[h] = "persist" /\ pc' = [pc EXCEPT ![h] = "cleanMeta"]
       /\ target' = [target EXCEPT ![dest[up[h]]] = [of |-> up[h], at |-> temp[up[h]]]]
       /\ temp' = [temp EXCEPT ![up[h]] = NoFile]
       /\ fd' = [g \in Handler |->
                    CASE up[g] = up[h] /\ fd[g] = "temp" -> "target"
                      [] fd[g] = "target" /\ dest[up[g]] = dest[up[h]] -> "gone"
                      [] OTHER -> fd[g]]
       /\ over' = over \cup {up[h]}
       /\ UNCHANGED <<dest, saved, offset, queue, remote, locks, up, seen, ref, crashes, spoiled>>
    BY <1>0, <1>2 DEF IInv, TypeOK, Persist
  <2> USE <1>0, <2>0
  <2>1. TypeOK'
    <3>1. /\ pc' \in [Handler -> Point] /\ over' \subseteq Upload
          /\ fd' \in [Handler -> {"closed", "temp", "target", "gone"}]
      BY DEF IInv, TypeOK
    <3>2. temp' \in [Upload -> SUBSET Int] /\ \A u \in Upload : temp'[u] \in File(u)
      BY FileFacts DEF IInv, TypeOK
    <3>3. temp[up[h]] \in SUBSET Positions(up[h]) /\ temp[up[h]] \in SUBSET Int
      BY <1>2, FileFacts DEF IInv, TypeOK
    <3>4. /\ target' \in [Target -> [of : Upload \cup {None}, at : SUBSET Int]]
          /\ \A t \in Target : IF target'[t].of = None
                                THEN target'[t].at = NoFile
                                ELSE /\ dest[target'[t].of] = t
                                     /\ target'[t].at \in SUBSET Positions(target'[t].of)
      BY <3>3 DEF IInv, TypeOK, InPlace
    <3> QED  BY <3>1, <3>2, <3>4 DEF IInv, TypeOK, File
  <2>2. InPlace'
    BY DEF IInv, TypeOK, InPlace, Current
  <2>3. Opened'
    BY DEF IInv, TypeOK, InPlace, Opened, Current
  <2>4. Bytes'
    <3>1. dest[up[h]] \in Target /\ up[h] \in over' /\ queue[up[h]] = 0
      BY DEF IInv, TypeOK, InPlace, Bytes
    <3>2. temp'[up[h]] = NoFile /\ \A u \in Upload \ {up[h]} : temp'[u] = temp[u]
      BY DEF IInv, TypeOK
    <3>3. \A g \in Handler : pc'[g] # "idle" /\ Current(up[g])' => pc[g] # "idle" /\ Current(up[g]) /\ up[g] # up[h]
      BY DEF IInv, TypeOK, Current
    <3>4. \A g \in Handler : pc'[g] # "idle" => up[g] \in Upload
      BY DEF IInv, TypeOK, InPlace
    <3>5. \A u \in Upload : Current(u)' => Current(u) /\ u # up[h]
      BY DEF Current
    <3>6. \A u \in Upload : u # up[h] /\ dest'[u] = dest[u] /\ Current(u) => Current(u)'
      BY DEF Current
    <3>7. \A g \in Handler : pc'[g] # "idle" /\ Current(up[g])' => 0 .. (seen'[g] - 1) \subseteq temp'[up'[g]]
      BY <3>2, <3>3, <3>4 DEF IInv, TypeOK, Bytes
    <3> QED  BY <3>1, <3>2, <3>5, <3>6, <3>7, <1>3 DEF IInv, TypeOK, Bytes
  <2>5. OffsetIsBacked'
    BY DEF IInv, OffsetIsBacked, Current
  <2>6. Once'
    <3>1. \A g \in Handler \ {h} : up[g] = up[h] /\ Current(up[h]) => pc[g] # "persist"
      BY DEF IInv, Locking
    <3>2. /\ \A t \in Target : target'[t] = IF t = dest[up[h]] THEN [of |-> up[h], at |-> temp[up[h]]]
                                                                ELSE target[t]
          /\ dest[up[h]] \in Target
      BY DEF IInv, TypeOK, InPlace
    <3>3. \A t \in Target : target'[t].of \in Upload => target'[t].of \in over'
      BY <3>2 DEF IInv, Once
    <3>4. \A u \in over' \ spoiled' :
             IF dest[u] \in Target THEN target'[dest[u]].at # NoFile
                                 ELSE queue[u] > 0 \/ remote[u] # NoFile
      BY <1>2, <3>2 DEF IInv, Once
    <3>5. \A g \in Handler : pc'[g] = "persist" /\ up[g] \notin spoiled' => up[g] \notin over'
      BY <3>1 DEF IInv, TypeOK, Once, Current
    <3> QED  BY <3>3, <3>4, <3>5 DEF Once
  <2>7. DeliveredIsWhole'
    <3>1. \A t \in Target : target'[t] = IF t = dest[up[h]] THEN [of |-> up[h], at |-> temp[up[h]]]
                                                             ELSE target[t]
      BY DEF IInv, TypeOK
    <3>2. ASSUME up[h] \notin spoiled  PROVE temp[up[h]] = Whole(up[h])
      <4>1. Current(up[h]) /\ seen[h] = Length[up[h]]
        BY <3>2 DEF IInv, InPlace, Once, Current
      <4>2. temp[up[h]] \in SUBSET Whole(up[h])
        BY <1>2, <3>2 DEF IInv, Bytes
      <4>3. 0 .. (Length[up[h]] - 1) \subseteq temp[up[h]]
        BY <1>4, <4>1
      <4> QED  BY <4>2, <4>3 DEF Whole
    <3> QED  BY <3>1, <3>2 DEF IInv, DeliveredIsWhole
  <2>8. LockInv'
    BY LockStay DEF IInv, LockInv, TypeOK
  <2> QED  BY <2>1, <2>2, <2>3, <2>4, <2>5, <2>6, <2>7, <2>8 DEF IInv, LockInv
<1> QED  BY <1>1, <1>2

LEMMA ScrubTempIInv ==
    ASSUME IInv, NEW h \in Handler, ScrubTemp(h)
    PROVE  IInv'
<1> USE DEF ScrubTemp, RemoveTemp, Relink
<1>0. up[h] \in Upload
  BY DEF IInv, InPlace
<1>1. CASE pc[h] = "endTemp"
  <2>0. /\ pc' = [pc EXCEPT ![h] = "endMeta"] /\ temp' = [temp EXCEPT ![up[h]] = NoFile]
       /\ fd' = [g \in Handler |-> IF up[g] = up[h] /\ fd[g] = "temp" THEN "gone" ELSE fd[g]]
       /\ UNCHANGED <<dest, saved, offset, target, queue, remote, locks, up, seen, ref, crashes, hist>>
    BY <1>0, <1>1 DEF IInv, TypeOK
  <2> USE <1>0, <2>0
  <2>1. TypeOK'
    BY FileFacts DEF IInv, TypeOK
  <2>2. InPlace'
    BY DEF IInv, TypeOK, InPlace, Current
  <2>3. Opened'
    BY DEF IInv, InPlace, Opened, Current
  <2>4. Bytes'
    BY DEF IInv, InPlace, Bytes, Current
  <2>5. OffsetIsBacked'
    BY DEF IInv, InPlace, OffsetIsBacked, Current
  <2>6. Once'
    BY DEF IInv, Once
  <2>7. DeliveredIsWhole'
    BY DEF IInv, DeliveredIsWhole
  <2>8. LockInv'
    BY LockStay DEF IInv, LockInv, TypeOK
  <2> QED  BY <2>1, <2>2, <2>3, <2>4, <2>5, <2>6, <2>7, <2>8 DEF IInv, LockInv
<1>2. CASE pc[h] # "endTemp"
  <2>0. /\ pc[h] = "scrubTemp" /\ pc' = [pc EXCEPT ![h] = "scrubMeta"] /\ temp' = [temp EXCEPT ![up[h]] = NoFile]
       /\ fd' = [g \in Handler |-> IF up[g] = up[h] /\ fd[g] = "temp" THEN "gone" ELSE fd[g]]
       /\ UNCHANGED <<dest, saved, offset, target, queue, remote, locks, up, seen, ref, crashes, hist>>
    BY <1>0, <1>2 DEF IInv, TypeOK
  <2> USE <1>0, <2>0
  <2>1. TypeOK'
    BY FileFacts DEF IInv, TypeOK
  <2>2. InPlace'
    BY DEF IInv, TypeOK, InPlace, Current
  <2>3. Opened'
    BY DEF IInv, InPlace, Opened, Current
  <2>4. Bytes'
    <3>1. up[h] \in spoiled \/ (dest[up[h]] \in Target /\ queue[up[h]] = 0)
      BY DEF IInv, TypeOK, InPlace, Bytes
    <3>2. temp'[up[h]] = NoFile /\ \A u \in Upload \ {up[h]} : temp'[u] = temp[u]
      BY DEF IInv, TypeOK
    <3>3. ~Current(up[h]) /\ dest[up[h]] # None
      BY DEF IInv, InPlace
    <3>4. \A g \in Handler : pc'[g] # "idle" => pc[g] # "idle" /\ up[g] \in Upload
      BY DEF IInv, TypeOK, InPlace
    <3> QED  BY <3>1, <3>2, <3>3, <3>4 DEF IInv, TypeOK, Bytes, Current
  <2>5. OffsetIsBacked'
    BY DEF IInv, InPlace, OffsetIsBacked, Current
  <2>6. Once'
    BY DEF IInv, Once
  <2>7. DeliveredIsWhole'
    BY DEF IInv, DeliveredIsWhole
  <2>8. LockInv'
    BY LockStay DEF IInv, LockInv, TypeOK
  <2> QED  BY <2>1, <2>2, <2>3, <2>4, <2>5, <2>6, <2>7, <2>8 DEF IInv, LockInv
<1> QED  BY <1>0, <1>1, <1>2 DEF IInv, TypeOK

LEMMA CreateIInv ==
    ASSUME IInv, NEW u \in Upload, NEW d \in Target \cup {Cloud}, Create(u, d)
    PROVE  IInv'
<1> USE DEF Create
<1>1. TypeOK'
  BY FileFacts DEF IInv, TypeOK
<1>2. InPlace'
  BY DEF IInv, TypeOK, InPlace, Current
<1>3. Opened'
  BY DEF IInv, InPlace, Opened, Current
<1>4. Bytes'
  BY FileFacts DEF IInv, TypeOK, InPlace, Bytes, Current
<1>5. OffsetIsBacked'
  BY DEF IInv, TypeOK, OffsetIsBacked, Current
<1>6. Once'
  BY DEF IInv, Once, Bytes
<1>7. DeliveredIsWhole'
  BY DEF IInv, DeliveredIsWhole
<1>8. LockInv'
  BY DEF IInv, LockInv, Locking, LockedIsPatched, Current, TypeOK
<1> QED  BY <1>1, <1>2, <1>3, <1>4, <1>5, <1>6, <1>7, <1>8 DEF IInv, LockInv

LEMMA SyncDeliverIInv ==
    ASSUME IInv, NEW u \in Upload, SyncDeliver(u)
    PROVE  IInv'
<1> USE DEF SyncDeliver
<1>1. TypeOK'
  BY DEF IInv, TypeOK
<1>2. InPlace'
  BY DEF IInv, TypeOK, InPlace, Current
<1>3. Opened'
  BY DEF IInv, Opened, Current
<1>4. Bytes'
  BY DEF IInv, Bytes, Current
<1>5. OffsetIsBacked'
  BY DEF IInv, OffsetIsBacked, Current
<1>6. Once'
  BY DEF IInv, Once
<1>7. DeliveredIsWhole'
  BY DEF IInv, Bytes, DeliveredIsWhole
<1>8. LockInv'
  BY DEF IInv, LockInv, Locking, LockedIsPatched, Current, TypeOK
<1> QED  BY <1>1, <1>2, <1>3, <1>4, <1>5, <1>6, <1>7, <1>8 DEF IInv, LockInv

LEMMA SyncEndIInv ==
    ASSUME IInv, NEW u \in Upload, SyncEnd(u)
    PROVE  IInv'
<1> USE DEF SyncEnd, RemoveTemp, Relink
<1>1. TypeOK'
  BY FileFacts DEF IInv, TypeOK
<1>2. InPlace'
  BY DEF IInv, TypeOK, InPlace, Current
<1>3. Opened'
  BY DEF IInv, Opened, Bytes, Current
<1>4. Bytes'
  <2>1. dest[u] = Cloud /\ u \in over /\ ~Current(u) /\ dest[u] # None
    BY DEF IInv, TypeOK, Bytes, Current
  <2>2. temp'[u] = NoFile /\ \A v \in Upload \ {u} : temp'[v] = temp[v] /\ queue'[v] = queue[v]
    BY DEF IInv, TypeOK
  <2>3. u \notin spoiled' => remote[u] # NoFile
    BY DEF IInv, TypeOK
  <2>4. \A g \in Handler : pc[g] # "idle" => up[g] \in Upload
    BY DEF IInv, InPlace
  <2>5. \A v \in Upload : Current(v)' => Current(v) /\ v # u
    BY <2>1 DEF Current
  <2> QED  BY <2>1, <2>2, <2>3, <2>4, <2>5 DEF IInv, TypeOK, Bytes, Current
<1>5. OffsetIsBacked'
  BY DEF IInv, InPlace, Bytes, OffsetIsBacked, Current
<1>6. Once'
  BY DEF IInv, Once
<1>7. DeliveredIsWhole'
  BY DEF IInv, DeliveredIsWhole
<1>8. LockInv'
  BY DEF IInv, LockInv, Locking, LockedIsPatched, Current, TypeOK
<1> QED  BY <1>1, <1>2, <1>3, <1>4, <1>5, <1>6, <1>7, <1>8 DEF IInv, LockInv

LEMMA AppendToTarget ==
    ASSUME NEW r \in [of : Upload \cup {None}, at : SUBSET Int], NEW bytes \in SUBSET Int
    PROVE  [r EXCEPT !.at = @ \cup bytes] = [of |-> r.of, at |-> r.at \cup bytes]
<1>1. r = [of |-> r.of, at |-> r.at]
  OBVIOUS
<1> QED  BY <1>1

\* What a write does to the files: they only grow, within the positions of the
\* upload, and one that is whole already does not change unless the body is
\* longer than the upload.
LEMMA WriteFacts ==
    ASSUME TypeOK, InPlace, Opened, NEW h \in Handler, pc[h] = "copy",
           NEW end \in seen[h] .. (Length[up[h]] + 1), Write(h, seen[h] .. (end - 1))
    PROVE  /\ temp' \in [Upload -> SUBSET Int]
           /\ \A v \in Upload : /\ temp'[v] \in File(v) /\ temp[v] \subseteq temp'[v]
                                /\ temp'[v] = NoFile <=> temp[v] = NoFile
                                /\ v # up[h] => temp'[v] = temp[v]
           /\ end <= Length[up[h]] =>
                 /\ temp[up[h]] \in SUBSET Whole(up[h]) => temp'[up[h]] \in SUBSET Whole(up[h])
                 /\ temp[up[h]] = Whole(up[h]) => temp'[up[h]] = Whole(up[h])
           /\ fd[h] = "temp" => temp'[up[h]] = temp[up[h]] \cup (seen[h] .. (end - 1))
           /\ target' \in [Target -> [of : Upload \cup {None}, at : SUBSET Int]]
           /\ \A t \in Target :
                 /\ target'[t].of = target[t].of
                 /\ target'[t].at = NoFile <=> target[t].at = NoFile
                 /\ target[t].of # None => target'[t].at \in SUBSET Positions(target[t].of)
                 /\ /\ target[t].of \in Upload /\ target[t].at = Whole(target[t].of)
                    /\ target[t].of = up[h] => end <= Length[up[h]]
                    => target'[t].at = Whole(target[t].of)
<1> DEFINE u == up[h]
           B == seen[h] .. (end - 1)
<1>1. /\ u \in Upload /\ seen[h] \in Nat /\ end \in Nat /\ Length[u] \in Nat
      /\ temp[u] \in File(u) /\ temp[u] \in SUBSET Int
  BY DEF TypeOK, InPlace
<1>2. B \in SUBSET Positions(u) /\ B \in SUBSET Int /\ (end <= Length[u] => B \in SUBSET Whole(u))
  BY <1>1 DEF Positions, Whole
<1>3. temp' = IF fd[h] = "temp" THEN [temp EXCEPT ![u] = @ \cup B] ELSE temp
  BY DEF Write
<1>4. target' = IF fd[h] = "target" THEN [target EXCEPT ![dest[u]].at = @ \cup B] ELSE target
  BY DEF Write
<1> HIDE DEF B
<1>5. fd[h] = "temp" => /\ temp[u] # NoFile /\ temp[u] \in SUBSET Positions(u)
                        /\ (temp[u] \cup B) \in SUBSET Positions(u)
  <2>1. fd[h] = "temp" => temp[u] # NoFile
    BY DEF Opened
  <2>2. temp[u] # NoFile => temp[u] \in SUBSET Positions(u)
    BY <1>1, FileFacts
  <2> QED  BY <1>2, <2>1, <2>2
<1>6. temp' \in [Upload -> SUBSET Int]
  BY <1>1, <1>2, <1>3 DEF TypeOK
<1>7. fd[h] = "temp" => temp'[u] = temp[u] \cup B
  BY <1>1, <1>3 DEF TypeOK
<1>8. fd[h] # "temp" => temp' = temp
  BY <1>3
<1>9. \A v \in Upload : v # u => temp'[v] = temp[v]
  BY <1>1, <1>3 DEF TypeOK
<1>10. /\ temp'[u] \in File(u) /\ temp[u] \subseteq temp'[u]
       /\ temp'[u] = NoFile <=> temp[u] = NoFile
  BY <1>1, <1>5, <1>7, <1>8, FileFacts DEF File
<1>11. end <= Length[u] =>
         /\ temp[u] \in SUBSET Whole(u) => temp'[u] \in SUBSET Whole(u)
         /\ temp[u] = Whole(u) => temp'[u] = Whole(u)
  BY <1>2, <1>7, <1>8
<1>12. \A v \in Upload : /\ temp'[v] \in File(v) /\ temp[v] \subseteq temp'[v]
                         /\ temp'[v] = NoFile <=> temp[v] = NoFile
  BY <1>9, <1>10 DEF TypeOK
<1>13. CASE fd[h] # "target"
  <2>1. target' = target
    BY <1>4, <1>13
  <2>2. \A t \in Target : target[t].of # None => target[t].at \in SUBSET Positions(target[t].of)
    BY DEF TypeOK
  <2> QED  BY <1>6, <1>7, <1>9, <1>11, <1>12, <2>1, <2>2 DEF TypeOK, B
<1>14. CASE fd[h] = "target"
  <2> DEFINE d == dest[u]
  <2>1. d \in Target /\ target[d].of = u /\ u # None
    BY <1>1, <1>14 DEF Opened
  <2>2. target[d].at \in SUBSET Positions(u) /\ target[d].at \in SUBSET Int
    BY <2>1 DEF TypeOK
  <2>3. target' = [target EXCEPT ![d] = [of |-> u, at |-> target[d].at \cup B]]
    <3>1. target' = [target EXCEPT ![d] = [target[d] EXCEPT !.at = @ \cup B]]
      BY <1>4, <1>14
    <3>2. target[d] \in [of : Upload \cup {None}, at : SUBSET Int]
      BY <2>1 DEF TypeOK
    <3>3. [target[d] EXCEPT !.at = @ \cup B] = [of |-> target[d].of, at |-> target[d].at \cup B]
      BY <1>2, <3>2, AppendToTarget
    <3> QED  BY <2>1, <3>1, <3>3
  <2>4. target' \in [Target -> [of : Upload \cup {None}, at : SUBSET Int]]
    BY <1>1, <1>2, <2>2, <2>3 DEF TypeOK
  <2>5. \A t \in Target \ {d} : target'[t] = target[t]
    BY <2>3 DEF TypeOK
  <2>6. target'[d].of = u /\ target'[d].at = target[d].at \cup B
    BY <2>1, <2>3 DEF TypeOK
  <2>7. /\ target'[d].at \in SUBSET Positions(u)
        /\ target'[d].at # NoFile /\ target[d].at # NoFile
        /\ target[d].at = Whole(u) /\ end <= Length[u] => target'[d].at = Whole(u)
    <3>1. target'[d].at \in SUBSET Positions(u)
      BY <1>2, <2>2, <2>6
    <3>2. NoFile \notin SUBSET Positions(u)
      BY <1>1, FileFacts
    <3>3. target[d].at = Whole(u) /\ end <= Length[u] => target'[d].at = Whole(u)
      BY <1>2, <2>6
    <3> QED  BY <2>2, <3>1, <3>2, <3>3
  <2>8. \A t \in Target \ {d} : target[t].of # None => target[t].at \in SUBSET Positions(target[t].of)
    BY DEF TypeOK
  <2> QED  BY <1>6, <1>7, <1>9, <1>11, <1>12, <2>1, <2>4, <2>5, <2>6, <2>7, <2>8 DEF B
<1> QED  BY <1>13, <1>14

LEMMA CopyIInv ==
    ASSUME IInv, NEW h \in Handler, Copy(h)
    PROVE  IInv'
<1> DEFINE u == up[h]
<1>1. PICK end \in seen[h] .. (Length[u] + 1) :
         /\ Write(h, seen[h] .. (end - 1))
         /\ spoiled' = IF end > Length[u] THEN spoiled \cup {u} ELSE spoiled
         /\ \/ /\ end <= Length[u]
               /\ seen' = [seen EXCEPT ![h] = end] /\ Goto(h, "truncate")
               /\ UNCHANGED <<held, up, ref, fd>>
            \/ Return(h) /\ Unlock(h)
  BY DEF Copy, CopyBody
<1>2. /\ pc[h] = "copy" /\ u \in Upload
      /\ UNCHANGED <<dest, saved, offset, queue, remote, lockOf, crashes, over>>
  BY DEF Copy, CopyBody, IInv, InPlace
<1>3. /\ seen[h] \in Nat /\ Length[u] \in Nat /\ end \in Nat /\ seen[h] <= end
  BY <1>1, <1>2 DEF IInv, TypeOK
<1>4. spoiled \subseteq spoiled' /\ spoiled' \subseteq Upload /\ (u \notin spoiled' => end <= Length[u])
  BY <1>1, <1>2, <1>3 DEF IInv, TypeOK
<1>5. /\ temp' \in [Upload -> SUBSET Int]
      /\ \A v \in Upload : /\ temp'[v] \in File(v) /\ temp[v] \subseteq temp'[v]
                           /\ temp'[v] = NoFile <=> temp[v] = NoFile
                           /\ v # u => temp'[v] = temp[v]
      /\ u \notin spoiled' =>
            /\ temp[u] \in SUBSET Whole(u) => temp'[u] \in SUBSET Whole(u)
            /\ temp[u] = Whole(u) => temp'[u] = Whole(u)
      /\ fd[h] = "temp" => temp'[u] = temp[u] \cup (seen[h] .. (end - 1))
  BY <1>1, <1>2, <1>4, WriteFacts DEF IInv
<1>6. /\ target' \in [Target -> [of : Upload \cup {None}, at : SUBSET Int]]
      /\ \A t \in Target :
            /\ target'[t].of = target[t].of
            /\ target'[t].at = NoFile <=> target[t].at = NoFile
            /\ target[t].of # None => target'[t].at \in SUBSET Positions(target[t].of)
            /\ target[t].of \in Upload \ spoiled' /\ target[t].at = Whole(target[t].of)
                 => target'[t].at = Whole(target[t].of)
  BY <1>1, <1>2, <1>4, WriteFacts DEF IInv
<1>7. /\ OffsetIsBacked' /\ DeliveredIsWhole'
  BY <1>2, <1>4, <1>5, <1>6 DEF IInv, OffsetIsBacked, DeliveredIsWhole, Current
<1>8. \A v \in Upload :
         /\ dest[v] = None => /\ saved[v] = "none" /\ temp'[v] = NoFile /\ Current(v)'
                              /\ queue[v] = 0 /\ remote[v] = NoFile
         /\ dest[v] # None /\ Current(v)' => temp'[v] # NoFile
         /\ queue[v] > 0 \/ remote[v] # NoFile => v \in over /\ dest[v] = Cloud
         /\ v \notin spoiled' => temp'[v] \in (SUBSET Whole(v)) \cup {NoFile}
         /\ v \notin spoiled' /\ queue[v] > 0 /\ remote[v] = NoFile => temp'[v] = Whole(v)
  <2>1. dest[u] # None
    BY <1>2 DEF IInv, InPlace
  <2> QED  BY <1>1, <1>2, <1>4, <1>5, <2>1 DEF IInv, Bytes, Current
<1>9. /\ \A t \in Target : target'[t].of \in Upload => target'[t].of \in over
      /\ \A v \in over \ spoiled' :
           IF dest[v] \in Target THEN target'[dest[v]].at # NoFile
                               ELSE queue[v] > 0 \/ remote[v] # NoFile
  BY <1>4, <1>6 DEF IInv, Once
<1>10. /\ dest' \in [Upload -> Target \cup {Cloud, None}]
       /\ \A t \in Target : IF target'[t].of = None
                              THEN target'[t].at = NoFile
                              ELSE /\ dest[target'[t].of] = t
                                   /\ target'[t].at \in SUBSET Positions(target'[t].of)
  BY <1>2, <1>6 DEF IInv, TypeOK
<1>11. CASE /\ end <= Length[u]
            /\ seen' = [seen EXCEPT ![h] = end] /\ Goto(h, "truncate")
            /\ UNCHANGED <<held, up, ref, fd>>
  <2>1. TypeOK'
    <3>1. pc' \in [Handler -> Point] /\ seen' \in [Handler -> Nat]
      BY <1>3, <1>11 DEF IInv, TypeOK
    <3> QED  BY <1>2, <1>4, <1>5, <1>6, <1>10, <1>11, <3>1 DEF IInv, TypeOK, File
  <2>2. InPlace'
    BY <1>2, <1>4, <1>11 DEF IInv, TypeOK, InPlace, Current
  <2>3. Opened'
    BY <1>2, <1>4, <1>5, <1>6, <1>11 DEF IInv, InPlace, Opened, Current
  <2>4. Bytes'
    <3>1. ASSUME Current(u)'  PROVE 0 .. (end - 1) \subseteq temp'[u]
      <4>1. Current(u) /\ fd[h] = "temp"
        BY <1>2, <1>4, <1>11, <3>1 DEF IInv, Opened, Current
      <4>2. 0 .. (seen[h] - 1) \subseteq temp[u] /\ temp[u] \in SUBSET Int
        BY <1>2, <4>1 DEF IInv, TypeOK, Bytes
      <4> QED  BY <1>3, <1>5, <4>1, <4>2, WriteExtends
    <3>2. ASSUME NEW g \in Handler \ {h}, pc[g] # "idle", Current(up[g])'
          PROVE  0 .. (seen[g] - 1) \subseteq temp'[up[g]]
      <4>1. up[g] \in Upload /\ Current(up[g])
        BY <1>2, <1>4, <1>11, <3>2 DEF IInv, InPlace, Current
      <4> QED  BY <1>5, <3>2, <4>1 DEF IInv, Bytes
    <3>3. /\ seen'[h] = end /\ up' = up /\ \A g \in Handler \ {h} : seen'[g] = seen[g] /\ pc'[g] = pc[g]
      BY <1>11 DEF IInv, TypeOK
    <3>4. \A g \in Handler : pc'[g] # "idle" /\ Current(up[g])' => 0 .. (seen'[g] - 1) \subseteq temp'[up'[g]]
      BY <1>2, <3>1, <3>2, <3>3
    <3> QED  BY <1>2, <1>8, <3>3, <3>4 DEF Bytes
  <2>5. Once'
    <3>1. \A g \in Handler : pc'[g] = "persist" => pc[g] = "persist"
      BY <1>11 DEF IInv, TypeOK
    <3> QED  BY <1>2, <1>4, <1>9, <1>11, <3>1 DEF IInv, Once
  <2>6. LockInv'
    BY <1>2, <1>4, <1>11, LockStay DEF IInv, LockInv, TypeOK
  <2> QED  BY <1>7, <2>1, <2>2, <2>3, <2>4, <2>5, <2>6 DEF IInv, LockInv
<1>12. CASE Return(h) /\ Unlock(h)
  <2> USE DEF Return, Unlock
  <2>0. \A g \in Handler \ {h} : /\ pc'[g] = pc[g] /\ up'[g] = up[g] /\ seen'[g] = seen[g] /\ fd'[g] = fd[g]
    BY <1>12 DEF IInv, TypeOK
  <2>h. pc'[h] = "idle" /\ seen'[h] = 0 /\ fd'[h] = "closed"
    BY <1>12 DEF IInv, TypeOK
  <2>1. TypeOK'
    <3>1. /\ pc' \in [Handler -> Point] /\ seen' \in [Handler -> Nat] /\ held' \subseteq Lock
          /\ up' \in [Handler -> Upload \cup {None}] /\ ref' \in [Handler -> Lock \cup {None}]
          /\ fd' \in [Handler -> {"closed", "temp", "target", "gone"}]
      BY <1>12 DEF IInv, TypeOK
    <3> QED  BY <1>2, <1>4, <1>5, <1>6, <1>10, <3>1 DEF IInv, TypeOK, File
  <2>2. InPlace'
    BY <1>2, <1>4, <2>0, <2>h DEF IInv, InPlace, Current
  <2>3. Opened'
    BY <1>2, <1>4, <1>5, <1>6, <2>0, <2>h DEF IInv, InPlace, Opened, Current
  <2>4. Bytes'
    <3>1. \A g \in Handler : pc'[g] # "idle" /\ up'[g] \notin over' \cup spoiled' => 0 .. (seen'[g] - 1) \subseteq temp'[up'[g]]
      BY <1>2, <1>4, <1>5, <2>0, <2>h DEF IInv, InPlace, Bytes, Current
    <3> QED  BY <1>2, <1>8, <3>1 DEF Bytes, Current
  <2>5. Once'
    BY <1>2, <1>4, <1>9, <2>0, <2>h DEF IInv, Once
  <2>6. LockInv'
    BY <1>2, <1>4, <1>12, LockLeave DEF IInv, LockInv
  <2> QED  BY <1>7, <2>1, <2>2, <2>3, <2>4, <2>5, <2>6 DEF IInv, LockInv
<1> QED  BY <1>1, <1>11, <1>12

LEMMA CrashIInv ==
    ASSUME IInv, Crash
    PROVE  IInv'
<1> USE DEF Crash
<1>1. TypeOK'
  BY DEF IInv, TypeOK, File
<1>2. InPlace' /\ LockInv' /\ Opened'
  BY DEF InPlace, LockInv, Locking, LockedIsPatched, Opened
<1>3. Bytes'
  BY DEF IInv, Bytes, Current
<1>4. OffsetIsBacked' /\ Once' /\ DeliveredIsWhole'
  BY DEF IInv, OffsetIsBacked, Once, DeliveredIsWhole, Current
<1> QED  BY <1>1, <1>2, <1>3, <1>4 DEF IInv, LockInv

LEMMA InitIInv ==
    ASSUME Init
    PROVE  IInv
<1> USE DEF Init
<1>1. TypeOK
  <2>1. NoFile \in SUBSET Int /\ \A u \in Upload : NoFile \in File(u)
    BY DEF NoFile, File
  <2>2. \A u \in Upload : offset[u] <= Length[u]
    <3> SUFFICES ASSUME NEW u \in Upload  PROVE offset[u] <= Length[u]
      OBVIOUS
    <3>1. offset[u] = 0
      OBVIOUS
    <3>2. 0 <= Length[u]
      OBVIOUS
    <3> QED  BY <3>1, <3>2
  <2>3. target \in [Target -> [of : Upload \cup {None}, at : SUBSET Int]]
    BY <2>1
  <2> QED  BY <2>1, <2>2, <2>3 DEF TypeOK
<1>2. InPlace /\ LockInv /\ Opened
  BY DEF InPlace, LockInv, Locking, LockedIsPatched, Opened
<1>3. Bytes
  BY DEF Bytes, Current
<1>4. OffsetIsBacked /\ Once /\ DeliveredIsWhole
  BY DEF OffsetIsBacked, Once, DeliveredIsWhole, Current
<1> QED  BY <1>1, <1>2, <1>3, <1>4 DEF IInv, LockInv

LEMMA StutterIInv ==
    ASSUME IInv, UNCHANGED vars
    PROVE  IInv'
<1> USE DEF vars
<1>1. TypeOK' /\ InPlace' /\ Opened'
  BY DEF IInv, TypeOK, InPlace, Opened, File, Current
<1>2. Locking' /\ LockedIsPatched'
  BY DEF IInv, Locking, LockedIsPatched, Current
<1>3. Bytes'
  BY DEF IInv, Bytes, Current
<1>4. OffsetIsBacked' /\ Once' /\ DeliveredIsWhole'
  BY DEF IInv, OffsetIsBacked, Once, DeliveredIsWhole, Current
<1> QED  BY <1>1, <1>2, <1>3, <1>4 DEF IInv

LEMMA NextIInv ==
    ASSUME IInv, Next
    PROVE  IInv'
<1>1. ASSUME NEW u \in Upload, NEW d \in Target \cup {Cloud}, Create(u, d)
      PROVE  IInv'
  BY <1>1, CreateIInv
<1>2. ASSUME NEW u \in Upload, SyncDeliver(u) \/ SyncEnd(u)
      PROVE  IInv'
  BY <1>2, SyncDeliverIInv, SyncEndIInv
<1>3. ASSUME NEW h \in Handler, NEW u \in Upload, DeleteLoad(h, u) \/ PatchLoad(h, u)
      PROVE  IInv'
  BY <1>3, DeleteLoadIInv, PatchLoadIInv
<1>4. ASSUME NEW h \in Handler, PatchStep(h)
      PROVE  IInv'
  BY <1>4, GetLockIInv, TryLockIInv, OpenIInv, CopyIInv, TruncateIInv, SaveIInv,
     FinalizeIInv, PersistIInv, CleanMetaIInv, ForgetIInv, ScrubTempIInv,
     ScrubMetaIInv, EndLockIInv DEF PatchStep
<1>5. CASE Crash
  BY <1>5, CrashIInv
<1> QED  BY <1>1, <1>2, <1>3, <1>4, <1>5 DEF Next

-----------------------------------------------------------------------------
(* The theorems.                                                           *)

\* The invariant is inductive, through every interleaving of uploads.go's
\* handlers, the job worker and crashes.
THEOREM Invariance == Spec => []IInv
<1>1. Init => IInv
  BY InitIInv
<1>2. IInv /\ [Next]_vars => IInv'
  BY NextIInv, StutterIInv
<1> QED  BY <1>1, <1>2, PTL DEF Spec

\* Every variable of the upload model keeps its type; no file has a byte past
\* one more than the declared length, no offset on record exceeds the length.
THEOREM TypeCorrect == Spec => []TypeOK
<1>1. IInv => TypeOK
  BY DEF IInv
<1> QED  BY <1>1, Invariance, PTL

\* What HandleTusHead reports can be resumed from: the bytes below the offset
\* that saveTusUploadMeta wrote are in the temporary file.
THEOREM OffsetBacked == Spec => []OffsetIsBacked
<1>1. IInv => OffsetIsBacked
  BY DEF IInv
<1> QED  BY <1>1, Invariance, PTL

\* Whatever finalizeTusUpload stores, at a target or in the cloud, is the whole
\* upload, unless the upload was terminated, overrun or failed at its end.
THEOREM DeliveredWhole == Spec => []DeliveredIsWhole
<1>1. IInv => DeliveredIsWhole
  BY DEF IInv
<1> QED  BY <1>1, Invariance, PTL

\* No path through HandleTusPatch leaves its lock taken.
THEOREM LockedPatched == Spec => []LockedIsPatched
<1>1. IInv => LockedIsPatched
  BY DEF IInv
<1> QED  BY <1>1, Invariance, PTL

\* Two PATCHes never work on one upload that is not stored yet.
THEOREM Exclusive == Spec => []PatchesExclusive
<1>1. IInv => PatchesExclusive
  BY DEF IInv, Locking, PatchesExclusive, Current
<1> QED  BY <1>1, Invariance, PTL

-----------------------------------------------------------------------------
(* Every step is a step of Delivery, or leaves all that it speaks of.      *)

PStep == [Promise!DNext]_(Promise!dvars)

\* A step that no current upload's bytes take part in.
LEMMA Unseen ==
    ASSUME UNCHANGED <<dest, target, remote, over, spoiled>>,
           \A u \in Upload : dest[u] # None /\ Current(u) => temp'[u] = temp[u]
    PROVE  PStep
<1>1. \A u \in Upload : Received(u)' = Received(u)
  BY DEF Received, Current
<1>2. [u \in Upload |-> Received(u)]' = [u \in Upload |-> Received(u)]
  BY <1>1
<1> QED  BY <1>2 DEF PStep, Promise!dvars

\* What is received of an upload after it is over or astray.
LEMMA ReceivedAfter ==
    ASSUME NEW u \in Upload, dest' = dest, u \in over' \cup spoiled',
           \A v \in Upload \ {u} : /\ v \in over' <=> v \in over
                                   /\ v \in spoiled' <=> v \in spoiled
                                   /\ temp'[v] = temp[v]
    PROVE  [v \in Upload |-> Received(v)]' =
               [[v \in Upload |-> Received(v)] EXCEPT ![u] = {}]
<1>1. Received(u)' = {}
  BY DEF Received, Current
<1>2. \A v \in Upload \ {u} : Received(v)' = Received(v)
  BY DEF Received, Current
<1> QED  BY <1>1, <1>2

LEMMA StrayIsStep ==
    ASSUME NEW u \in Upload, dest[u] # None, dest' = dest,
           spoiled' = spoiled \cup {u}, over' \in {over, over \cup {u}},
           \A v \in Upload \ {u} : temp'[v] = temp[v] /\ remote'[v] = remote[v],
           \A t \in Target \ {dest[u]} : target'[t] = target[t],
           dest[u] \in Target =>
             target'[dest[u]] = target[dest[u]] \/ target'[dest[u]].of = u
    PROVE  PStep
<1>1. [v \in Upload |-> Received(v)]' = [[v \in Upload |-> Received(v)] EXCEPT ![u] = {}]
  BY ReceivedAfter
<1>2. Promise!Stray(u)
  BY <1>1 DEF Promise!Stray
<1> QED  BY <1>2 DEF PStep, Promise!DNext

\* At its end a current upload has been received, and before that in part.
LEMMA AtFinalization ==
    ASSUME IInv, NEW h \in Handler, pc[h] \in {"finalize", "persist"},
           up[h] \notin over \cup spoiled
    PROVE  Promise!Complete(up[h]) /\ temp[up[h]] = Whole(up[h])
<1>1. up[h] \in Upload /\ dest[up[h]] # None /\ seen[h] = Length[up[h]]
  BY DEF IInv, InPlace
<1>2. 0 .. (Length[up[h]] - 1) \subseteq temp[up[h]]
  BY <1>1 DEF IInv, Bytes, Current
<1>3. temp[up[h]] \in SUBSET Whole(up[h])
  BY <1>1 DEF IInv, Bytes, Current
<1>4. temp[up[h]] = Whole(up[h])
  BY <1>1, <1>2, <1>3, PrefixIsWhole
<1>5. Received(up[h]) = Whole(up[h])
  BY <1>1, <1>4 DEF Received, Current
<1> QED  BY <1>1, <1>4, <1>5 DEF Promise!Complete, Promise!Current, Promise!Whole, Whole

LEMMA CreateSimulates ==
    ASSUME IInv, NEW u \in Upload, NEW d \in Target \cup {Cloud}, Create(u, d)
    PROVE  PStep
<1> USE DEF Create
<1>1. Received(u)' = {} /\ Received(u) = {}
  <2>1. temp'[u] = {}
    BY DEF IInv, TypeOK
  <2> QED  BY <2>1 DEF Received
<1>2. \A v \in Upload \ {u} : Received(v)' = Received(v)
  BY DEF Received, Current, IInv, TypeOK
<1>3. [v \in Upload |-> Received(v)]' = [v \in Upload |-> Received(v)]
  BY <1>1, <1>2
<1>4. Promise!Declare(u, d)
  BY <1>3 DEF Promise!Declare
<1> QED  BY <1>4 DEF PStep, Promise!DNext

LEMMA SyncSimulates ==
    ASSUME IInv, NEW u \in Upload, SyncDeliver(u) \/ SyncEnd(u)
    PROVE  PStep
<1>1. u \in over /\ dest[u] = Cloud /\ dest[u] # None
  BY DEF SyncDeliver, SyncEnd, IInv, TypeOK, Bytes
<1>2. CASE SyncDeliver(u) /\ u \in spoiled
  <2>1. \A v \in Upload \ {u} : temp'[v] = temp[v] /\ remote'[v] = remote[v]
    BY <1>2 DEF SyncDeliver, IInv, TypeOK
  <2> QED  BY <1>1, <1>2, <2>1, StrayIsStep DEF SyncDeliver
<1>3. CASE SyncDeliver(u) /\ u \notin spoiled
  <2>1. temp[u] = Whole(u) /\ queue[u] > 0 /\ remote[u] = NoFile
    BY <1>3 DEF SyncDeliver, IInv, TypeOK, Bytes
  <2>2. [v \in Upload |-> Received(v)]' = [v \in Upload |-> Received(v)]
    BY <1>3 DEF SyncDeliver, Received, Current
  <2>3. Promise!Deliver(u)
    BY <1>1, <1>3, <2>1, <2>2
       DEF SyncDeliver, Promise!Deliver, Promise!NoFile, NoFile, Promise!Whole, Whole
  <2> QED  BY <2>3 DEF PStep, Promise!DNext
<1>4. CASE SyncEnd(u)
  <2>1. \A v \in Upload \ {u} : temp'[v] = temp[v]
    BY <1>4 DEF SyncEnd, RemoveTemp, IInv, TypeOK
  <2>2. CASE remote[u] = NoFile
    BY <1>1, <1>4, <2>1, <2>2, StrayIsStep DEF SyncEnd
  <2>3. CASE remote[u] # NoFile
    BY <1>1, <1>4, <2>1, <2>3, Unseen DEF SyncEnd, Current
  <2> QED  BY <2>2, <2>3
<1> QED  BY <1>2, <1>3, <1>4

LEMMA RowAsRecord ==
    ASSUME NEW r \in [of : Upload \cup {None}, at : SUBSET Int]
    PROVE  r = [of |-> r.of, at |-> r.at]
  OBVIOUS

\* Bytes of the upload have come to its file.
LEMMA ReceiveIsStep ==
    ASSUME NEW u \in Upload, NEW B \in SUBSET Whole(u), dest[u] # None, Current(u),
           UNCHANGED <<dest, target, remote, over, spoiled>>, temp'[u] = temp[u] \cup B,
           \A v \in Upload \ {u} : temp'[v] = temp[v]
    PROVE  PStep
<1>1. Received(u) = temp[u] /\ Received(u)' = temp[u] \cup B
  BY DEF Received, Current
<1>2. \A v \in Upload \ {u} : Received(v)' = Received(v)
  BY DEF Received, Current
<1>3. [v \in Upload |-> Received(v)]' =
        [[v \in Upload |-> Received(v)] EXCEPT ![u] = temp[u] \cup B]
  BY <1>1, <1>2
<1>4. [v \in Upload |-> Received(v)]' =
        [[v \in Upload |-> Received(v)] EXCEPT ![u] = @ \cup B]
  BY <1>1, <1>3
<1>5. Promise!Current(u) /\ B \in SUBSET Promise!Whole(u)
  BY DEF Promise!Current, Current, Promise!Whole, Whole
<1>6. Promise!Receive(u)
  BY <1>4, <1>5 DEF Promise!Receive
<1> QED  BY <1>6 DEF PStep, Promise!DNext

LEMMA CopySimulates ==
    ASSUME IInv, NEW h \in Handler, Copy(h)
    PROVE  PStep
<1> DEFINE u == up[h]
<1>1. PICK end \in seen[h] .. (Length[u] + 1) :
         /\ Write(h, seen[h] .. (end - 1))
         /\ spoiled' = IF end > Length[u] THEN spoiled \cup {u} ELSE spoiled
  BY DEF Copy, CopyBody
<1>2. /\ pc[h] = "copy" /\ u \in Upload /\ dest[u] # None
      /\ UNCHANGED <<dest, remote, over>>
  BY DEF Copy, CopyBody, IInv, InPlace
<1> DEFINE B == seen[h] .. (end - 1)
<1>3. /\ temp' = IF fd[h] = "temp" THEN [temp EXCEPT ![u] = @ \cup B] ELSE temp
      /\ target' = IF fd[h] = "target" THEN [target EXCEPT ![dest[u]].at = @ \cup B] ELSE target
  BY <1>1 DEF Write
<1>4. B \in SUBSET Int /\ (end <= Length[u] => B \in SUBSET Whole(u))
  BY <1>1, <1>2 DEF IInv, TypeOK, Whole
<1> HIDE DEF B
<1>5. \A v \in Upload \ {u} : temp'[v] = temp[v]
  BY <1>2, <1>3 DEF IInv, TypeOK
<1>6. fd[h] = "target" =>
        /\ dest[u] \in Target /\ target[dest[u]].of = u /\ u \in over /\ u # None
        /\ target' = [target EXCEPT ![dest[u]] = [of |-> u, at |-> target[dest[u]].at \cup B]]
  <2> SUFFICES ASSUME fd[h] = "target"
               PROVE  /\ dest[u] \in Target /\ target[dest[u]].of = u /\ u \in over /\ u # None
                      /\ target' = [target EXCEPT ![dest[u]] =
                                       [of |-> u, at |-> target[dest[u]].at \cup B]]
    OBVIOUS
  <2>1. dest[u] \in Target /\ target[dest[u]].of = u /\ u # None
    BY <1>2 DEF IInv, Opened
  <2>2. target[dest[u]] \in [of : Upload \cup {None}, at : SUBSET Int]
    BY <2>1 DEF IInv, TypeOK
  <2>3. [target[dest[u]] EXCEPT !.at = @ \cup B] =
            [of |-> target[dest[u]].of, at |-> target[dest[u]].at \cup B]
    BY <1>4, <2>2, AppendToTarget
  <2> QED  BY <1>2, <1>3, <2>1, <2>3 DEF IInv, Once
<1>7. CASE end > Length[u] \/ u \in spoiled
  <2>1. spoiled' = spoiled \cup {u}
    BY <1>1, <1>7
  <2>2. \A t \in Target \ {dest[u]} : target'[t] = target[t]
    BY <1>3, <1>6 DEF IInv, TypeOK
  <2>3. dest[u] \in Target =>
          target'[dest[u]] = target[dest[u]] \/ target'[dest[u]].of = u
    BY <1>3, <1>6 DEF IInv, TypeOK
  <2> QED  BY <1>2, <1>5, <2>1, <2>2, <2>3, StrayIsStep
<1>8. CASE ~(end > Length[u] \/ u \in spoiled)
  <2>1. spoiled' = spoiled /\ u \notin spoiled /\ end <= Length[u]
    BY <1>1, <1>2, <1>8 DEF IInv, TypeOK
  <2>2. B \in SUBSET Whole(u)
    BY <1>4, <2>1
  <2>3. target' = target
    <3>1. CASE fd[h] = "target"
      <4>1. target[dest[u]].at = Whole(u)
        BY <1>2, <1>6, <2>1, <3>1 DEF IInv, DeliveredIsWhole
      <4>2. target[dest[u]] \in [of : Upload \cup {None}, at : SUBSET Int]
        BY <1>6, <3>1 DEF IInv, TypeOK
      <4>3. target[dest[u]].at \cup B = target[dest[u]].at
        BY <2>2, <4>1
      <4>4. target[dest[u]] = [of |-> u, at |-> target[dest[u]].at \cup B]
        BY <1>6, <3>1, <4>2, <4>3, RowAsRecord
      <4>5. target \in [Target -> [of : Upload \cup {None}, at : SUBSET Int]]
        BY DEF IInv, TypeOK
      <4> QED  BY <1>6, <3>1, <4>4, <4>5
    <3> QED  BY <1>3, <3>1
  <2>4. CASE u \in over \/ temp' = temp
    BY <1>2, <1>5, <2>1, <2>3, <2>4, Unseen DEF Current
  <2>5. CASE u \notin over /\ temp' # temp
    <3>1. temp'[u] = temp[u] \cup B
      BY <1>2, <1>3, <2>5 DEF IInv, TypeOK
    <3>2. Current(u)
      BY <2>1, <2>5 DEF Current
    <3> QED  BY <1>2, <1>5, <2>1, <2>2, <2>3, <3>1, <3>2, ReceiveIsStep
  <2> QED  BY <2>4, <2>5
<1> QED  BY <1>7, <1>8

\* The end of a current upload, seen from Delivery.
LEMMA FinishIsSeen ==
    ASSUME IInv, NEW h \in Handler, pc[h] \in {"finalize", "persist"},
           up[h] \notin over \cup spoiled, over' = over \cup {up[h]},
           UNCHANGED <<dest, remote, spoiled>>,
           \A v \in Upload \ {up[h]} : temp'[v] = temp[v]
    PROVE  Promise!Finish(up[h])
<1>1. up[h] \in Upload
  BY DEF IInv, InPlace
<1>2. [v \in Upload |-> Received(v)]' = [[v \in Upload |-> Received(v)] EXCEPT ![up[h]] = {}]
  BY <1>1, ReceivedAfter
<1> QED  BY <1>2, AtFinalization DEF Promise!Finish

LEMMA FinalizeSimulates ==
    ASSUME IInv, NEW h \in Handler, Finalize(h)
    PROVE  PStep
<1> DEFINE u == up[h]
<1>1. /\ pc[h] = "finalize" /\ u \in Upload /\ dest[u] # None
      /\ UNCHANGED <<dest, temp, target, remote>>
  BY DEF Finalize, IInv, InPlace
<1>2. CASE UNCHANGED hist
  BY <1>1, <1>2, Unseen
<1>3. CASE spoiled' = spoiled \cup {u} /\ over' = over
  BY <1>1, <1>3, StrayIsStep
<1>4. CASE /\ over' = over \cup {u} /\ spoiled' = spoiled
           /\ dest[u] = Cloud \/ target[dest[u]].at # NoFile
  <2>1. CASE u \in spoiled
    BY <1>1, <1>4, <2>1, StrayIsStep
  <2>2. CASE u \in over
    BY <1>1, <1>4, <2>2, Unseen
  <2>3. CASE u \notin over \cup spoiled
    <3>1. Promise!Finish(u)
      BY <1>1, <1>4, <2>3, FinishIsSeen
    <3>2. Promise!Settle(u)
      BY <1>1, <1>4, <3>1 DEF Promise!Settle, Promise!NoFile, NoFile
    <3> QED  BY <1>1, <3>2 DEF PStep, Promise!DNext
  <2> QED  BY <2>1, <2>2, <2>3
<1> QED  BY <1>2, <1>3, <1>4 DEF Finalize

LEMMA PersistSimulates ==
    ASSUME IInv, NEW h \in Handler, Persist(h)
    PROVE  PStep
<1> DEFINE u == up[h]
<1>1. /\ pc[h] = "persist" /\ u \in Upload /\ dest[u] # None /\ dest[u] \in Target
      /\ UNCHANGED <<dest, remote, spoiled>>
  BY DEF Persist, IInv, InPlace
<1>2. CASE temp[u] = NoFile
  BY <1>1, <1>2, Unseen DEF Persist
<1>3. CASE temp[u] # NoFile
  <2>1. /\ target' = [target EXCEPT ![dest[u]] = [of |-> u, at |-> temp[u]]]
        /\ temp' = [temp EXCEPT ![u] = NoFile] /\ over' = over \cup {u}
    BY <1>3 DEF Persist
  <2>2. \A v \in Upload \ {u} : temp'[v] = temp[v]
    BY <1>1, <2>1 DEF IInv, TypeOK
  <2>3. CASE u \in spoiled
    <3>1. /\ target'[dest[u]].of = u
          /\ \A t \in Target \ {dest[u]} : target'[t] = target[t]
      BY <1>1, <2>1 DEF IInv, TypeOK
    <3>2. spoiled' = spoiled \cup {u} /\ over' \in {over, over \cup {u}}
      BY <1>1, <2>1, <2>3
    <3> QED  BY <1>1, <2>2, <3>1, <3>2, StrayIsStep
  <2>4. CASE u \notin spoiled
    <3>1. u \notin over
      BY <1>1, <2>4 DEF IInv, Once
    <3>2. temp[u] = Whole(u)
      BY <1>1, <2>4, <3>1, AtFinalization
    <3>3. Promise!Finish(u)
      BY <1>1, <2>1, <2>2, <2>4, <3>1, FinishIsSeen
    <3>4. Promise!Store(u)
      BY <1>1, <2>1, <3>2, <3>3 DEF Promise!Store, Promise!Whole, Whole
    <3> QED  BY <1>1, <3>4 DEF PStep, Promise!DNext
  <2> QED  BY <2>3, <2>4
<1> QED  BY <1>2, <1>3

LEMMA OthersSimulate ==
    ASSUME IInv, NEW h \in Handler, PatchStep(h)
    PROVE  PStep
<1>1. CASE GetLock(h) \/ TryLock(h) \/ Truncate(h) \/ Save(h) \/ CleanMeta(h)
           \/ Forget(h) \/ ScrubMeta(h) \/ EndLock(h)
  <2>1. UNCHANGED <<dest, temp, target, remote, over, spoiled>>
    BY <1>1 DEF GetLock, TryLock, Truncate, Save, SaveOr, CleanMeta, Forget,
                ScrubMeta, EndLock
  <2> QED  BY <2>1, Unseen
<1>2. CASE Open(h)
  <2>1. \A v \in Upload : dest[v] # None /\ Current(v) => temp'[v] = temp[v]
    BY <1>2 DEF Open, IInv, TypeOK, Bytes
  <2> QED  BY <1>2, <2>1, Unseen DEF Open
<1>3. CASE ScrubTemp(h)
  <2>1. ~Current(up[h])
    BY <1>3 DEF ScrubTemp, IInv, InPlace, Current
  <2>2. \A v \in Upload : dest[v] # None /\ Current(v) => temp'[v] = temp[v]
    BY <1>3, <2>1 DEF ScrubTemp, RemoveTemp, IInv, TypeOK
  <2> QED  BY <1>3, <2>2, Unseen DEF ScrubTemp
<1>4. CASE Copy(h) \/ Finalize(h) \/ Persist(h)
  BY <1>4, CopySimulates, FinalizeSimulates, PersistSimulates
<1> QED  BY <1>1, <1>2, <1>3, <1>4 DEF PatchStep

LEMMA NextSimulates == IInv /\ [Next]_vars => PStep
<1> SUFFICES ASSUME IInv, [Next]_vars PROVE PStep
  OBVIOUS
<1>1. ASSUME NEW u \in Upload, NEW d \in Target \cup {Cloud}, Create(u, d)
      PROVE  PStep
  BY <1>1, CreateSimulates
<1>2. ASSUME NEW u \in Upload, SyncDeliver(u) \/ SyncEnd(u)
      PROVE  PStep
  BY <1>2, SyncSimulates
<1>3. ASSUME NEW h \in Handler, NEW u \in Upload, DeleteLoad(h, u)
      PROVE  PStep
  <2>1. dest[u] # None
    BY <1>3 DEF DeleteLoad, IInv, Bytes
  <2> QED  BY <1>3, <2>1, StrayIsStep DEF DeleteLoad
<1>4. ASSUME NEW h \in Handler, NEW u \in Upload, PatchLoad(h, u)
      PROVE  PStep
  BY <1>4, Unseen DEF PatchLoad
<1>5. ASSUME NEW h \in Handler, PatchStep(h)
      PROVE  PStep
  BY <1>5, OthersSimulate
<1>6. CASE Crash \/ UNCHANGED vars
  BY <1>6, Unseen DEF Crash, vars
<1> QED  BY <1>1, <1>2, <1>3, <1>4, <1>5, <1>6 DEF Next

\* The upload API implements Delivery: however requests interleave in uploads.go,
\* connections are cut and the process dies, an upload is stored or refused once,
\* whole, and only when every byte was received, unless it was terminated, overrun
\* or failed at its end; and none changes what others have at other targets.
THEOREM UploadRefinement == Spec => ImplementsDelivery
<1>1. Init => Promise!DInit
  BY DEF Init, Received, Promise!DInit, Promise!NoFile, NoFile
<1>2. IInv /\ [Next]_vars => [Promise!DNext]_(Promise!dvars)
  BY NextSimulates DEF PStep
<1> QED  BY <1>1, <1>2, Invariance, PTL DEF Spec, ImplementsDelivery, Promise!DSpec

-----------------------------------------------------------------------------
(* Cloud, to the end of the module.  First, steps of one actor.            *)

HIDE DEF Patching, Point, Goto, files, locks, locals, hist

\* What the actors are at has its types.
Selves ==
    /\ where \in [Actor -> Points] /\ task \in [Actor -> Tasks]
    /\ at \in [Actor -> Storage \cup Session \cup {Nil}]
    /\ copy \in [Actor -> SUBSET Drive] /\ todo \subseteq Storage

Sessions == [Session -> [state : {"none", "pending", "success", "spent", "forgotten"},
                         storage : Drive \cup {Nil}]]

\* The broker and the row of the device, and what is known of them.
Device ==
    /\ conn \in [key : Key, registered : BOOLEAN] \cup {Nil}
    /\ known \in Key \cup {Nil}
    /\ session \in Sessions /\ Keys /\ RegisteredKnown

\* Everybody but one actor stays where they are.
Others(a) ==
    \A b \in Actor \ {a} : /\ where'[b] = where[b] /\ task'[b] = task[b]
                           /\ at'[b] = at[b] /\ copy'[b] = copy[b]

\* Of a deletion: the section is out, the storage is unmounted.
Late == {"tokens", "detach", "rows", "check", "remove"}
Bare == {"rows", "check", "remove"}

\* What CloudInv says of the actors and of the device.
LEMMA Parts == CloudInv => Selves /\ Device
BY DEF CloudInv, CloudTypeOK, Selves, Device, Sessions

\* An actor goes on to its next point.
LEMMA GoesToSelf ==
    ASSUME CloudInv, NEW a \in Actor, NEW point \in Points, GoesTo(a, point)
    PROVE  /\ Selves' /\ Others(a) /\ todo' = todo
           /\ where'[a] = point /\ task'[a] = task[a] /\ at'[a] = at[a] /\ copy'[a] = copy[a]
BY Parts DEF Selves, Others, GoesTo

\* An actor ends what it is at.
LEMMA EndSelf ==
    ASSUME CloudInv, NEW a \in Actor, End(a)
    PROVE  /\ Selves' /\ Others(a) /\ todo' = todo
           /\ where'[a] = "idle" /\ task'[a] = "none" /\ at'[a] = Nil /\ copy'[a] = {}
<1>1. Selves
  BY Parts
<1>2. where' \in [Actor -> Points] /\ task' \in [Actor -> Tasks]
  BY <1>1 DEF Selves, End, Points, Tasks
<1>3. /\ at' \in [Actor -> Storage \cup Session \cup {Nil}]
      /\ copy' \in [Actor -> SUBSET Drive] /\ todo' = todo
  BY <1>1 DEF Selves, End
<1> QED  BY <1>1, <1>2, <1>3 DEF Selves, Others, End

\* A request ends; the monitor goes on to the next storage of its list.
LEMMA LeaveSelf ==
    ASSUME CloudInv, NEW a \in Actor, Leave(a)
    PROVE  /\ Selves' /\ Others(a) /\ todo' = todo /\ at'[a] = Nil /\ copy'[a] = {}
           /\ where'[a] = (IF a = Monitor THEN "next" ELSE "idle")
           /\ task'[a] = (IF a = Monitor THEN task[a] ELSE "none")
<1>1. CASE a = Monitor
  <2>1. Selves
    BY Parts
  <2>2. where' \in [Actor -> Points] /\ task' = task /\ todo' = todo
    BY <1>1, <2>1 DEF Selves, Leave, Points
  <2>3. /\ at' \in [Actor -> Storage \cup Session \cup {Nil}]
        /\ copy' \in [Actor -> SUBSET Drive]
    BY <1>1, <2>1 DEF Selves, Leave
  <2> QED  BY <1>1, <2>1, <2>2, <2>3 DEF Selves, Others, Leave
<1>2. CASE a # Monitor
  BY <1>2, EndSelf DEF Leave
<1> QED  BY <1>1, <1>2

\* A request begins.
LEMMA BeginSelf ==
    ASSUME CloudInv, NEW a \in Actor, NEW what \in Tasks, NEW point \in Points,
           NEW subject \in Storage \cup Session \cup {Nil}, Begin(a, what, point, subject)
    PROVE  /\ Selves' /\ Others(a) /\ todo' = todo
           /\ where[a] = "idle" /\ task[a] = "none" /\ at[a] = Nil
           /\ where'[a] = point /\ task'[a] = what /\ at'[a] = subject /\ copy'[a] = {}
<1>1. Stands(a)
  BY DEF CloudInv
<1>2. where[a] = "idle" /\ task[a] = "none" /\ at[a] = Nil /\ copy[a] = {}
  BY <1>1 DEF Begin, Stands
<1> QED  BY <1>2, Parts DEF Selves, Others, Begin

\* A step that registers nothing keeps what is known of the device.
LEMMA DeviceKept ==
    ASSUME CloudInv, NEW a \in Actor, Others(a), UNCHANGED <<conn, known>>,
           session' \in Sessions, task'[a] = "start" => where'[a] \notin {"register", "mark"}
    PROVE  Device'
<1>1. Device
  BY Parts
<1>2. Keys'
  <2>1. \A b \in Actor : /\ At(b, "start", "register")' => At(b, "start", "register")
                         /\ At(b, "start", "mark")' => At(b, "start", "mark")
    BY DEF At, Others
  <2> QED  BY <1>1, <2>1 DEF Device, Keys
<1> QED  BY <1>1, <1>2 DEF Device, RegisteredKnown

\* Everybody stands where they may after a step of one who does.
LEMMA StandsKept ==
    ASSUME CloudInv, NEW a \in Actor, Others(a), Stands(a)'
    PROVE  \A b \in Actor : Stands(b)'
<1> SUFFICES ASSUME NEW b \in Actor, b # a PROVE Stands(b)'
  OBVIOUS
<1>1. Stands(b)
  BY DEF CloudInv
<1>2. where'[b] = where[b] /\ task'[b] = task[b] /\ at'[b] = at[b] /\ copy'[b] = copy[b]
  BY DEF Others
<1> QED  BY <1>1, <1>2 DEF Stands

\* A step of one actor that makes no storage.  It may unmount, take out a section
\* or a token, begin with a storage that has a row or that the monitor has listed;
\* it writes a section or mounts only where the storage is the actor's or the
\* section in its copy; it takes a row away only at the end of a deletion.
LEMMA Moves ==
    ASSUME CloudInv, NEW a \in Actor, met' = met \cup Meet,
           Selves', Others(a), Stands(a)', Device', born' = born,
           rows' = rows \/ (At(a, "delete", "rows") /\ rows' = rows \ {at[a]}
                            /\ at'[a] = at[a] /\ task'[a] = task[a]),
           tokens' \subseteq rows', tokens' \subseteq Drive, conf' \subseteq Drive,
           \A d \in conf' : \/ d \in conf \cup copy[a]
                            \/ d = at[a] /\ task[a] \in {"link", "bench", "monitor"},
           mount' \in [Storage -> {"none", "private", "shared"}],
           \A s \in Storage : \/ mount'[s] = mount[s] \/ mount'[s] = "none"
                              \/ s = at[a] /\ task[a] \in {"link", "monitor", "share"},
           wiped' \subseteq wiped \cup met' \cup stray', stray \subseteq stray',
           todo' \subseteq todo \cup rows, todo' \subseteq rows' \cup todo,
           copy'[a] \subseteq copy[a] \cup conf,
           task'[a] = "share" <=> task[a] = "share",
           task'[a] = "share" => at'[a] = at[a],
           at'[a] \in Storage => \/ task'[a] = task[a] /\ at'[a] = at[a]
                                 \/ at'[a] \in rows \cup (Share \cap todo),
           task'[a] = "delete" =>
                /\ where'[a] \in Late => \/ at'[a] \notin conf'
                                         \/ /\ task[a] = "delete" /\ at'[a] = at[a]
                                            /\ where[a] \in Late
                /\ where'[a] \in Bare => \/ mount'[at'[a]] = "none"
                                         \/ /\ task[a] = "delete" /\ at'[a] = at[a]
                                            /\ where[a] \in Bare
    PROVE  CloudInv'
<1>1. Selves /\ Device /\ Listed /\ Alone /\ Cleared /\ Vanished /\ FilesKept /\ CloudTypeOK
  BY Parts DEF CloudInv
<1>2. rows' \subseteq rows
  OBVIOUS
<1>3. CloudTypeOK' /\ Selves'
  BY <1>1, <1>2 DEF CloudTypeOK, Selves, Device, Sessions
<1>4. \A b \in Actor : Stands(b)' /\ Stands(b)
  BY StandsKept DEF CloudInv
<1>5. Listed'
  BY <1>1, <1>2 DEF Listed, Others
<1>6. Alone'
  <2> SUFFICES ASSUME NEW b \in Actor, task'[b] = "share"
               PROVE  at'[b] \notin rows' \cup todo' /\ \A c \in Actor \ {b} : at'[c] # at'[b]
    BY DEF Alone
  <2>1. task[b] = "share" /\ at'[b] = at[b]
    BY DEF Others
  <2>2. at[b] \notin rows \cup todo /\ \A c \in Actor \ {b} : at[c] # at[b]
    BY <1>1, <2>1 DEF Alone
  <2>3. at[b] \in Storage
    BY <1>4, <2>1 DEF Stands, Storage
  <2>4. ASSUME NEW c \in Actor \ {b}
        PROVE  at'[c] # at[b]
    BY <2>2, <2>3 DEF Others
  <2> QED  BY <1>2, <2>1, <2>2, <2>4
\* Whoever writes the section of a storage that another deletes, or mounts it,
\* meets the deletion.
<1>7. ASSUME NEW r \in Actor, r # a, task[r] = "delete", at[r] \notin met \cup Meet
      PROVE  /\ at[r] \notin copy[a] /\ at[r] \in Storage
             /\ at[r] = at[a] => task[a] \notin {"link", "bench", "monitor", "share"}
  <2>1. r \in Request /\ at[r] \in Storage
    BY <1>4, <1>7 DEF Stands, Storage
  <2>2. at[r] = at[a] => task[a] # "share"
    BY <1>1, <1>7 DEF Alone
  <2> QED  BY <1>7, <2>1, <2>2 DEF Meet
<1>8. Cleared'
  <2> SUFFICES ASSUME NEW r \in Actor, task'[r] = "delete", at'[r] \notin met'
               PROVE  /\ where'[r] \in Late => at'[r] \notin conf'
                      /\ where'[r] \in Bare => mount'[at'[r]] = "none"
    BY DEF Cleared, Late, Bare
  <2>1. at'[r] \notin met \cup Meet /\ at'[r] \in Storage
    BY <1>4 DEF Stands, Storage
  <2>2. CASE r # a
    <3>1. where'[r] = where[r] /\ task[r] = "delete" /\ at'[r] = at[r]
      BY <2>2 DEF Others
    <3>2. /\ where[r] \in Late => at[r] \notin conf
          /\ where[r] \in Bare => mount[at[r]] = "none"
      BY <1>1, <2>1, <3>1 DEF Cleared, Late, Bare
    <3> QED  BY <1>7, <2>1, <2>2, <3>1, <3>2
  <2>3. CASE r = a /\ task[a] = "delete" /\ at'[a] = at[a]
    <3>1. /\ where[a] \in Late => at[a] \notin conf
          /\ where[a] \in Bare => mount[at[a]] = "none"
      BY <1>1, <2>1, <2>3 DEF Cleared, Late, Bare
    <3>2. where[a] \in Late => copy[a] = {}
      BY <1>4, <2>3 DEF Stands, Late
    <3> QED  BY <2>1, <2>3, <3>1, <3>2
  <2>4. CASE r = a /\ ~ (task[a] = "delete" /\ at'[a] = at[a])
    BY <2>4
  <2> QED  BY <2>2, <2>3, <2>4
<1>9. Vanished'
  <2> SUFFICES ASSUME NEW s \in Storage, Lost(s)'
               PROVE  /\ s \notin conf' \cup (Share \cap todo') /\ mount'[s] = "none"
                      /\ \A b \in Actor :
                            /\ s \notin copy'[b]
                            /\ at'[b] = s => task'[b] \notin {"link", "monitor", "bench"}
    BY DEF Vanished
  <2>1. s \in born \ (rows' \cup met \cup Meet \cup stray)
        /\ \A b \in Actor : task[b] = "share" => at[b] # s
    BY DEF Lost, Others
  <2>2. CASE s \notin rows
    <3>1. Lost(s)
      BY <2>1, <2>2 DEF Lost
    <3>2. /\ s \notin conf \cup (Share \cap todo) /\ mount[s] = "none"
          /\ \A b \in Actor : /\ s \notin copy[b]
                              /\ at[b] = s => task[b] \notin {"link", "monitor", "bench"}
      BY <1>1, <3>1 DEF Vanished
    <3>3. ASSUME NEW b \in Actor
          PROVE  s \notin copy'[b] /\ (at'[b] = s => task'[b] \notin {"link", "monitor", "bench"})
      BY <2>2, <3>2 DEF Others
    <3> QED  BY <2>1, <2>2, <3>2, <3>3
  <2>3. CASE s \in rows
    <3>1. At(a, "delete", "rows") /\ s = at[a] /\ at'[a] = at[a] /\ task'[a] = task[a]
      BY <2>1, <2>3
    <3>2. a \in Request /\ copy[a] = {} /\ task[a] = "delete" /\ where[a] = "rows"
      BY <1>4, <3>1 DEF Stands, At
    <3>3. s \notin conf /\ mount[s] = "none"
      BY <1>1, <2>1, <3>1, <3>2 DEF Cleared
    <3>4. \A b \in Actor \ {a} :
            s \notin copy[b] /\ (at[b] = s => task[b] \notin {"link", "monitor", "bench"})
      BY <2>1, <3>1, <3>2 DEF Meet
    <3>5. s \notin Share \cap todo
      <4>1. Monitor \in Actor \ {a}
        BY <3>2, ActorAssumption DEF Actor
      <4> QED  BY <2>1, <3>1, <3>2, <4>1 DEF Meet
    <3>6. \A b \in Actor :
            s \notin copy'[b] /\ (at'[b] = s => task'[b] \notin {"link", "monitor", "bench"})
      BY <3>1, <3>2, <3>3, <3>4 DEF Others
    <3> QED  BY <2>1, <3>1, <3>2, <3>3, <3>5, <3>6
  <2> QED  BY <2>2, <2>3
<1>10. FilesKept'
  BY <1>1 DEF FilesKept
<1> QED  BY <1>3, <1>4, <1>5, <1>6, <1>8, <1>9, <1>10 DEF CloudInv, Selves, Device

\* The sets of actors and of ids are apart, and each actor has tasks of its own.
LEMMA Tasking ==
    ASSUME CloudInv
    PROVE  /\ Monitor \in Actor /\ Worker \in Actor /\ Request \subseteq Actor
           /\ task[Monitor] \in {"none", "monitor"}
           /\ \A r \in Request : r # Monitor /\ r # Worker /\ task[r] \notin {"monitor", "refresh"}
           /\ \A a \in Actor : Stands(a)
           /\ tokens \subseteq rows /\ tokens \subseteq Drive /\ rows \subseteq Storage
           /\ Nil \notin Storage /\ Session \cap Storage = {}
<1>1. Monitor \in Actor /\ Worker \in Actor /\ Request \subseteq Actor
  BY DEF Actor
<1>2. \A a \in Actor : Stands(a)
  BY DEF CloudInv
<1>3. \A r \in Request : r # Monitor /\ r # Worker
  BY ActorAssumption
<1>4. task[Monitor] \in {"none", "monitor"}
  BY <1>1, <1>2, <1>3, ActorAssumption DEF Stands
<1>5. \A r \in Request : task[r] \notin {"monitor", "refresh"}
  BY <1>1, <1>2, <1>3 DEF Stands
<1>6. tokens \subseteq rows /\ tokens \subseteq Drive /\ rows \subseteq Storage
  BY DEF CloudInv, Listed, CloudTypeOK
<1>7. Nil \notin Storage /\ Session \cap Storage = {}
  BY StorageAssumption
<1> QED  BY <1>1, <1>2, <1>3, <1>4, <1>5, <1>6, <1>7

\* A request that ends, or the monitor that goes on with its list.
LEMMA LeaveInv ==
    ASSUME CloudInv, NEW a \in Actor, met' = met \cup Meet, Leave(a),
           conn' = conn, known' = known, session' \in Sessions,
           a = Monitor => task[a] = "monitor", task[a] # "share",
           rows' = rows, born' = born, tokens' \subseteq rows, tokens' \subseteq Drive,
           conf' \subseteq conf, mount' \in [Storage -> {"none", "private", "shared"}],
           \A s \in Storage : mount'[s] = mount[s] \/ mount'[s] = "none",
           wiped' \subseteq wiped \cup met' \cup stray', stray \subseteq stray'
    PROVE  CloudInv'
<1>1. /\ Selves' /\ Others(a) /\ todo' = todo /\ at'[a] = Nil /\ copy'[a] = {}
      /\ where'[a] = (IF a = Monitor THEN "next" ELSE "idle")
      /\ task'[a] = (IF a = Monitor THEN task[a] ELSE "none")
  BY LeaveSelf
<1>2. Stands(a)'
  BY <1>1 DEF Stands
<1>3. Device'
  BY <1>1, DeviceKept
<1>4. at'[a] \notin Storage /\ task'[a] \notin {"share", "delete"}
  BY <1>1, Tasking
<1>5. conf' \subseteq Drive
  BY DEF CloudInv, CloudTypeOK
<1> QED  BY <1>1, <1>2, <1>3, <1>4, <1>5, Moves

\* A request that ends and has changed no storage.
LEMMA EndInv ==
    ASSUME CloudInv, NEW a \in Actor, a # Monitor, task[a] # "share", met' = met \cup Meet,
           End(a), UNCHANGED <<rows, born, disk, stray>>,
           tokens' \subseteq rows, tokens' \subseteq Drive,
           \/ conn' = conn /\ known' = known /\ session' \in Sessions
           \/ Device'
    PROVE  CloudInv'
<1>1. /\ Selves' /\ Others(a) /\ todo' = todo /\ at'[a] = Nil /\ copy'[a] = {}
      /\ where'[a] = "idle" /\ task'[a] = "none"
  BY EndSelf
<1>2. Stands(a)'
  BY <1>1 DEF Stands
<1>3. Device'
  BY <1>1, DeviceKept
<1>4. at'[a] \notin Storage
  BY <1>1, Tasking
<1>5. UNCHANGED <<conf, mount, wiped>> /\ conf' \subseteq Drive
      /\ mount' \in [Storage -> {"none", "private", "shared"}]
  BY DEF CloudInv, CloudTypeOK, disk
<1> QED  BY <1>1, <1>2, <1>3, <1>4, <1>5, Moves

\* A request that goes on with what it is at, and has changed no storage.
LEMMA GoOnInv ==
    ASSUME CloudInv, NEW a \in Actor, NEW point \in Points, GoesTo(a, point),
           met' = met \cup Meet, Stands(a)', task[a] # "delete",
           Device', UNCHANGED <<rows, born, disk, stray>>,
           tokens' \subseteq rows, tokens' \subseteq Drive
    PROVE  CloudInv'
<1>1. /\ Selves' /\ Others(a) /\ todo' = todo
      /\ where'[a] = point /\ task'[a] = task[a] /\ at'[a] = at[a] /\ copy'[a] = copy[a]
  BY GoesToSelf
<1>2. UNCHANGED <<conf, mount, wiped>> /\ conf' \subseteq Drive
      /\ mount' \in [Storage -> {"none", "private", "shared"}]
  BY DEF CloudInv, CloudTypeOK, disk
<1> QED  BY <1>1, <1>2, Moves

\* A request begins, for a storage that has a row or for none.
LEMMA BeginInv ==
    ASSUME CloudInv, NEW r \in Request, met' = met \cup Meet,
           NEW what \in {"start", "link", "bench", "delete"}, NEW point \in Points,
           NEW subject \in rows \cup Session \cup {Nil}, Begin(r, what, point, subject),
           Stands(r)', UNCHANGED <<broker, db, disk, born, stray>>,
           what = "start" => point = "connection",
           what = "delete" => point = "unmount" \/ (point = "detach" /\ subject \notin Drive)
    PROVE  CloudInv'
<1>1. r \in Actor /\ what \in Tasks /\ subject \in Storage \cup Session \cup {Nil}
  BY Tasking DEF Tasks
<1>2. /\ Selves' /\ Others(r) /\ todo' = todo
      /\ where[r] = "idle" /\ task[r] = "none" /\ at[r] = Nil
      /\ where'[r] = point /\ task'[r] = what /\ at'[r] = subject /\ copy'[r] = {}
  BY <1>1, BeginSelf
<1>3. UNCHANGED <<conf, mount, wiped, rows, tokens, conn, known, session>>
  BY DEF disk, db, broker
<1>4. /\ mount' \in [Storage -> {"none", "private", "shared"}] /\ conf' \subseteq Drive
      /\ session' \in Sessions
  BY <1>3 DEF CloudInv, CloudTypeOK, Sessions
<1>5. Device'
  BY <1>1, <1>2, <1>3, <1>4, DeviceKept
<1>6. subject \in Storage => subject \in rows
  BY Tasking
<1>7. task'[r] # "share" /\ task[r] # "share"
  BY <1>2
<1>8. ASSUME task'[r] = "delete"
      PROVE  where'[r] \notin Bare /\ (where'[r] \in Late => at'[r] \notin conf')
  BY <1>2, <1>4, <1>8 DEF Late, Bare
<1> QED  BY <1>1, <1>2, <1>3, <1>4, <1>5, <1>6, <1>7, <1>8, Tasking, Moves

-----------------------------------------------------------------------------
(* Linking.                                                                *)

\* StartCloudOAuth begins with a row of its provider, or with none.
LEMMA StartInv ==
    ASSUME CloudInv, met' = met \cup Meet, NEW r \in Request, StartCloudOAuth(r)
    PROVE  CloudInv'
<1>1. PICK s \in (rows \cap Drive) \cup {Nil} : Begin(r, "start", "connection", s)
  BY DEF StartCloudOAuth
<1>2. /\ s \in Storage \cup Session \cup {Nil} /\ "start" \in Tasks /\ "connection" \in Points
      /\ r \in Actor
  BY Tasking DEF Tasks, Points
<1>3. Stands(r)'
  BY <1>1, <1>2, BeginSelf DEF Stands
<1> QED  BY <1>1, <1>2, <1>3, BeginInv DEF StartCloudOAuth

\* Whoever goes on to register has read a row.
LEMMA GetConnectionInv ==
    ASSUME CloudInv, met' = met \cup Meet, NEW r \in Request, GetConnection(r)
    PROVE  CloudInv'
<1> DEFINE point == IF conn = Nil THEN "create"
                    ELSE IF conn.registered THEN "session" ELSE "register"
<1>1. point \in {"create", "session", "register"} /\ GoesTo(r, point) /\ r \in Actor
      /\ point \in Points /\ (point = "register" => conn # Nil)
      /\ UNCHANGED <<conn, known, session, rows, tokens, born, disk, stray>>
      /\ task[r] = "start"
  BY Tasking DEF GetConnection, Points, At, broker, db
<1> HIDE DEF point
<1>2. /\ Others(r) /\ where'[r] = point /\ task'[r] = task[r] /\ at'[r] = at[r]
      /\ copy'[r] = copy[r]
  BY <1>1, GoesToSelf
<1>3. Stands(r)'
  BY <1>1, <1>2, Tasking DEF Stands, GetConnection, At
<1>4. Device'
  <2>1. Device
    BY Parts
  <2>2. Keys'
    BY <1>1, <1>2, <2>1 DEF Device, Keys, At, Others
  <2> QED  BY <1>1, <2>1, <2>2 DEF Device, RegisteredKnown
<1> QED  BY <1>1, <1>3, <1>4, Tasking, GoOnInv

\* A row is saved only where there is none, so that nobody is marking one.
LEMMA SaveConnectionInv ==
    ASSUME CloudInv, met' = met \cup Meet, NEW r \in Request, NEW k \in Key,
           SaveConnection(r, k)
    PROVE  CloudInv'
<1>1. /\ r \in Actor /\ r # Monitor /\ task[r] = "start" /\ where[r] = "create"
      /\ "register" \in Points
      /\ UNCHANGED <<known, session, rows, tokens, born, disk, stray>>
  BY Tasking DEF SaveConnection, At, Points, db
<1>2. CASE End(r) /\ UNCHANGED conn
  <2>1. session' \in Sessions
    BY <1>1 DEF CloudInv, CloudTypeOK, Sessions
  <2> QED  BY <1>1, <1>2, <2>1, EndInv, Tasking
<1>3. CASE /\ conn = Nil /\ conn' = [key |-> k, registered |-> FALSE]
           /\ GoesTo(r, "register")
  <2>1. /\ Others(r) /\ where'[r] = "register" /\ task'[r] = task[r] /\ at'[r] = at[r]
        /\ copy'[r] = copy[r]
    BY <1>1, <1>3, GoesToSelf
  <2>2. Stands(r)'
    BY <1>1, <2>1, Tasking DEF Stands
  <2>3. Device'
    <3>1. Device
      BY Parts
    <3>2. conn' # Nil /\ conn' \in [key : Key, registered : BOOLEAN] /\ ~ conn'.registered
      <4>1. conn' \in [key : Key, registered : BOOLEAN]
        BY <1>3
      <4>2. ~ conn'.registered
        BY <1>3, Zenon
      <4> QED  BY <4>1, <4>2, KeyAssumption
    <3>3. known = Nil /\ \A b \in Actor : ~ At(b, "start", "mark")
      BY <1>3, <3>1 DEF Device, Keys
    <3>4. \A b \in Actor : At(b, "start", "mark")' => At(b, "start", "mark")
      BY <2>1 DEF At, Others
    <3>5. Keys'
      BY <1>1, <3>2, <3>3, <3>4 DEF Keys
    <3> QED  BY <1>1, <3>1, <3>2, <3>5 DEF Device, RegisteredKnown
  <2> QED  BY <1>1, <1>3, <2>2, <2>3, GoOnInv, Tasking
<1> QED  BY <1>2, <1>3 DEF SaveConnection, Fail

\* The key that the broker comes to know is that of the row.
LEMMA RegisterDeviceInv ==
    ASSUME CloudInv, met' = met \cup Meet, NEW r \in Request, RegisterDevice(r)
    PROVE  CloudInv'
<1>1. /\ r \in Actor /\ r # Monitor /\ task[r] = "start" /\ where[r] = "register"
      /\ "mark" \in Points
      /\ UNCHANGED <<conn, session, rows, tokens, born, disk, stray>>
      /\ known' \in {known, conn.key}
  BY Tasking DEF RegisterDevice, At, Points, db
<1>2. Device /\ conn # Nil /\ conn.key \in Key
  <2>1. At(r, "start", "register")
    BY DEF RegisterDevice
  <2> QED  BY <1>1, <2>1, Parts DEF Device, Keys
<1>3. ASSUME Others(r), task'[r] = "start" => where'[r] = "mark" /\ known' = conn.key
      PROVE  Device'
  <2>1. \A b \in Actor : /\ At(b, "start", "register")' => At(b, "start", "register")
                         /\ At(b, "start", "mark")' => At(b, "start", "mark") \/ known' = conn.key
    BY <1>3 DEF At, Others
  <2>2. known' # Nil => conn.key = known'
    BY <1>1, <1>2 DEF Device, Keys
  <2>3. Keys'
    BY <1>1, <1>2, <2>1, <2>2 DEF Device, Keys
  <2>4. RegisteredKnown'
    BY <1>1, <1>2 DEF Device, RegisteredKnown
  <2> QED  BY <1>1, <1>2, <2>3, <2>4 DEF Device
<1>4. CASE End(r)
  <2>1. Device'
    BY <1>1, <1>3, <1>4, EndSelf
  <2> QED  BY <1>1, <1>4, <2>1, EndInv, Tasking
<1>5. CASE known' = conn.key /\ GoesTo(r, "mark")
  <2>1. /\ Others(r) /\ where'[r] = "mark" /\ task'[r] = task[r] /\ at'[r] = at[r]
        /\ copy'[r] = copy[r]
    BY <1>1, <1>5, GoesToSelf
  <2>2. Stands(r)'
    BY <1>1, <2>1, Tasking DEF Stands
  <2>3. Device'
    BY <1>3, <1>5, <2>1
  <2> QED  BY <1>1, <1>5, <2>2, <2>3, GoOnInv, Tasking
<1> QED  BY <1>4, <1>5 DEF RegisterDevice, Fail

\* Whoever marks the row has had its key registered.
LEMMA MarkRegisteredInv ==
    ASSUME CloudInv, met' = met \cup Meet, NEW r \in Request, MarkRegistered(r)
    PROVE  CloudInv'
<1>1. /\ r \in Actor /\ r # Monitor /\ task[r] = "start" /\ where[r] = "mark"
      /\ "session" \in Points
      /\ UNCHANGED <<known, session, rows, tokens, born, disk, stray>>
  BY Tasking DEF MarkRegistered, At, Points, db
<1>2. Device /\ conn # Nil /\ conn.key = known
  <2>1. At(r, "start", "mark")
    BY DEF MarkRegistered
  <2> QED  BY <1>1, <2>1, Parts DEF Device, Keys
<1>3. CASE End(r) /\ UNCHANGED conn
  <2>1. session' \in Sessions
    BY <1>1 DEF CloudInv, CloudTypeOK, Sessions
  <2> QED  BY <1>1, <1>3, <2>1, EndInv, Tasking
<1>4. CASE conn' = [conn EXCEPT !.registered = TRUE] /\ GoesTo(r, "session")
  <2>1. /\ Others(r) /\ where'[r] = "session" /\ task'[r] = task[r] /\ at'[r] = at[r]
        /\ copy'[r] = copy[r]
    BY <1>1, <1>4, GoesToSelf
  <2>2. Stands(r)'
    BY <1>1, <2>1, Tasking DEF Stands
  <2>3. conn' \in [key : Key, registered : BOOLEAN] /\ conn'.key = conn.key /\ conn' # Nil
    BY <1>2, <1>4, KeyAssumption DEF Device
  <2>4. Device'
    <3>1. \A b \in Actor : At(b, "start", "mark")' => At(b, "start", "mark")
      BY <1>1, <2>1 DEF At, Others
    <3>2. Keys'
      BY <1>1, <1>2, <2>3, <3>1 DEF Device, Keys
    <3> QED  BY <1>1, <1>2, <2>3, <3>2 DEF Device, RegisteredKnown
  <2> QED  BY <1>1, <1>4, <2>2, <2>4, GoOnInv, Tasking
<1> QED  BY <1>3, <1>4 DEF MarkRegistered, Fail

\* The type of the sessions, and what a session is for.
LEMMA SessionType ==
    ASSUME CloudInv
    PROVE  /\ session \in Sessions
           /\ \A x \in Session : session[x].storage \in Drive \cup {Nil}
           /\ \A x \in Session, state \in {"pending", "success", "spent", "forgotten"} :
                [session EXCEPT ![x].state = state] \in Sessions
BY DEF CloudInv, CloudTypeOK, Sessions

\* A session of the broker is made for the storage of the request.
LEMMA CreateSessionInv ==
    ASSUME CloudInv, met' = met \cup Meet, NEW r \in Request, NEW x \in Session,
           CreateSession(r, x)
    PROVE  CloudInv'
<1>1. /\ r \in Actor /\ r # Monitor /\ task[r] = "start" /\ End(r)
      /\ UNCHANGED <<conn, known, rows, tokens, born, disk, stray>>
  BY Tasking DEF CreateSession, At, db
<1>2. at[r] \in Drive \cup {Nil}
  BY <1>1, Tasking DEF Stands
<1>3. session' \in Sessions
  BY <1>2, SessionType DEF CreateSession, Sessions
<1> QED  BY <1>1, <1>3, Tasking, EndInv

\* The user consents at the broker: no actor takes a step.
LEMMA ConsentInv ==
    ASSUME CloudInv, met' = met \cup Meet, NEW x \in Session, Consent(x)
    PROVE  CloudInv'
<1>1. /\ UNCHANGED <<conn, known, rows, tokens, conf, mount, wiped, where, task, at, copy, todo>>
      /\ UNCHANGED <<born, stray>>
  BY DEF Consent, db, disk, self
<1>2. session' \in Sessions
  BY SessionType DEF Consent
<1>3. Others(Monitor) /\ Selves'
  BY <1>1, Parts DEF Others, Selves
<1>4. Device'
  BY <1>1, <1>2, Parts DEF Device, Keys, RegisteredKnown, At
<1>5. Stands(Monitor)' /\ task[Monitor] \notin {"share", "delete"}
  BY <1>1, Tasking DEF Stands
<1>6. conf \subseteq Drive /\ mount \in [Storage -> {"none", "private", "shared"}]
  BY DEF CloudInv, CloudTypeOK
<1> QED  BY <1>1, <1>3, <1>4, <1>5, <1>6, Tasking, Moves

\* CompleteCloudOAuth begins with a session.
LEMMA CompleteInv ==
    ASSUME CloudInv, met' = met \cup Meet, NEW r \in Request, NEW x \in Session,
           CompleteCloudOAuth(r, x)
    PROVE  CloudInv'
<1>1. Begin(r, "link", "status", x)
  BY DEF CompleteCloudOAuth
<1>2. /\ x \in Storage \cup Session \cup {Nil} /\ "link" \in Tasks /\ "status" \in Points
      /\ r \in Actor
  BY Tasking DEF Tasks, Points
<1>3. Stands(r)'
  BY <1>1, <1>2, BeginSelf, Tasking DEF Stands
<1> QED  BY <1>1, <1>2, <1>3, BeginInv DEF CompleteCloudOAuth

\* The status of a session is read.
LEMMA StatusInv ==
    ASSUME CloudInv, met' = met \cup Meet, NEW r \in Request, Status(r)
    PROVE  CloudInv'
<1>1. /\ r \in Actor /\ r # Monitor /\ task[r] = "link" /\ where[r] = "status"
      /\ UNCHANGED <<conn, known, session, rows, tokens, born, disk, stray>>
      /\ session' \in Sessions /\ "exchange" \in Points
  BY Tasking, SessionType DEF Status, At, db, broker, Points
<1>2. CASE End(r)
  BY <1>1, <1>2, Tasking, EndInv
<1>3. CASE GoesTo(r, "exchange")
  <2>1. /\ Others(r) /\ where'[r] = "exchange" /\ task'[r] = task[r] /\ at'[r] = at[r]
        /\ copy'[r] = copy[r]
    BY <1>1, <1>3, GoesToSelf
  <2>2. Stands(r)'
    BY <1>1, <2>1, Tasking DEF Stands
  <2>3. Device'
    BY <1>1, <2>1, DeviceKept
  <2> QED  BY <1>1, <1>3, <2>2, <2>3, Tasking, GoOnInv
<1> QED  BY <1>2, <1>3 DEF Status, Fail

\* A session is exchanged once, whether or not its answer arrives.
LEMMA ExchangeInv ==
    ASSUME CloudInv, met' = met \cup Meet, NEW r \in Request, Exchange(r)
    PROVE  CloudInv'
<1>1. /\ r \in Actor /\ r # Monitor /\ task[r] = "link" /\ where[r] = "exchange"
      /\ UNCHANGED <<conn, known, rows, tokens, born, disk, stray>> /\ "store" \in Points
  BY Tasking DEF Exchange, At, db, Points
<1>2. at[r] \in Session
  BY <1>1, Tasking DEF Stands
<1>3. session' \in Sessions
  BY <1>2, SessionType DEF Exchange
<1>4. CASE End(r)
  BY <1>1, <1>3, <1>4, Tasking, EndInv
<1>5. CASE GoesTo(r, "store")
  <2>1. /\ Others(r) /\ where'[r] = "store" /\ task'[r] = task[r] /\ at'[r] = at[r]
        /\ copy'[r] = copy[r]
    BY <1>1, <1>5, GoesToSelf
  <2>2. Stands(r)'
    BY <1>1, <2>1, Tasking DEF Stands
  <2>3. Device'
    BY <1>1, <1>3, <2>1, DeviceKept
  <2> QED  BY <1>1, <1>5, <2>2, <2>3, Tasking, GoOnInv
<1> QED  BY <1>4, <1>5 DEF Exchange, Fail

\* A token is saved only while its row is there.
LEMMA SaveTokenInv ==
    ASSUME CloudInv, met' = met \cup Meet, NEW r \in Request, SaveToken(r)
    PROVE  CloudInv'
<1>1. /\ r \in Actor /\ r # Monitor /\ task[r] = "link" /\ where[r] = "token"
      /\ UNCHANGED <<conn, known, session, rows, born, disk, stray>>
      /\ session' \in Sessions /\ "config" \in Points
  BY Tasking, SessionType DEF SaveToken, At, broker, Points
<1>2. at[r] \in Drive
  BY <1>1, Tasking DEF Stands
<1>3. tokens' \subseteq rows /\ tokens' \subseteq Drive
  BY <1>2, Tasking DEF SaveToken
<1>4. CASE End(r)
  BY <1>1, <1>3, <1>4, Tasking, EndInv
<1>5. CASE GoesTo(r, "config")
  <2>1. /\ Others(r) /\ where'[r] = "config" /\ task'[r] = task[r] /\ at'[r] = at[r]
        /\ copy'[r] = copy[r]
    BY <1>1, <1>5, GoesToSelf
  <2>2. Stands(r)'
    BY <1>1, <1>2, <2>1, Tasking DEF Stands
  <2>3. Device'
    BY <1>1, <2>1, DeviceKept
  <2> QED  BY <1>1, <1>3, <1>5, <2>2, <2>3, GoOnInv
<1> QED  BY <1>4, <1>5 DEF SaveToken, Fail

\* A refreshed token is saved only while its row is there.
LEMMA PersistRefreshedInv ==
    ASSUME CloudInv, met' = met \cup Meet, PersistRefreshed
    PROVE  CloudInv'
<1>1. /\ task[Worker] = "refresh" /\ End(Worker) /\ Worker # Monitor
      /\ UNCHANGED <<conn, known, session, rows, born, disk, stray>>
      /\ session' \in Sessions
  BY SessionType, ActorAssumption DEF PersistRefreshed, At, broker
<1>2. at[Worker] \in Drive
  BY <1>1, Tasking DEF Stands
<1>3. tokens' \subseteq rows /\ tokens' \subseteq Drive
  BY <1>2, Tasking DEF PersistRefreshed
<1> QED  BY <1>1, <1>3, Tasking, EndInv

\* An actor takes up a storage that has a row and that it may be at.
LEMMA TakesUpInv ==
    ASSUME CloudInv, NEW a \in Actor, met' = met \cup Meet,
           Selves', Others(a), Stands(a)', UNCHANGED <<broker, db, disk, born, stray, todo>>,
           task'[a] \in {"link", "refresh"}, task[a] # "share", at'[a] \in rows,
           copy'[a] = copy[a]
    PROVE  CloudInv'
<1>1. UNCHANGED <<conf, mount, wiped, rows, tokens, conn, known, session>>
  BY DEF disk, db, broker
<1>2. /\ mount' \in [Storage -> {"none", "private", "shared"}] /\ conf' \subseteq Drive
      /\ session' \in Sessions
  BY <1>1, SessionType DEF CloudInv, CloudTypeOK
<1>3. Device'
  BY <1>1, <1>2, DeviceKept
<1> QED  BY <1>1, <1>2, <1>3, Tasking, Moves

\* The upload worker refreshes the token of a storage with a row.
LEMMA StartRefreshInv ==
    ASSUME CloudInv, met' = met \cup Meet, NEW s \in Drive, StartRefresh(s)
    PROVE  CloudInv'
<1>1. /\ task[Worker] = "none" /\ s \in rows /\ Worker \in Actor /\ Worker # Monitor
      /\ UNCHANGED <<broker, db, disk, born, stray, copy, todo>>
  BY Tasking, ActorAssumption DEF StartRefresh
<1>2. /\ where' = [where EXCEPT ![Worker] = "token"]
      /\ task' = [task EXCEPT ![Worker] = "refresh"] /\ at' = [at EXCEPT ![Worker] = s]
  BY DEF StartRefresh
<1>3. Selves
  BY Parts
<1>4. where' \in [Actor -> Points] /\ task' \in [Actor -> Tasks]
  BY <1>1, <1>2, <1>3 DEF Selves, Points, Tasks
<1>5. at' \in [Actor -> Storage \cup Session \cup {Nil}]
  BY <1>1, <1>2, <1>3 DEF Selves, Storage
<1>6. Selves' /\ Others(Worker)
  BY <1>1, <1>2, <1>3, <1>4, <1>5 DEF Selves, Others
<1>7. /\ where'[Worker] = "token" /\ task'[Worker] = "refresh" /\ at'[Worker] = s
      /\ copy'[Worker] = copy[Worker]
  BY <1>1, <1>2, <1>3 DEF Selves
<1>8. Stands(Worker)'
  BY <1>1, <1>7, Tasking DEF Stands
<1> QED  BY <1>1, <1>6, <1>7, <1>8, TakesUpInv

\* A storage is reconnected, or made with an id not given before.
LEMMA CreateOrReconnectInv ==
    ASSUME CloudInv, met' = met \cup Meet, NEW r \in Request, NEW s \in Drive,
           CreateOrReconnect(r, s)
    PROVE  CloudInv'
<1>1. /\ r \in Actor /\ r # Monitor /\ task[r] = "link" /\ where[r] = "store"
      /\ UNCHANGED <<broker, tokens, disk, stray>>
  BY Tasking DEF CreateOrReconnect, At
<1>2. CASE End(r) /\ UNCHANGED <<rows, born>>
  <2>1. UNCHANGED <<conn, known>> /\ session' \in Sessions
    BY <1>1, SessionType DEF broker
  <2> QED  BY <1>1, <1>2, <2>1, Tasking, EndInv
<1>3. CASE /\ where' = [where EXCEPT ![r] = "token"] /\ at' = [at EXCEPT ![r] = s]
           /\ UNCHANGED <<task, copy, todo>>
           /\ \/ s \in rows /\ UNCHANGED <<rows, born>>
              \/ s \notin born /\ rows' = rows \cup {s} /\ born' = born \cup {s}
  <2>1. Selves
    BY Parts
  <2>2. where' \in [Actor -> Points]
    BY <1>1, <1>3, <2>1 DEF Selves, Points
  <2>3. at' \in [Actor -> Storage \cup Session \cup {Nil}]
    BY <1>1, <1>3, <2>1 DEF Selves, Storage
  <2>4. Selves' /\ Others(r)
    BY <1>3, <2>1, <2>2, <2>3 DEF Selves, Others
  <2>5. /\ where'[r] = "token" /\ task'[r] = "link" /\ at'[r] = s /\ copy'[r] = copy[r]
    BY <1>1, <1>3, <2>1 DEF Selves
  <2>6. Stands(r)'
    BY <1>1, <2>5, Tasking DEF Stands
  <2>7. CASE s \in rows /\ UNCHANGED <<rows, born>>
    <3>1. UNCHANGED <<db, todo>>
      BY <1>1, <1>3, <2>7 DEF db
    <3> QED  BY <1>1, <2>4, <2>5, <2>6, <2>7, <3>1, TakesUpInv
  <2>8. CASE s \notin born /\ rows' = rows \cup {s} /\ born' = born \cup {s}
    <3> USE DEF CloudInv
    <3>1. /\ UNCHANGED <<conn, known, session, conf, mount, wiped, tokens, stray, todo>>
          /\ s \in Storage
      BY <1>1, <1>3 DEF broker, disk, Storage
    <3>2. Device'
      BY <1>1, <2>4, <2>5, <3>1, DeviceKept, SessionType
    <3>3. \A b \in Actor : Stands(b)'
      BY <2>4, <2>6, <1>1, StandsKept
    <3>4. CloudTypeOK'
      BY <2>4, <2>8, <3>1 DEF CloudTypeOK, Selves
    <3>5. Listed'
      BY <2>4, <2>5, <2>8, <3>1 DEF Listed, Others
    <3>6. Alone'
      <4>1. \A b \in Actor : task'[b] = "share" => b # r /\ task[b] = "share" /\ at'[b] = at[b]
        BY <2>4, <2>5 DEF Others
      <4>2. \A b \in Actor : task[b] = "share" => at[b] \in born /\ at[b] \notin rows \cup todo
        BY Tasking DEF Stands, Listed, Storage, Alone
      <4>3. \A b \in Actor : task[b] = "share" => \A c \in Actor \ {b} : at'[c] # at[b]
        BY <2>4, <2>5, <2>8, <4>2 DEF Alone, Others
      <4> QED  BY <2>8, <3>1, <4>1, <4>2, <4>3 DEF Alone
    <3>7. Cleared'
      BY <2>4, <2>5, <3>1 DEF Cleared, Others
    <3>8. Vanished'
      <4> SUFFICES ASSUME NEW t \in Storage, Lost(t)'
                   PROVE  /\ t \notin conf \cup (Share \cap todo) /\ mount[t] = "none"
                          /\ \A b \in Actor :
                                /\ t \notin copy'[b]
                                /\ at'[b] = t => task'[b] \notin {"link", "monitor", "bench"}
        BY <3>1 DEF Vanished
      <4>1. Lost(t) /\ t # s
        BY <1>1, <2>4, <2>8, <3>1 DEF Lost, Others
      <4> QED  BY <2>4, <2>5, <4>1 DEF Vanished, Others
    <3>9. FilesKept' /\ where' \in [Actor -> Points] /\ task' \in [Actor -> Tasks]
      BY <2>4, <3>1 DEF FilesKept, Selves
    <3> QED  BY <3>2, <3>3, <3>4, <3>5, <3>6, <3>7, <3>8, <3>9 DEF Device
  <2> QED  BY <1>3, <2>7, <2>8
<1> QED  BY <1>2, <1>3 DEF CreateOrReconnect, Fail

-----------------------------------------------------------------------------
(* The configuration of rclone and the mounts.                             *)

\* A benchmark begins with a storage that has a token.
LEMMA BenchmarkInv ==
    ASSUME CloudInv, met' = met \cup Meet, NEW r \in Request, NEW s \in Storage, Benchmark(r, s)
    PROVE  CloudInv'
<1>1. Begin(r, "bench", "config", s) /\ s \in tokens
  BY DEF Benchmark
<1>2. "bench" \in Tasks /\ "config" \in Points /\ r \in Actor /\ s \in rows /\ s \in Drive
  BY <1>1, Tasking DEF Tasks, Points
<1>3. Stands(r)'
  BY <1>1, <1>2, BeginSelf DEF Stands
<1> QED  BY <1>1, <1>2, <1>3, BeginInv DEF Benchmark

\* What a step leaves alone keeps its type.
LEMMA DiskType ==
    ASSUME CloudInv
    PROVE  /\ conf \subseteq Drive /\ mount \in [Storage -> {"none", "private", "shared"}]
           /\ wiped \subseteq wiped \cup met \cup stray
BY DEF CloudInv, CloudTypeOK

\* The sections are read, or none of them while another actor writes.
LEMMA ReadConfigInv ==
    ASSUME CloudInv, met' = met \cup Meet, NEW a \in Actor, ReadConfig(a)
    PROVE  CloudInv'
<1>1. /\ where[a] = "config"
      /\ UNCHANGED <<conn, known, session, rows, tokens, conf, mount, wiped, born, stray>>
  BY DEF ReadConfig, broker, db, disk
<1>2. /\ task[a] \in {"link", "bench", "monitor", "delete"} /\ at[a] \in Drive
      /\ (task[a] = "monitor" <=> a = Monitor)
  BY <1>1, Tasking DEF Stands
<1>3. CASE Leave(a)
  BY <1>1, <1>2, <1>3, LeaveInv, DiskType, SessionType, Tasking
<1>4. CASE TakeConfig(a)
  <2>1. PICK sections \in {conf} \cup {{} : b \in {b \in Actor \ {a} : Writing(b)}} :
          copy' = [copy EXCEPT ![a] = sections]
    BY <1>4 DEF TakeConfig
  <2>2. sections \subseteq conf /\ sections \subseteq Drive
    BY <2>1, DiskType
  <2>3. Selves
    BY Parts
  <2>4. where' \in [Actor -> Points] /\ UNCHANGED <<task, at, todo>>
    BY <1>4, <2>3 DEF Selves, TakeConfig, Points
  <2>5. copy' \in [Actor -> SUBSET Drive] /\ copy'[a] = sections /\ where'[a] = "write"
    BY <1>4, <2>1, <2>2, <2>3 DEF Selves, TakeConfig
  <2>6. Selves' /\ Others(a)
    BY <1>4, <2>1, <2>3, <2>4, <2>5 DEF Selves, Others, TakeConfig
  <2>7. Stands(a)'
    BY <1>2, <2>4, <2>5, Tasking DEF Stands
  <2>8. Device'
    BY <1>1, <1>2, <2>4, <2>6, DeviceKept, SessionType
  <2>9. where'[a] \notin Late /\ where'[a] \notin Bare
    BY <2>5 DEF Late, Bare
  <2> QED  BY <1>1, <1>2, <2>2, <2>4, <2>5, <2>6, <2>7, <2>8, <2>9, DiskType, Tasking, Moves
<1> QED  BY <1>3, <1>4 DEF ReadConfig

\* The sections that were read are written, with that of the storage or without.
LEMMA WriteConfigInv ==
    ASSUME CloudInv, met' = met \cup Meet, NEW a \in Actor, WriteConfig(a)
    PROVE  CloudInv'
<1>1. /\ where[a] = "write"
      /\ UNCHANGED <<conn, known, session, rows, tokens, mount, wiped, born, stray>>
  BY DEF WriteConfig, Writing, broker, db
<1>2. /\ task[a] \in {"link", "bench", "monitor", "delete"} /\ at[a] \in Drive
      /\ (task[a] = "monitor" <=> a = Monitor)
  BY <1>1, Tasking DEF Stands
<1>3. CASE conf' \in {conf, {}} /\ Leave(a)
  BY <1>1, <1>2, <1>3, LeaveInv, DiskType, SessionType, Tasking
<1>4. CASE ~ (conf' \in {conf, {}} /\ Leave(a))
  <2>1. /\ conf' = IF task[a] = "delete" THEN copy[a] \ {at[a]} ELSE copy[a] \cup {at[a]}
        /\ \/ task[a] = "bench" /\ End(a)
           \/ /\ task[a] # "bench" /\ copy' = [copy EXCEPT ![a] = {}]
              /\ where' = [where EXCEPT ![a] = IF task[a] = "delete" THEN "tokens" ELSE "look"]
              /\ UNCHANGED <<task, at, todo>>
    BY <1>4 DEF WriteConfig
  <2>2. copy[a] \subseteq Drive /\ Selves
    BY Parts DEF Selves
  <2>3. /\ conf' \subseteq Drive
        /\ \A d \in conf' : \/ d \in conf \cup copy[a]
                            \/ d = at[a] /\ task[a] \in {"link", "bench", "monitor"}
        /\ task[a] = "delete" => at[a] \notin conf'
    BY <1>2, <2>1, <2>2
  <2>4. CASE task[a] = "bench" /\ End(a)
    <3>1. /\ Selves' /\ Others(a) /\ todo' = todo
          /\ where'[a] = "idle" /\ task'[a] = "none" /\ at'[a] = Nil /\ copy'[a] = {}
      BY <2>4, EndSelf
    <3>2. Stands(a)'
      BY <3>1 DEF Stands
    <3>3. Device'
      BY <1>1, <3>1, DeviceKept, SessionType
    <3> QED  BY <1>1, <1>2, <2>3, <2>4, <3>1, <3>2, <3>3, DiskType, Tasking, Moves
  <2>5. CASE ~ (task[a] = "bench" /\ End(a))
    <3> DEFINE point == IF task[a] = "delete" THEN "tokens" ELSE "look"
    <3>1. task[a] # "bench" /\ UNCHANGED <<task, at, todo>> /\ copy' = [copy EXCEPT ![a] = {}]
          /\ where' = [where EXCEPT ![a] = point]
      BY <2>1, <2>5
    <3>2. where' \in [Actor -> Points] /\ copy' \in [Actor -> SUBSET Drive]
      BY <2>2, <3>1 DEF Selves, Points
    <3>3. Selves' /\ Others(a) /\ copy'[a] = {} /\ where'[a] = point
      BY <2>2, <3>1, <3>2 DEF Selves, Others
    <3>4. Stands(a)'
      BY <1>2, <3>1, <3>3, Tasking DEF Stands, Storage
    <3>5. Device'
      BY <1>1, <1>2, <3>1, <3>3, DeviceKept, SessionType
    <3>6. where'[a] \notin Bare
      BY <3>3 DEF Bare
    <3> QED  BY <1>1, <1>2, <2>3, <3>1, <3>3, <3>4, <3>5, <3>6, DiskType, Tasking, Moves
  <2> QED  BY <2>4, <2>5
<1> QED  BY <1>3, <1>4

\* An actor that looks at a mount is at a storage that it links, watches or
\* creates.
LEMMA Looking ==
    ASSUME CloudInv, NEW a \in Actor, where[a] \in {"look", "mount"}
    PROVE  /\ task[a] \in {"link", "monitor", "share"} /\ at[a] \in Storage
           /\ (task[a] = "monitor" <=> a = Monitor) /\ (task[a] = "share" => at[a] \in Share)
           /\ (task[a] = "link" => at[a] \in Drive) /\ copy[a] = {}
BY Tasking DEF Stands, Storage

\* What happens to the actor at the end of its look, or of its mounting.
LEMMA LookSelf ==
    ASSUME CloudInv, NEW a \in Actor, where[a] \in {"look", "mount"},
           Mounted(a) \/ NotMounted(a) \/ (GoesTo(a, "mount") /\ where[a] = "look")
    PROVE  /\ Selves' /\ Others(a) /\ Stands(a)' /\ todo' = todo /\ copy'[a] = {}
           /\ (task'[a] = "share" <=> task[a] = "share") /\ task'[a] \notin {"delete", "start"}
           /\ (task'[a] = task[a] /\ at'[a] = at[a]) \/ (at'[a] = Nil /\ task[a] # "share")
<1>1. /\ task[a] \in {"link", "monitor", "share"} /\ at[a] \in Storage
      /\ (task[a] = "monitor" <=> a = Monitor) /\ (task[a] = "share" => at[a] \in Share)
      /\ (task[a] = "link" => at[a] \in Drive) /\ copy[a] = {}
  BY Looking
<1>2. CASE \E point \in {"add", "undo", "mount"} :
              GoesTo(a, point) /\ (task[a] = "share" \/ point = "mount")
  <2>1. PICK point \in {"add", "undo", "mount"} :
              GoesTo(a, point) /\ (task[a] = "share" \/ point = "mount")
    BY <1>2
  <2>2. point \in Points
    BY DEF Points
  <2>3. /\ Selves' /\ Others(a) /\ todo' = todo
        /\ where'[a] = point /\ task'[a] = task[a] /\ at'[a] = at[a] /\ copy'[a] = copy[a]
    BY <2>1, <2>2, GoesToSelf
  <2>4. Stands(a)'
    BY <1>1, <2>1, <2>3, Tasking DEF Stands
  <2> QED  BY <1>1, <2>3, <2>4
<1>3. CASE Leave(a) /\ task[a] # "share"
  <2>1. /\ Selves' /\ Others(a) /\ todo' = todo /\ at'[a] = Nil /\ copy'[a] = {}
        /\ where'[a] = (IF a = Monitor THEN "next" ELSE "idle")
        /\ task'[a] = (IF a = Monitor THEN task[a] ELSE "none")
    BY <1>3, LeaveSelf
  <2>2. Stands(a)'
    BY <1>1, <2>1 DEF Stands
  <2> QED  BY <1>1, <1>3, <2>1, <2>2
<1> QED  BY <1>2, <1>3 DEF Mounted, NotMounted

\* A look, and mounting, keep the invariant whatever they do to the mount.
LEMMA LookInv ==
    ASSUME CloudInv, met' = met \cup Meet, NEW a \in Actor, where[a] \in {"look", "mount"},
           Mounted(a) \/ NotMounted(a) \/ (GoesTo(a, "mount") /\ where[a] = "look"),
           UNCHANGED <<broker, db, conf, wiped, born, stray>>,
           NEW how \in {"none", "private", "shared"},
           mount' = mount \/ mount' = [mount EXCEPT ![at[a]] = how]
    PROVE  CloudInv'
<1>1. UNCHANGED <<conn, known, session, rows, tokens>>
  BY DEF broker, db
<1>2. task[a] \in {"link", "monitor", "share"} /\ at[a] \in Storage
  BY Looking
<1>3. /\ Selves' /\ Others(a) /\ Stands(a)' /\ todo' = todo /\ copy'[a] = {}
      /\ (task'[a] = "share" <=> task[a] = "share") /\ task'[a] \notin {"delete", "start"}
      /\ (task'[a] = task[a] /\ at'[a] = at[a]) \/ (at'[a] = Nil /\ task[a] # "share")
  BY LookSelf
<1>4. Device'
  BY <1>1, <1>3, DeviceKept, SessionType
<1>5. /\ mount' \in [Storage -> {"none", "private", "shared"}]
      /\ \A s \in Storage : mount'[s] = mount[s] \/ s = at[a]
  BY <1>2, DiskType
<1> QED  BY <1>1, <1>2, <1>3, <1>4, <1>5, DiskType, Tasking, Moves

\* A look at the mount of a drive may unmount it.
LEMMA LookDriveInv ==
    ASSUME CloudInv, met' = met \cup Meet, NEW a \in Actor, LookDrive(a)
    PROVE  CloudInv'
<1>1. /\ where[a] = "look" /\ UNCHANGED <<broker, db, conf, wiped, born, stray>>
      /\ mount' = mount \/ mount' = [mount EXCEPT ![at[a]] = "none"]
      /\ Mounted(a) \/ NotMounted(a) \/ GoesTo(a, "mount")
  BY DEF LookDrive
<1> QED  BY <1>1, LookInv

\* A look at the mount of a share changes nothing.
LEMMA LookShareInv ==
    ASSUME CloudInv, met' = met \cup Meet, NEW a \in Actor, LookShare(a)
    PROVE  CloudInv'
<1>1. /\ where[a] = "look" /\ UNCHANGED <<broker, db, conf, wiped, born, stray>>
      /\ mount' = mount
      /\ Mounted(a) \/ NotMounted(a) \/ GoesTo(a, "mount")
  BY DEF LookShare, disk
<1> QED  BY <1>1, LookInv

\* Mounting changes the mount of the storage of the actor at most.
LEMMA MountInv ==
    ASSUME CloudInv, met' = met \cup Meet, NEW a \in Actor, MountDrive(a) \/ MountShare(a)
    PROVE  CloudInv'
<1>1. /\ where[a] = "mount" /\ UNCHANGED <<broker, db, conf, wiped, born, stray>>
      /\ mount' = mount \/ mount' = [mount EXCEPT ![at[a]] = "shared"]
      /\ Mounted(a) \/ NotMounted(a)
  BY DEF TryMount, MountDrive, MountShare
<1> QED  BY <1>1, LookInv

-----------------------------------------------------------------------------
(* Network storages.                                                       *)

\* A share is given an id nobody has been at.
LEMMA CreateNetworkInv ==
    ASSUME CloudInv, met' = met \cup Meet, NEW r \in Request, NEW s \in Storage,
           CreateNetworkStorage(r, s)
    PROVE  CloudInv'
<1> USE DEF CloudInv
<1>1. /\ s \in Share \ born /\ Begin(r, "share", "look", s) /\ born' = born \cup {s}
      /\ UNCHANGED <<conn, known, session, rows, tokens, conf, mount, wiped, stray>>
  BY DEF CreateNetworkStorage, broker, db, disk
<1>2. r \in Actor /\ "share" \in Tasks /\ "look" \in Points /\ s \in Storage \cup Session \cup {Nil}
  BY Tasking DEF Tasks, Points
<1>3. /\ Selves' /\ Others(r) /\ todo' = todo
      /\ where[r] = "idle" /\ task[r] = "none" /\ at[r] = Nil
      /\ where'[r] = "look" /\ task'[r] = "share" /\ at'[r] = s /\ copy'[r] = {}
  BY <1>1, <1>2, BeginSelf
<1>4. Stands(r)'
  BY <1>1, <1>3 DEF Stands
<1>5. \A b \in Actor : Stands(b)'
  BY <1>2, <1>3, <1>4, StandsKept
<1>6. Device'
  BY <1>1, <1>2, <1>3, DeviceKept, SessionType
<1>7. CloudTypeOK'
  BY <1>1, <1>3 DEF CloudTypeOK, Selves
<1>8. Listed'
  BY <1>1, <1>3 DEF Listed, Others
<1>9. Alone'
  <2>1. \A b \in Actor \ {r} : at'[b] = at[b] /\ task'[b] = task[b] /\ at[b] # s
    BY <1>1, <1>3 DEF Listed, Others
  <2>2. s \notin rows \cup todo
    BY <1>1 DEF Listed
  <2> QED  BY <1>1, <1>3, <2>1, <2>2 DEF Alone
<1>10. Cleared'
  BY <1>1, <1>3 DEF Cleared, Others
<1>11. Vanished'
  <2> SUFFICES ASSUME NEW t \in Storage, Lost(t)'
               PROVE  /\ t \notin conf \cup (Share \cap todo) /\ mount[t] = "none"
                      /\ \A b \in Actor :
                            /\ t \notin copy'[b]
                            /\ at'[b] = t => task'[b] \notin {"link", "monitor", "bench"}
    BY <1>1, <1>3 DEF Vanished
  <2>1. t # s
    BY <1>2, <1>3 DEF Lost
  <2>2. Lost(t)
    BY <1>1, <1>3, <2>1 DEF Lost, Others
  <2> QED  BY <1>3, <2>1, <2>2 DEF Vanished, Others
<1>12. FilesKept' /\ where' \in [Actor -> Points] /\ task' \in [Actor -> Tasks]
  BY <1>1, <1>3 DEF FilesKept, Selves
<1> QED  BY <1>5, <1>6, <1>7, <1>8, <1>9, <1>10, <1>11, <1>12 DEF Device

\* A creation ends: the share has its row, or is unmounted, or is known to stray.
LEMMA CreationEnds ==
    ASSUME CloudInv, met' = met \cup Meet, NEW r \in Request, End(r), task[r] = "share",
           UNCHANGED <<conn, known, session, tokens, conf, born>>,
           rows' = rows \/ rows' = rows \cup {at[r]},
           mount' = mount \/ mount' = [mount EXCEPT ![at[r]] = "none"],
           at[r] \in rows' \/ at[r] \in stray' \/ mount'[at[r]] = "none",
           stray \subseteq stray', wiped' \subseteq wiped \cup stray'
    PROVE  CloudInv'
<1> USE DEF CloudInv
<1> DEFINE s == at[r]
<1>1. r \in Actor /\ s \in Share /\ s \in Storage /\ s \in born /\ s \notin rows \cup todo
      /\ s \notin Drive
  BY Tasking, StorageAssumption DEF Stands, Storage, Listed, Alone
<1>2. \A b \in Actor \ {r} : at[b] # s
  BY <1>1 DEF Alone
<1>3. /\ Selves' /\ Others(r) /\ todo' = todo
      /\ where'[r] = "idle" /\ task'[r] = "none" /\ at'[r] = Nil /\ copy'[r] = {}
  BY <1>1, EndSelf
<1>4. Stands(r)' /\ Nil \notin Storage
  BY <1>3, Tasking DEF Stands
<1>5. \A b \in Actor : Stands(b)' /\ at'[b] # s
  BY <1>1, <1>2, <1>3, <1>4, StandsKept DEF Others
<1>6. Device'
  BY <1>1, <1>3, DeviceKept, SessionType
<1>7. /\ mount' \in [Storage -> {"none", "private", "shared"}]
      /\ \A t \in Storage \ {s} : mount'[t] = mount[t]
  BY <1>1, DiskType
<1>8. CloudTypeOK'
  BY <1>1, <1>3, <1>6, <1>7 DEF CloudTypeOK, Selves
<1>9. Listed'
  BY <1>1, <1>3, <1>4 DEF Listed, Others
<1>10. Alone'
  <2>1. \A b \in Actor : task'[b] = "share" => b # r /\ task[b] = "share" /\ at'[b] = at[b]
    BY <1>3 DEF Others
  <2>2. \A b \in Actor : task[b] = "share" => at[b] \in Storage /\ at[b] \notin rows \cup todo
    BY <1>1, Tasking DEF Stands, Storage, Alone
  <2>3. \A b \in Actor \ {r} : task[b] = "share" => \A c \in Actor \ {b} : at'[c] # at[b]
    BY <1>3, <1>4, <2>2 DEF Alone, Others
  <2> QED  BY <1>2, <1>3, <2>1, <2>2, <2>3 DEF Alone
<1>11. Cleared'
  <2> SUFFICES ASSUME NEW b \in Actor, task'[b] = "delete", at'[b] \notin met'
               PROVE  /\ where'[b] \in Late => at'[b] \notin conf'
                      /\ where'[b] \in Bare => mount'[at'[b]] = "none"
    BY DEF Cleared, Late, Bare
  <2>1. b # r /\ where'[b] = where[b] /\ task[b] = "delete" /\ at'[b] = at[b] /\ at[b] # s
    BY <1>2, <1>3 DEF Others
  <2>2. at[b] \in Storage
    BY <2>1, Tasking DEF Stands, Storage
  <2> QED  BY <1>7, <2>1, <2>2 DEF Cleared, Late, Bare
<1>12. Vanished'
  <2> SUFFICES ASSUME NEW t \in Storage, Lost(t)'
               PROVE  /\ t \notin conf \cup (Share \cap todo) /\ mount'[t] = "none"
                      /\ \A b \in Actor :
                            /\ t \notin copy'[b]
                            /\ at'[b] = t => task'[b] \notin {"link", "monitor", "bench"}
    BY <1>3 DEF Vanished
  <2>1. CASE t = s
    <3>1. t \notin conf /\ \A b \in Actor : t \notin copy'[b]
      BY <1>1, <1>3, <2>1, DiskType DEF Selves
    <3>2. mount'[t] = "none"
      BY <2>1 DEF Lost
    <3> QED  BY <1>1, <1>5, <2>1, <3>1, <3>2
  <2>2. CASE t # s
    <3>1. Lost(t)
      BY <1>3, <2>2 DEF Lost, Others
    <3> QED  BY <1>3, <1>4, <1>7, <2>2, <3>1 DEF Vanished, Others
  <2> QED  BY <2>1, <2>2
<1>13. FilesKept' /\ where' \in [Actor -> Points] /\ task' \in [Actor -> Tasks]
  BY <1>3 DEF FilesKept, Selves
<1> QED  BY <1>5, <1>6, <1>8, <1>9, <1>10, <1>11, <1>12, <1>13 DEF Device

\* The row of a share is added, or its mount is to be undone.
LEMMA AddShareInv ==
    ASSUME CloudInv, met' = met \cup Meet, NEW r \in Request, AddShare(r)
    PROVE  CloudInv'
<1>1. /\ task[r] = "share" /\ where[r] = "add" /\ r \in Actor /\ "undo" \in Points
      /\ UNCHANGED <<conn, known, session, tokens, conf, mount, wiped, born, stray, disk>>
  BY Tasking DEF AddShare, At, broker, disk, Points
<1>2. CASE rows' = rows \cup {at[r]} /\ End(r)
  BY <1>1, <1>2, CreationEnds
<1>3. CASE GoesTo(r, "undo") /\ UNCHANGED rows
  <2>1. /\ Others(r) /\ where'[r] = "undo" /\ task'[r] = task[r] /\ at'[r] = at[r]
        /\ copy'[r] = copy[r]
    BY <1>1, <1>3, GoesToSelf
  <2>2. Stands(r)'
    BY <1>1, <2>1, Tasking DEF Stands
  <2>3. Device'
    BY <1>1, <2>1, DeviceKept, SessionType
  <2> QED  BY <1>1, <1>3, <2>2, <2>3, Tasking, GoOnInv
<1> QED  BY <1>2, <1>3 DEF AddShare

\* A creation that undoes its mount and fails to leaves the share astray.
LEMMA CleanupInv ==
    ASSUME CloudInv, met' = met \cup Meet, NEW r \in Request, CleanupMountPath(r)
    PROVE  CloudInv'
<1>1. /\ task[r] = "share" /\ End(r) /\ r \in Actor /\ where[r] = "undo"
      /\ UNCHANGED <<conn, known, session, rows, tokens, conf, born>>
  BY Tasking DEF CleanupMountPath, At, broker, db
<1>2. at[r] \in Storage
  BY <1>1, Tasking DEF Stands, Storage
<1>3. CASE mount' = [mount EXCEPT ![at[r]] = "none"] /\ UNCHANGED <<wiped, stray>>
  <2>1. mount'[at[r]] = "none"
    BY <1>2, <1>3, DiskType
  <2> QED  BY <1>1, <1>3, <2>1, CreationEnds
<1>4. CASE UNCHANGED mount /\ wiped' = wiped \cup {at[r]} /\ stray' = stray \cup {at[r]}
  BY <1>1, <1>4, CreationEnds
<1> QED  BY <1>3, <1>4 DEF CleanupMountPath

-----------------------------------------------------------------------------
(* Deletion.                                                               *)

\* A deletion begins with a storage that has a row.
LEMMA DeletePoolInv ==
    ASSUME CloudInv, met' = met \cup Meet, NEW r \in Request, NEW s \in Storage, DeletePool(r, s)
    PROVE  CloudInv'
<1> DEFINE point == IF s \in Drive THEN "unmount" ELSE "detach"
<1>1. Begin(r, "delete", point, s) /\ s \in rows /\ "delete" \in Tasks /\ point \in Points
      /\ r \in Actor
  BY Tasking DEF DeletePool, Tasks, Points
<1>2. Stands(r)'
  BY <1>1, BeginSelf DEF Stands
<1> QED  BY <1>1, <1>2, BeginInv DEF DeletePool

\* A deletion goes on, having unmounted the storage or taken its token or its row.
LEMMA DeleteGoesOn ==
    ASSUME CloudInv, met' = met \cup Meet, NEW r \in Request, NEW point \in Points,
           GoesTo(r, point), task[r] = "delete",
           UNCHANGED <<conn, known, conf, wiped, born, stray>>, session' \in Sessions,
           \/ point \in {"config", "detach", "rows"} /\ rows' = rows
           \/ point \in {"check", "remove"} /\ rows' = rows
           \/ point = "check" /\ where[r] = "rows" /\ rows' = rows \ {at[r]},
           tokens' \subseteq tokens \cap rows',
           mount' = mount \/ mount' = [mount EXCEPT ![at[r]] = "none"],
           point = "config" => at[r] \in Drive /\ where[r] = "unmount",
           point # "config" => where[r] \in Late,
           point \in Bare => where[r] \in Bare \/ mount'[at[r]] = "none"
    PROVE  CloudInv'
<1>1. r \in Actor
  BY Tasking
<1>2. /\ Selves' /\ Others(r) /\ todo' = todo
      /\ where'[r] = point /\ task'[r] = task[r] /\ at'[r] = at[r] /\ copy'[r] = copy[r]
  BY <1>1, GoesToSelf
<1>3. at[r] \in Storage /\ copy'[r] \subseteq copy[r]
  BY <1>1, <1>2, Tasking DEF Stands, Storage
<1>4. Stands(r)'
  <2>1. where[r] # "write" => copy[r] = {}
    BY <1>1, Tasking DEF Stands
  <2>2. where[r] # "write"
    BY DEF Late
  <2>3. /\ point \in {"config", "detach", "rows", "check", "remove"}
        /\ point = "config" => at[r] \in Drive
    OBVIOUS
  <2>4. /\ where'[r] = point /\ task'[r] = "delete" /\ at'[r] = at[r] /\ copy'[r] = {}
        /\ r \in Request
    BY <1>2, <2>1, <2>2
  <2> QED  BY <1>3, <2>3, <2>4, Tasking DEF Stands
<1>5. Device'
  BY <1>1, <1>2, DeviceKept
<1>6. /\ mount' \in [Storage -> {"none", "private", "shared"}]
      /\ \A s \in Storage : mount'[s] = mount[s] \/ mount'[s] = "none"
  BY <1>3, DiskType
<1>7. rows' = rows \/ (At(r, "delete", "rows") /\ rows' = rows \ {at[r]}
                       /\ at'[r] = at[r] /\ task'[r] = task[r])
  BY <1>2 DEF At
<1>8. todo' \subseteq rows' \cup todo /\ tokens' \subseteq rows' /\ tokens' \subseteq Drive
  BY <1>2, Tasking
<1>9. /\ where'[r] \in Late => where[r] \in Late
      /\ where'[r] \in Bare => where[r] \in Bare \/ mount'[at'[r]] = "none"
  BY <1>2 DEF Late
<1> QED  BY <1>1, <1>2, <1>3, <1>4, <1>5, <1>6, <1>7, <1>8, <1>9, DiskType, Moves

\* A deletion that cannot unmount a drive ends.
LEMMA UnmountInv ==
    ASSUME CloudInv, met' = met \cup Meet, NEW r \in Request, Unmount(r)
    PROVE  CloudInv'
<1>1. /\ task[r] = "delete" /\ where[r] = "unmount" /\ r \in Actor /\ r # Monitor
      /\ "config" \in Points
      /\ UNCHANGED <<conn, known, session, rows, tokens, conf, wiped, born, stray>>
      /\ mount' = mount \/ mount' = [mount EXCEPT ![at[r]] = "none"]
  BY Tasking DEF Unmount, At, broker, db, Points
<1>2. at[r] \in Drive /\ at[r] \in Storage
  BY <1>1, Tasking DEF Stands, Storage
<1>3. CASE End(r) /\ UNCHANGED mount
  <2>1. UNCHANGED disk
    BY <1>1, <1>3 DEF disk
  <2> QED  BY <1>1, <1>3, <2>1, EndInv, SessionType, Tasking
<1>4. CASE GoesTo(r, "config")
  <2>1. "config" \notin Bare
    BY DEF Bare
  <2> QED  BY <1>1, <1>2, <1>4, <2>1, DeleteGoesOn, SessionType, Tasking
<1> QED  BY <1>3, <1>4 DEF Unmount, Fail

\* The sessions of the storage are forgotten with its token.
LEMMA DropTokensInv ==
    ASSUME CloudInv, met' = met \cup Meet, NEW r \in Request, DropTokens(r)
    PROVE  CloudInv'
<1>1. /\ task[r] = "delete" /\ where[r] = "tokens" /\ r \in Actor /\ r # Monitor
      /\ "detach" \in Points /\ tokens' \subseteq tokens
      /\ UNCHANGED <<conn, known, rows, conf, mount, wiped, born, stray, disk>>
  BY Tasking DEF DropTokens, At, disk, Points
<1>2. session' \in Sessions
  <2>1. CASE session' = [x \in Session |->
                    IF session[x].storage # at[r] \/ session[x].state = "spent"
                    THEN session[x] ELSE [session[x] EXCEPT !.state = "forgotten"]]
    <3>1. ASSUME NEW x \in Session
          PROVE  /\ session[x] \in [state : {"none", "pending", "success", "spent", "forgotten"},
                                    storage : Drive \cup {Nil}]
                 /\ [session[x] EXCEPT !.state = "forgotten"]
                      \in [state : {"none", "pending", "success", "spent", "forgotten"},
                           storage : Drive \cup {Nil}]
      BY SessionType DEF Sessions
    <3> QED  BY <2>1, <3>1 DEF Sessions
  <2>2. CASE UNCHANGED session
    BY <2>2, SessionType
  <2> QED  BY <2>1, <2>2 DEF DropTokens
<1>3. CASE End(r)
  BY <1>1, <1>2, <1>3, EndInv, Tasking
<1>4. CASE GoesTo(r, "detach")
  <2>1. "detach" \notin Bare /\ where[r] \in Late
    BY <1>1 DEF Bare, Late
  <2> QED  BY <1>1, <1>2, <1>4, <2>1, DeleteGoesOn, Tasking
<1> QED  BY <1>3, <1>4 DEF DropTokens, Fail

\* A deletion that cannot detach the storage ends; else it is unmounted.
LEMMA DetachInv ==
    ASSUME CloudInv, met' = met \cup Meet, NEW r \in Request, Detach(r)
    PROVE  CloudInv'
<1>1. /\ task[r] = "delete" /\ where[r] = "detach" /\ r \in Actor /\ r # Monitor
      /\ "rows" \in Points
      /\ UNCHANGED <<conn, known, session, rows, tokens, conf, wiped, born, stray>>
  BY Tasking DEF Detach, At, broker, db, Points
<1>2. at[r] \in Storage /\ where[r] \in Late
  BY <1>1, Tasking DEF Stands, Storage, Late
<1>3. CASE End(r) /\ UNCHANGED mount
  <2>1. UNCHANGED disk
    BY <1>1, <1>3 DEF disk
  <2> QED  BY <1>1, <1>3, <2>1, EndInv, SessionType, Tasking
<1>4. CASE mount' = [mount EXCEPT ![at[r]] = "none"] /\ GoesTo(r, "rows")
  <2>1. mount'[at[r]] = "none"
    BY <1>2, <1>4, DiskType
  <2> QED  BY <1>1, <1>2, <1>4, <2>1, DeleteGoesOn, SessionType, Tasking
<1> QED  BY <1>3, <1>4 DEF Detach, Fail

\* The row and the token go together, and no section and no mount is left.
LEMMA DeleteRowsInv ==
    ASSUME CloudInv, met' = met \cup Meet, NEW r \in Request, DeleteRows(r)
    PROVE  CloudInv'
<1>1. /\ task[r] = "delete" /\ where[r] = "rows" /\ r \in Actor /\ r # Monitor
      /\ "check" \in Points /\ where[r] \in Late /\ where[r] \in Bare
      /\ UNCHANGED <<conn, known, session, conf, mount, wiped, born, stray, disk>>
  BY Tasking DEF DeleteRows, At, broker, disk, Points, Late, Bare
<1>2. CASE End(r) /\ UNCHANGED db
  <2>1. UNCHANGED <<rows, tokens>>
    BY <1>2 DEF db
  <2> QED  BY <1>1, <1>2, <2>1, EndInv, SessionType, Tasking
<1>3. CASE rows' = rows \ {at[r]} /\ tokens' = tokens \ {at[r]} /\ GoesTo(r, "check")
  <2>1. tokens' \subseteq tokens \cap rows'
    BY <1>3, Tasking
  <2> QED  BY <1>1, <1>3, <2>1, DeleteGoesOn, SessionType
<1> QED  BY <1>2, <1>3 DEF DeleteRows, Fail

\* The path is looked at before it is removed.
LEMMA CheckPathInv ==
    ASSUME CloudInv, met' = met \cup Meet, NEW r \in Request, CheckPath(r)
    PROVE  CloudInv'
<1>1. /\ task[r] = "delete" /\ where[r] = "check" /\ r \in Actor /\ r # Monitor
      /\ "remove" \in Points /\ where[r] \in Late /\ where[r] \in Bare
      /\ UNCHANGED <<conn, known, session, rows, tokens, conf, mount, wiped, born, stray, disk>>
  BY Tasking DEF CheckPath, At, broker, db, disk, Points, Late, Bare
<1>2. CASE End(r)
  BY <1>1, <1>2, EndInv, SessionType, Tasking
<1>3. CASE GoesTo(r, "remove")
  BY <1>1, <1>3, DeleteGoesOn, SessionType, Tasking
<1> QED  BY <1>2, <1>3 DEF CheckPath, Fail

\* What is removed is not mounted, unless another actor was at it.
LEMMA RemovePathInv ==
    ASSUME CloudInv, met' = met \cup Meet, NEW r \in Request, RemovePath(r)
    PROVE  CloudInv'
<1>1. /\ task[r] = "delete" /\ where[r] = "remove" /\ r \in Actor /\ r # Monitor /\ End(r)
      /\ UNCHANGED <<conn, known, session, rows, tokens, conf, mount, born, stray>>
      /\ wiped' = IF mount[at[r]] = "none" THEN wiped ELSE wiped \cup {at[r]}
  BY Tasking DEF RemovePath, At, broker, db
<1>2. at[r] \notin met \cup Meet => mount[at[r]] = "none"
  BY <1>1 DEF CloudInv, Cleared
<1>3. wiped' \subseteq wiped \cup met' \cup stray'
  BY <1>1, <1>2
<1>4. Leave(r)
  BY <1>1 DEF Leave
<1> QED  BY <1>1, <1>3, <1>4, LeaveInv, SessionType, DiskType, Tasking

-----------------------------------------------------------------------------
(* The monitor, and what befalls the machine.                              *)

\* The monitor lists the rows there are.
LEMMA ListStoragesInv ==
    ASSUME CloudInv, met' = met \cup Meet, ListStorages
    PROVE  CloudInv'
<1>1. /\ where[Monitor] = "idle" /\ todo' = rows /\ Monitor \in Actor
      /\ where' = [where EXCEPT ![Monitor] = "next"] /\ task' = [task EXCEPT ![Monitor] = "monitor"]
      /\ UNCHANGED <<at, copy, conn, known, session, rows, tokens, conf, mount, wiped, born, stray>>
  BY Tasking DEF ListStorages, broker, db, disk
<1>2. Selves /\ rows \subseteq Storage
  BY Parts, Tasking
<1>3. where' \in [Actor -> Points] /\ task' \in [Actor -> Tasks]
  BY <1>1, <1>2 DEF Selves, Points, Tasks
<1>4. Selves' /\ Others(Monitor)
  BY <1>1, <1>2, <1>3 DEF Selves, Others
<1>5. /\ where'[Monitor] = "next" /\ task'[Monitor] = "monitor" /\ at[Monitor] = Nil
      /\ copy[Monitor] = {} /\ task[Monitor] = "none"
  BY <1>1, <1>2, Tasking DEF Selves, Stands
<1>6. Stands(Monitor)'
  BY <1>1, <1>5 DEF Stands
<1>7. Device'
  BY <1>1, <1>4, <1>5, DeviceKept, SessionType
<1> QED  BY <1>1, <1>4, <1>5, <1>6, <1>7, DiskType, Tasking, Moves

\* The monitor takes up a storage of its list, or passes over it.
LEMMA CheckStorageInv ==
    ASSUME CloudInv, met' = met \cup Meet, NEW s \in Storage, CheckStorage(s)
    PROVE  CloudInv'
<1>1. /\ task[Monitor] = "monitor" /\ where[Monitor] = "next" /\ Monitor \in Actor
      /\ s \in todo /\ todo' = todo \ {s}
      /\ UNCHANGED <<task, copy, conn, known, session, rows, tokens, conf, mount, wiped>>
      /\ UNCHANGED <<born, stray>>
  BY Tasking DEF CheckStorage, At, broker, db, disk
<1>2. Selves /\ Nil \notin Storage /\ at[Monitor] = Nil /\ copy[Monitor] = {}
  BY <1>1, Parts, Tasking DEF Stands
<1>3. CASE UNCHANGED <<where, at>>
  <2>1. Selves' /\ Others(Monitor)
    BY <1>1, <1>2, <1>3 DEF Selves, Others
  <2>2. Stands(Monitor)'
    BY <1>1, <1>3, Tasking DEF Stands
  <2>3. Device'
    BY <1>1, <2>1, DeviceKept, SessionType
  <2> QED  BY <1>1, <1>2, <1>3, <2>1, <2>2, <2>3, DiskType, Tasking, Moves
<1>4. CASE /\ at' = [at EXCEPT ![Monitor] = s]
           /\ \/ s \in Share /\ where' = [where EXCEPT ![Monitor] = "look"]
              \/ s \in tokens /\ where' = [where EXCEPT ![Monitor] = "config"]
  <2>1. where' \in [Actor -> Points] /\ at' \in [Actor -> Storage \cup Session \cup {Nil}]
    BY <1>2, <1>4 DEF Selves, Points
  <2>2. Selves' /\ Others(Monitor)
    BY <1>1, <1>2, <1>4, <2>1 DEF Selves, Others
  <2>3. at'[Monitor] = s /\ (\/ s \in Share /\ where'[Monitor] = "look"
                             \/ s \in tokens /\ where'[Monitor] = "config")
    BY <1>1, <1>2, <1>4 DEF Selves
  <2>4. Stands(Monitor)'
    BY <1>1, <1>2, <2>3, Tasking DEF Stands
  <2>5. Device'
    BY <1>1, <2>2, DeviceKept, SessionType
  <2>6. s \in rows \cup (Share \cap todo)
    BY <1>1, <2>3, Tasking
  <2> QED  BY <1>1, <2>2, <2>3, <2>4, <2>5, <2>6, DiskType, Tasking, Moves
<1> QED  BY <1>3, <1>4 DEF CheckStorage

\* The monitor is through with its list.
LEMMA CheckedAllInv ==
    ASSUME CloudInv, met' = met \cup Meet, CheckedAll
    PROVE  CloudInv'
<1>1. /\ task[Monitor] = "monitor" /\ Monitor \in Actor /\ End(Monitor)
      /\ UNCHANGED <<conn, known, session, rows, tokens, conf, mount, wiped, born, stray>>
  BY Tasking DEF CheckedAll, At, broker, db, disk
<1>2. /\ Selves' /\ Others(Monitor) /\ todo' = todo
      /\ where'[Monitor] = "idle" /\ task'[Monitor] = "none" /\ at'[Monitor] = Nil
      /\ copy'[Monitor] = {}
  BY <1>1, EndSelf
<1>3. Stands(Monitor)'
  BY <1>2 DEF Stands
<1>4. Device'
  BY <1>1, <1>2, DeviceKept, SessionType
<1> QED  BY <1>1, <1>2, <1>3, <1>4, DiskType, Tasking, Moves

\* The process dies: whoever was creating a share leaves it astray.
LEMMA DieInv ==
    ASSUME CloudInv, met' = met \cup Meet, Die
    PROVE  CloudInv'
<1> USE DEF CloudInv
<1>1. /\ where' = [a \in Actor |-> "idle"] /\ task' = [a \in Actor |-> "none"]
      /\ at' = [a \in Actor |-> Nil] /\ copy' = [a \in Actor |-> {}] /\ todo' = {}
      /\ conf' \subseteq conf /\ mount' \in {mount, [s \in Storage |-> "none"]}
      /\ stray' = stray \cup {at[a] : a \in {a \in Actor : task[a] = "share"}}
      /\ UNCHANGED <<conn, known, session, rows, tokens, wiped, born>>
  BY DEF Die, broker, db
<1>2. Selves'
  BY <1>1 DEF Selves, Points, Tasks
<1>3. \A a \in Actor : Stands(a)'
  BY <1>1 DEF Stands
<1>4. Device'
  <2>1. Device
    BY Parts
  <2>2. Keys'
    BY <1>1, <2>1 DEF Device, Keys, At
  <2> QED  BY <1>1, <2>1, <2>2 DEF Device, RegisteredKnown
<1>5. /\ mount' \in [Storage -> {"none", "private", "shared"}]
      /\ \A s \in Storage : mount'[s] = mount[s] \/ mount'[s] = "none"
  BY <1>1, DiskType
<1>6. CloudTypeOK'
  BY <1>1, <1>2, <1>5, DiskType DEF CloudTypeOK, Selves
<1>7. Listed' /\ Alone' /\ Cleared' /\ FilesKept'
  BY <1>1, Tasking DEF Listed, Alone, Cleared, FilesKept
<1>8. Vanished'
  <2> SUFFICES ASSUME NEW t \in Storage, Lost(t)'
               PROVE  t \notin conf' /\ mount'[t] = "none"
    BY <1>1 DEF Vanished
  <2>1. Lost(t)
    BY <1>1 DEF Lost
  <2> QED  BY <1>1, <1>5, <2>1 DEF Vanished
<1> QED  BY <1>2, <1>3, <1>4, <1>6, <1>7, <1>8 DEF Device, Selves

\* The invariant holds of a new device and of one with storages.
LEMMA InitCloudInv == CloudInit => CloudInv
<1> SUFFICES ASSUME CloudInit PROVE CloudInv
  OBVIOUS
<1>1. /\ where = [a \in Actor |-> "idle"] /\ task = [a \in Actor |-> "none"]
      /\ at = [a \in Actor |-> Nil] /\ copy = [a \in Actor |-> {}] /\ todo = {}
      /\ wiped = {} /\ rows = born /\ tokens = born \cap Drive /\ conf = tokens
      /\ session = [x \in Session |-> [state |-> "none", storage |-> Nil]]
  BY DEF CloudInit
<1>2. Selves /\ session \in Sessions
  BY <1>1 DEF Selves, Points, Tasks, Sessions
<1>3. \A a \in Actor : Stands(a)
  BY <1>1 DEF Stands
<1>4. /\ conn \in [key : Key, registered : BOOLEAN] \cup {Nil} /\ known \in Key \cup {Nil}
      /\ known # Nil => conn # Nil /\ conn.key = known
      /\ conn # Nil => conn.key = known
      /\ born \subseteq Storage /\ mount \in [Storage -> {"none", "private", "shared"}]
  <2>1. CASE conn = Nil /\ known = Nil /\ born = {} /\ mount = [s \in Storage |-> "none"]
    BY <2>1
  <2>2. CASE /\ known = CHOOSE k \in Key : TRUE
             /\ conn = [key |-> known, registered |-> TRUE]
             /\ \E old \in (SUBSET Storage) \ {{}}, how \in {"none", "private"} :
                  /\ born = old
                  /\ mount = [s \in Storage |-> IF s \in old \cap Drive THEN how ELSE "none"]
    <3>1. known \in Key
      BY <2>2, KeyAssumption
    <3>2. conn \in [key : Key, registered : BOOLEAN] /\ conn.key = known
      BY <2>2, <3>1
    <3>3. born \subseteq Storage /\ mount \in [Storage -> {"none", "private", "shared"}]
      BY <2>2
    <3> QED  BY <3>1, <3>2, <3>3, KeyAssumption
  <2> QED  BY <2>1, <2>2 DEF CloudInit
<1>5. Keys /\ RegisteredKnown
  BY <1>1, <1>4 DEF Keys, RegisteredKnown, At
<1>6. CloudTypeOK
  BY <1>1, <1>2, <1>4 DEF CloudTypeOK, Selves, Sessions
<1>7. Listed /\ Alone /\ Cleared /\ FilesKept
  BY <1>1, <1>4, StorageAssumption DEF Listed, Alone, Cleared, FilesKept
<1>8. Vanished
  BY <1>1 DEF Vanished, Lost
<1> QED  BY <1>2, <1>3, <1>5, <1>6, <1>7, <1>8 DEF CloudInv, Selves

\* Every step keeps the invariant.
LEMMA NextCloudInv == CloudInv /\ [CloudNext]_cloudVars => CloudInv'
<1> SUFFICES ASSUME CloudInv, [CloudNext]_cloudVars PROVE CloudInv'
  OBVIOUS
<1>1. CASE UNCHANGED cloudVars
  <2>1. /\ UNCHANGED <<conn, known, session, rows, tokens, conf, mount, wiped, where, task, at>>
        /\ UNCHANGED <<copy, todo, born, met, stray>>
    BY <1>1 DEF cloudVars, broker, db, disk, self
  <2>2. UNCHANGED <<CloudTypeOK, RegisteredKnown, FilesKept>> /\ Meet' = Meet
    BY <2>1 DEF CloudTypeOK, RegisteredKnown, FilesKept, Meet
  <2>3. \A a \in Actor : Stands(a)' <=> Stands(a)
    BY <2>1 DEF Stands
  <2>4. UNCHANGED <<Keys, Listed, Alone>>
    BY <2>1 DEF Keys, Listed, Alone, At
  <2>5. (Cleared => Cleared') /\ (Vanished => Vanished')
    BY <2>1, <2>2 DEF Cleared, Vanished, Lost
  <2> QED  BY <2>1, <2>2, <2>3, <2>4, <2>5 DEF CloudInv
<1>2. CASE CloudNext
  <2>1. met' = met \cup Meet
    BY <1>2 DEF CloudNext
  <2>2. ASSUME NEW r \in Request, Link(r)
        PROVE  CloudInv'
    BY <2>1, <2>2, StartInv, GetConnectionInv, RegisterDeviceInv, MarkRegisteredInv, StatusInv,
       ExchangeInv, SaveTokenInv, SaveConnectionInv, CreateSessionInv, CompleteInv,
       CreateOrReconnectInv DEF Link
  <2>3. ASSUME NEW r \in Request, Delete(r)
        PROVE  CloudInv'
    BY <2>1, <2>3, UnmountInv, DropTokensInv, DetachInv, DeleteRowsInv, CheckPathInv,
       RemovePathInv, DeletePoolInv DEF Delete
  <2>4. ASSUME NEW r \in Request, Serve(r)
        PROVE  CloudInv'
    BY <2>1, <2>2, <2>3, <2>4, AddShareInv, CleanupInv, BenchmarkInv, CreateNetworkInv DEF Serve
  <2>5. ASSUME NEW a \in Actor, Ensure(a)
        PROVE  CloudInv'
    BY <2>1, <2>5, ReadConfigInv, WriteConfigInv, LookDriveInv, LookShareInv, MountInv DEF Ensure
  <2>6. CASE Watch
    BY <2>1, <2>6, ListStoragesInv, CheckedAllInv, CheckStorageInv DEF Watch
  <2>7. CASE Refresh
    BY <2>1, <2>7, PersistRefreshedInv, StartRefreshInv DEF Refresh
  <2> QED  BY <1>2, <2>1, <2>4, <2>5, <2>6, <2>7, ConsentInv, DieInv DEF CloudNext
<1> QED  BY <1>1, <1>2

\* The inductive invariant: the actors stand where the code can be, the broker
\* knows the key of the row, a share being created is its creator's alone, and
\* what a deletion has taken away stays away unless another actor was at it.
THEOREM CloudInvariance == CloudSpec => []CloudInv
BY InitCloudInv, NextCloudInv, PTL DEF CloudSpec

\* A device that ensureDeviceRegistered has marked is known to the broker by the
\* key that it signs with, although the row and the broker are written apart.
THEOREM RegisteredDevicesSignIn == CloudSpec => []RegisteredKnown
<1>1. CloudInv => RegisteredKnown
  BY DEF CloudInv
<1> QED  BY <1>1, CloudInvariance, PTL

\* DeletePool leaves no row, token, section or mount behind, unless another actor
\* was at the storage meanwhile or the process died while creating a share.
THEOREM DeletionsLeaveNothing == CloudSpec => []NothingLeft
<1>1. CloudInv => NothingLeft
  <2> SUFFICES ASSUME CloudInv PROVE NothingLeft
    OBVIOUS
  <2>1. tokens \subseteq rows /\ born \subseteq Storage
    BY DEF CloudInv, Listed
  <2>2. ASSUME NEW s \in Gone \ (met \cup stray)
        PROVE  s \notin conf /\ mount[s] = "none"
    <3>1. s \in born \ rows /\ \A a \in Actor : at[a] # s
      BY DEF Gone
    <3>2. Lost(s) /\ s \in Storage
      BY <2>1, <3>1 DEF Lost
    <3> QED  BY <3>2 DEF CloudInv, Vanished
  <2> QED  BY <2>1, <2>2 DEF NothingLeft
<1> QED  BY <1>1, CloudInvariance, PTL

\* rm -rf of a mount path meets the files of a storage only where another actor
\* mounted it during its deletion, or where a creation could not unmount it.
THEOREM RemovalsKeepFiles == CloudSpec => []FilesKept
<1>1. CloudInv => FilesKept
  BY DEF CloudInv
<1> QED  BY <1>1, CloudInvariance, PTL

=============================================================================
