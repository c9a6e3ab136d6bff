---------------------------- MODULE SnapshotsProofs ----------------------------
(***************************************************************************)
(* Proofs about the snapshots of a pool, for any requests, files, paths    *)
(* and ids; then, from "The calendar" on, about automatic snapshots, for   *)
(* any calendar, schedules, pools, jobs and number of failures.            *)
(***************************************************************************)
EXTENDS Snapshots, AutoSnapshots, FiniteSetTheorems, TLAPS

-----------------------------------------------------------------------------
(* Every step keeps the invariant.                                         *)

\* A request that ends keeps the types of what it forgets.
LEMMA EndTypes ==
    ASSUME TypeOK, NEW r \in Request, End(r)
    PROVE  /\ pc' \in [Request -> Point] /\ path' \in [Request -> Path \cup {None}]
           /\ id' \in [Request -> Id \cup {None}] /\ from' \in [Request -> Source]
           /\ ro' \in [Request -> BOOLEAN]
           /\ backup' \in [Request -> Backup \cup {None}]
           /\ begun' \in [Request -> SUBSET File]
           /\ erased' = erased /\ promised' = promised
<1> USE DEF TypeOK, End, Goto
<1>1. pc' \in [Request -> Point] BY DEF Point
<1>2. from' \in [Request -> Source] BY DEF Source
<1>3. path' \in [Request -> Path \cup {None}] /\ id' \in [Request -> Id \cup {None}]
  OBVIOUS
<1>4. QED BY <1>1, <1>2, <1>3

\* A request that has ended is nowhere, and the others are where they were.
LEMMA EndPlaces ==
    ASSUME TypeOK, NEW r \in Request, End(r)
    PROVE  /\ pc'[r] = "idle"
           /\ \A s \in Request \ {r} :
                 /\ pc'[s] = pc[s] /\ path'[s] = path[s] /\ id'[s] = id[s]
                 /\ from'[s] = from[s] /\ backup'[s] = backup[s]
                 /\ begun'[s] = begun[s]
<1> USE DEF TypeOK, End, Goto
<1>1. pc'[r] = "idle" OBVIOUS
<1>2. QED BY <1>1

LEMMA FailIInv ==
    ASSUME IInv, NEW r \in Request, Fail(r)
    PROVE  IInv'
<1> USE DEF IInv, Fail, data, snaps, table
<1>1. TypeOK' BY EndTypes DEF TypeOK
<1>2. End(r) /\ erased' = erased /\ promised' = promised BY EndTypes
<1>3. InPlace' BY <1>2, EndPlaces DEF InPlace, At
<1>4. BackedUp' BY <1>2, EndPlaces DEF BackedUp, At
<1>5. OneInstalls' BY <1>2, EndPlaces DEF OneInstalls, At
<1>6. BackupHolds' /\ RecordedIsThere' /\ Shapes'
  BY <1>2 DEF Shapes, data, BackupHolds, RecordedIsThere
<1>7. QED BY <1>1, <1>3, <1>4, <1>5, <1>6

LEMMA CreateSnapshotIInv ==
    ASSUME IInv, NEW r \in Request, CreateSnapshot(r)
    PROVE  IInv'
<1> USE NameAssumption, NoneAssumption
    DEF IInv, At, Goto, Stay, CreateSnapshot, data, snaps, table, ghost
<1>1. TypeOK' BY DEF TypeOK, Point, Source, Path
<1>2. InPlace' BY DEF TypeOK, Point, InPlace, Path
<1>3. BackedUp'
  BY DEF TypeOK, Point, InPlace, BackedUp, Path
<1>4. BackupHolds'
  BY DEF TypeOK, BackedUp, BackupHolds, InPlace, Path
<1>5. OneInstalls'
  BY DEF TypeOK, Point, OneInstalls, InPlace
<1>6. RecordedIsThere' /\ Shapes'
  BY DEF Shapes, TypeOK, RecordedIsThere, InPlace, Path
<1>7. QED BY <1>1, <1>2, <1>3, <1>4, <1>5, <1>6

LEMMA TakeSnapshotIInv ==
    ASSUME IInv, NEW r \in Request, TakeSnapshot(r)
    PROVE  IInv'
<1>1. CASE Fail(r) BY <1>1, FailIInv
<1>2. CASE ~ Fail(r)
  <2> USE NameAssumption, NoneAssumption
      DEF IInv, Goto, Stay, At, data, table
  <2>1. /\ pc[r] = "take" /\ Snap(path[r], from[r], IF ro[r] THEN "ro" ELSE "rw")
        /\ erased' = erased \ {path[r]} /\ Goto(r, "record") /\ Stay
        /\ UNCHANGED <<data, table, begun, promised>>
    BY <1>2 DEF TakeSnapshot
  <2>2. path[r] \in Name /\ path[r] \in Path /\ path[r] \notin Backup
    BY <2>1 DEF InPlace, Path
  <2>3. /\ shape' \in [Path -> {"none", "ro", "rw", "nested"}]
        /\ held' \in [Path -> SUBSET File] /\ shape'[path[r]] # "none"
        /\ \A p \in Path \ {path[r]} : shape'[p] = shape[p] /\ held'[p] = held[p]
    BY <2>1, <2>2 DEF TypeOK, Snap
  <2>4. TypeOK' BY <2>1, <2>3 DEF TypeOK, Point
  <2>5. InPlace' BY <2>1, <2>2, <2>3 DEF TypeOK, InPlace, Path
  <2>6. BackedUp' BY <2>1, <2>2, <2>3 DEF TypeOK, InPlace, BackedUp, Path
  <2>7. BackupHolds' BY <2>1, <2>2, <2>3 DEF BackupHolds, Path
  <2>8. OneInstalls' BY <2>1 DEF TypeOK, OneInstalls
  <2>9. RecordedIsThere' /\ Shapes'
    BY <2>1, <2>2, <2>3 DEF Shapes, RecordedIsThere, Path
  <2>10. QED BY <2>4, <2>5, <2>6, <2>7, <2>8, <2>9
<1>3. QED BY <1>1, <1>2

LEMMA RecordSnapshotIInv ==
    ASSUME IInv, NEW r \in Request, RecordSnapshot(r)
    PROVE  IInv'
<1>1. CASE Fail(r) BY <1>1, FailIInv
<1>2. CASE ~ Fail(r)
  <2> USE NameAssumption, NoneAssumption
      DEF IInv, data, snaps
  <2>1. /\ pc[r] = "record" /\ AddSnapshot(path[r], from[r])
        /\ End(r) /\ UNCHANGED <<data, snaps>>
    BY <1>2 DEF RecordSnapshot, At
  <2>2. path[r] \in Path /\ (shape[path[r]] # "none" \/ path[r] \in erased)
    BY <2>1 DEF TypeOK, InPlace, At
  <2>3. /\ rows' \in [Path -> Id \cup {None}] /\ source' \in [Path -> Source]
        /\ \A p \in Path \ {path[r]} : rows'[p] = rows[p]
    BY <2>1, <2>2 DEF TypeOK, AddSnapshot
  <2>4. erased' = erased /\ promised' = promised BY <2>1, EndTypes
  <2>5. TypeOK' BY <2>1, <2>3, EndTypes DEF TypeOK
  <2>6. InPlace' /\ BackedUp' BY <2>1, <2>4, EndPlaces DEF InPlace, BackedUp, At
  <2>7. BackupHolds' /\ OneInstalls'
    BY <2>1, <2>4, EndPlaces DEF BackupHolds, OneInstalls, At
  <2>8. RecordedIsThere' /\ Shapes'
    BY <2>1, <2>2, <2>3, <2>4 DEF Shapes, data, RecordedIsThere
  <2>9. QED BY <2>5, <2>6, <2>7, <2>8
<1>3. QED BY <1>1, <1>2

LEMMA DeleteSnapshotIInv ==
    ASSUME IInv, NEW r \in Request, DeleteSnapshot(r)
    PROVE  IInv'
<1> USE NameAssumption, NoneAssumption
    DEF IInv, At, Goto, Stay, DeleteSnapshot, data, snaps, table, ghost
<1>1. TypeOK' BY DEF TypeOK, Point, Source, Path
<1>2. InPlace' BY DEF TypeOK, Point, InPlace, Path
<1>3. BackedUp'
  BY DEF TypeOK, Point, InPlace, BackedUp, Path
<1>4. BackupHolds'
  BY DEF TypeOK, BackedUp, BackupHolds, InPlace, Path
<1>5. OneInstalls'
  BY DEF TypeOK, Point, OneInstalls, InPlace
<1>6. RecordedIsThere' /\ Shapes'
  BY DEF Shapes, TypeOK, RecordedIsThere, InPlace, Path
<1>7. QED BY <1>1, <1>2, <1>3, <1>4, <1>5, <1>6

LEMMA EraseIInv ==
    ASSUME IInv, NEW r \in Request, Erase(r)
    PROVE  IInv'
<1>1. CASE Fail(r) BY <1>1, FailIInv
<1>2. CASE ~ Fail(r)
  <2> USE NameAssumption, NoneAssumption
      DEF IInv, Goto, Stay, At, data, table
  <2>1. /\ pc[r] = "erase" /\ shape[path[r]] \in {"ro", "rw"}
        /\ shape' = [shape EXCEPT ![path[r]] = "none"]
        /\ held' = [held EXCEPT ![path[r]] = {}] /\ erased' = erased \cup {path[r]}
        /\ promised' = [promised EXCEPT ![path[r]] = {}]
        /\ Goto(r, "unrecord") /\ Stay /\ UNCHANGED <<data, table, begun>>
    BY <1>2 DEF Erase
  <2>2. path[r] \in Path BY <2>1 DEF TypeOK, InPlace
  <2>3. TypeOK' BY <2>1, <2>2 DEF TypeOK, Point
  <2>4. InPlace' BY <2>1, <2>2 DEF TypeOK, InPlace, Path
  <2>5. BackedUp' BY <2>1, <2>2 DEF TypeOK, InPlace, BackedUp, Path
  <2>6. BackupHolds' BY <2>1, <2>2 DEF TypeOK, BackupHolds, Path
  <2>7. OneInstalls' BY <2>1 DEF TypeOK, OneInstalls
  <2>8. RecordedIsThere' /\ Shapes'
    BY <2>1, <2>2 DEF Shapes, TypeOK, RecordedIsThere, Path
  <2>9. QED BY <2>3, <2>4, <2>5, <2>6, <2>7, <2>8
<1>3. QED BY <1>1, <1>2

LEMMA DeleteSnapshotRecordIInv ==
    ASSUME IInv, NEW r \in Request, DeleteSnapshotRecord(r)
    PROVE  IInv'
<1>1. CASE Fail(r) BY <1>1, FailIInv
<1>2. CASE ~ Fail(r)
  <2> USE NameAssumption, NoneAssumption
      DEF IInv, data, snaps
  <2>1. /\ rows' = [p \in Path |-> IF rows[p] = id[r] THEN None ELSE rows[p]]
        /\ End(r) /\ UNCHANGED <<data, snaps, source>>
    BY <1>2 DEF DeleteSnapshotRecord, At
  <2>2. rows' \in [Path -> Id \cup {None}] BY <2>1 DEF TypeOK
  <2>3. erased' = erased /\ promised' = promised BY <2>1, EndTypes
  <2>4. TypeOK' BY <2>1, <2>2, EndTypes DEF TypeOK
  <2>5. InPlace' /\ BackedUp' BY <2>1, <2>3, EndPlaces DEF InPlace, BackedUp, At
  <2>6. BackupHolds' /\ OneInstalls'
    BY <2>1, <2>3, EndPlaces DEF BackupHolds, OneInstalls, At
  <2>7. RecordedIsThere' /\ Shapes'
    BY <2>1, <2>3 DEF Shapes, data, RecordedIsThere
  <2>8. QED BY <2>4, <2>5, <2>6, <2>7
<1>3. QED BY <1>1, <1>2

LEMMA RestoreSnapshotIInv ==
    ASSUME IInv, NEW r \in Request, RestoreSnapshot(r)
    PROVE  IInv'
<1> USE NameAssumption, NoneAssumption
    DEF IInv, At, Goto, Stay, RestoreSnapshot, data, snaps, table, ghost
<1>1. TypeOK' BY DEF TypeOK, Point, Source, Path
<1>2. InPlace' BY DEF TypeOK, Point, InPlace, Path
<1>3. BackedUp'
  BY DEF TypeOK, Point, InPlace, BackedUp, Path
<1>4. BackupHolds'
  BY DEF TypeOK, BackedUp, BackupHolds, InPlace, Path
<1>5. OneInstalls'
  BY DEF TypeOK, Point, OneInstalls, InPlace
<1>6. RecordedIsThere' /\ Shapes'
  BY DEF Shapes, TypeOK, RecordedIsThere, InPlace, Path
<1>7. QED BY <1>1, <1>2, <1>3, <1>4, <1>5, <1>6

LEMMA BackUpIInv ==
    ASSUME IInv, NEW r \in Request, BackUp(r)
    PROVE  IInv'
<1>1. CASE Fail(r) BY <1>1, FailIInv
<1>2. CASE ~ Fail(r)
  <2> USE NameAssumption, NoneAssumption
      DEF IInv, Goto, Stay, At, data, table, ghost
  <2>1. /\ pc[r] = "backup" /\ Snap(backup[r], "data", "ro")
        /\ Goto(r, "recordBackup") /\ Stay /\ UNCHANGED <<data, table, ghost>>
    BY <1>2 DEF BackUp
  <2>2. backup[r] \in Backup /\ backup[r] \in Path /\ backup[r] # None
    BY <2>1 DEF TypeOK, InPlace, Path
  <2>3. begun[r] \subseteq files BY <2>1 DEF BackedUp
  <2>4. /\ shape' \in [Path -> {"none", "ro", "rw", "nested"}]
        /\ held' \in [Path -> SUBSET File] /\ shape'[backup[r]] # "none"
        /\ \A p \in Path : shape[p] # "none" => held'[p] = held[p]
        /\ \A p \in Path : shape[p] \in {"none", "ro"} =>
              \/ shape'[p] = shape[p] /\ held'[p] = held[p]
              \/ shape[p] = "none" /\ shape'[p] = "ro" /\ held'[p] = files
        /\ \A p \in Path : shape'[p] = "none" => shape[p] = "none"
    BY <2>1, <2>2 DEF TypeOK, Snap
  <2>5. TypeOK' BY <2>1, <2>4 DEF TypeOK, Point
  <2>6. InPlace' BY <2>1, <2>2, <2>4 DEF TypeOK, InPlace, Path
  <2>7. BackedUp'
    <3>1. shape'[backup[r]] = "ro" /\ held'[backup[r]] = files
      BY <2>1, <2>2 DEF Shapes, Snap, TypeOK
    <3>2. pc' = [pc EXCEPT ![r] = "recordBackup"] /\ pc'[r] = "recordBackup"
      BY <2>1 DEF TypeOK
    <3>3. \A s \in Request : backup[s] # None => backup[s] \in Path
      BY DEF TypeOK, Path
    <3>4. ASSUME NEW s \in Request, s # r,
                 At(s, "recordBackup") \/ (At(s, "drop") /\ backup[s] # None)
          PROVE  \/ backup[s] \in erased
                 \/ shape'[backup[s]] = "ro" /\ begun[s] \subseteq held'[backup[s]]
      <4>1. backup[s] # None /\ backup[s] \in Path
        BY <3>3, <3>4 DEF InPlace
      <4>2. QED BY <2>4, <3>4, <4>1 DEF BackedUp
    <3>5. QED BY <2>1, <2>3, <3>1, <3>2, <3>4 DEF TypeOK, BackedUp
  <2>8. BackupHolds' BY <2>1, <2>4 DEF BackupHolds, Path
  <2>9. OneInstalls' BY <2>1 DEF TypeOK, OneInstalls
  <2>10. RecordedIsThere' /\ Shapes'
    BY <2>1, <2>4 DEF Shapes, RecordedIsThere, Path
  <2>11. QED BY <2>5, <2>6, <2>7, <2>8, <2>9, <2>10
<1>3. QED BY <1>1, <1>2

LEMMA RecordBackupIInv ==
    ASSUME IInv, NEW r \in Request, RecordBackup(r)
    PROVE  IInv'
<1>1. CASE Fail(r) BY <1>1, FailIInv
<1>2. CASE ~ Fail(r)
  <2> USE NameAssumption, NoneAssumption
      DEF IInv, Goto, Stay, At, data, snaps, ghost
  <2>1. /\ pc[r] = "recordBackup" /\ AddSnapshot(backup[r], "data")
        /\ Goto(r, "drop") /\ Stay /\ UNCHANGED <<data, snaps, ghost>>
    BY <1>2 DEF RecordBackup
  <2>2. backup[r] \in Path /\ backup[r] # None
    BY <2>1 DEF TypeOK, InPlace, Path
  <2>3. shape[backup[r]] # "none" \/ backup[r] \in erased BY <2>1, <2>2 DEF BackedUp
  <2>4. /\ rows' \in [Path -> Id \cup {None}] /\ source' \in [Path -> Source]
        /\ \A p \in Path \ {backup[r]} : rows'[p] = rows[p]
    BY <2>1, <2>2 DEF TypeOK, AddSnapshot, Source
  <2>5. TypeOK' BY <2>1, <2>4 DEF TypeOK, Point
  <2>6. InPlace' BY <2>1, <2>2 DEF TypeOK, InPlace
  <2>7. BackedUp' BY <2>1, <2>2 DEF TypeOK, BackedUp
  <2>8. BackupHolds' /\ OneInstalls' BY <2>1 DEF TypeOK, BackupHolds, OneInstalls
  <2>9. RecordedIsThere' /\ Shapes'
    BY <2>1, <2>3, <2>4 DEF Shapes, data, RecordedIsThere
  <2>10. QED BY <2>5, <2>6, <2>7, <2>8, <2>9
<1>3. QED BY <1>1, <1>2

LEMMA DropDataIInv ==
    ASSUME IInv, NEW r \in Request, DropData(r)
    PROVE  IInv'
<1>1. CASE Fail(r) BY <1>1, FailIInv
<1>2. CASE ~ Fail(r)
  <2> USE NameAssumption, NoneAssumption
      DEF IInv, Goto, Stay, At, snaps, table
  <2>1. /\ pc[r] = "drop" /\ kind = "whole" /\ kind' = "gone" /\ files' = {}
        /\ Promise(r) /\ Goto(r, "install") /\ Stay /\ UNCHANGED <<snaps, table>>
    BY <1>2 DEF DropData
  <2>2. /\ promised' \in [Path -> SUBSET File] /\ erased' = erased
        /\ begun' = [x \in Request |-> {}]
        /\ \A b \in Path : b # backup[r] => promised'[b] = promised[b]
    BY <2>1 DEF TypeOK, Promise, Path
  <2>3. BackupHolds'
    <3>1. CASE backup[r] = None \/ backup[r] \in erased
      BY <2>1, <3>1 DEF BackupHolds, Promise
    <3>2. CASE backup[r] # None /\ backup[r] \notin erased
      <4>1. shape[backup[r]] = "ro" /\ begun[r] \subseteq held[backup[r]]
        BY <2>1, <3>2 DEF BackedUp
      <4>2. promised'[backup[r]] = begun[r]
        BY <2>1, <3>2 DEF TypeOK, Promise, Path
      <4>3. QED BY <2>1, <2>2, <4>1, <4>2 DEF BackupHolds, Path
    <3>3. QED BY <3>1, <3>2
  <2>4. TypeOK' BY <2>1, <2>2 DEF TypeOK, Point
  <2>5. InPlace' BY <2>1, <2>2 DEF TypeOK, InPlace
  <2>6. BackedUp' BY <2>1, <2>2 DEF TypeOK, BackedUp
  <2>7. OneInstalls' BY <2>1 DEF TypeOK, InPlace, OneInstalls
  <2>8. RecordedIsThere' /\ Shapes'
    BY <2>1, <2>2 DEF Shapes, data, RecordedIsThere
  <2>9. QED BY <2>3, <2>4, <2>5, <2>6, <2>7, <2>8
<1>3. QED BY <1>1, <1>2

LEMMA InstallSnapshotIInv ==
    ASSUME IInv, NEW r \in Request, InstallSnapshot(r)
    PROVE  IInv'
<1>1. CASE Fail(r) BY <1>1, FailIInv
<1>2. CASE ~ Fail(r)
  <2> USE NameAssumption, NoneAssumption
      DEF IInv, snaps, table
  <2>1. /\ pc[r] = "install" /\ End(r) /\ UNCHANGED <<snaps, table>>
        /\ IF kind = "gone" THEN kind' = "whole" /\ files' = held[path[r]]
                             ELSE UNCHANGED data
    BY <1>2 DEF InstallSnapshot, At
  <2>2. erased' = erased /\ promised' = promised BY <2>1, EndTypes
  <2>3. path[r] \in Path BY <2>1 DEF TypeOK, InPlace, At
  <2>4. kind' \in {"whole", "dir", "gone"} /\ files' \subseteq File
    BY <2>1, <2>3 DEF TypeOK, data
  <2>5. TypeOK' BY <2>1, <2>4, EndTypes DEF TypeOK
  <2>6. \A s \in Request \ {r} : pc[s] # "install"
    BY <2>1 DEF OneInstalls, At
  <2>7. InPlace' BY <2>1, <2>2, <2>6, EndPlaces DEF InPlace, At
  <2>8. BackedUp'
    <3>1. CASE kind = "gone"
      <4>1. files = {} BY <3>1 DEF Shapes
      <4>2. QED BY <2>1, <2>2, <4>1, EndPlaces DEF BackedUp, At
    <3>2. CASE kind # "gone" BY <2>1, <2>2, <3>2, EndPlaces DEF BackedUp, At, data
    <3>3. QED BY <3>1, <3>2
  <2>9. BackupHolds' /\ OneInstalls' /\ RecordedIsThere' /\ Shapes'
    BY <2>1, <2>2, EndPlaces DEF Shapes, data, BackupHolds, OneInstalls, RecordedIsThere, At
  <2>10. QED BY <2>5, <2>7, <2>8, <2>9
<1>3. QED BY <1>1, <1>2

LEMMA StoreIInv ==
    ASSUME IInv, NEW f \in File, Store(f)
    PROVE  IInv'
<1> USE DEF IInv, At, Store, req, snaps, table, ghost
<1>1. TypeOK' BY DEF TypeOK
<1>2. InPlace' BY DEF TypeOK, InPlace
<1>3. BackedUp' BY DEF TypeOK, BackedUp
<1>4. QED BY <1>1, <1>2, <1>3 DEF BackupHolds, OneInstalls, RecordedIsThere, Shapes

LEMMA CrashIInv == IInv /\ Crash => IInv'
<1> SUFFICES ASSUME IInv, Crash PROVE IInv' OBVIOUS
<1> USE DEF IInv, At, Crash, data, snaps, table
<1>1. TypeOK' BY DEF TypeOK, Point, Source
<1>2. InPlace' /\ BackedUp' /\ OneInstalls' BY DEF InPlace, BackedUp, OneInstalls
<1>3. QED BY <1>1, <1>2 DEF BackupHolds, RecordedIsThere, Shapes

-----------------------------------------------------------------------------
(* The theorems.                                                           *)

LEMMA InitIInv == Init => IInv
  BY NoneAssumption DEF Init, IInv, TypeOK, Point, Source, Path, At, InPlace, BackedUp,
     BackupHolds, OneInstalls, RecordedIsThere, Shapes

LEMMA NextIInv == IInv /\ [Next]_vars => IInv'
<1> SUFFICES ASSUME IInv, [Next]_vars PROVE IInv' OBVIOUS
<1>1. CASE UNCHANGED vars
  <2> USE <1>1 DEF IInv, At, vars, req, data, snaps, table, ghost
  <2>1. TypeOK' /\ InPlace' /\ BackedUp' BY DEF TypeOK, InPlace, BackedUp
  <2>2. BackupHolds' /\ OneInstalls' /\ RecordedIsThere' /\ Shapes'
    BY DEF Shapes, data, BackupHolds, OneInstalls, RecordedIsThere
  <2>3. QED BY <2>1, <2>2
<1>2. ASSUME NEW r \in Request, Step(r) PROVE IInv'
  BY <1>2, CreateSnapshotIInv, TakeSnapshotIInv, RecordSnapshotIInv, DeleteSnapshotIInv,
     EraseIInv, DeleteSnapshotRecordIInv, RestoreSnapshotIInv, BackUpIInv,
     RecordBackupIInv, DropDataIInv, InstallSnapshotIInv DEF Step
<1>3. QED BY <1>1, <1>2, StoreIInv, CrashIInv DEF Next

\* The invariant of snapshots holds always (every handler of snapshots.go).
THEOREM Invariance == Spec => []IInv
<1>1. QED BY InitIInv, NextIInv, PTL DEF Spec

\* The variables keep their types.
THEOREM TypeCorrect == Spec => []TypeOK
<1>1. IInv => TypeOK BY DEF IInv
<1>2. QED BY Invariance, <1>1, PTL

\* A restore with a backup loses nothing that was in the pool when it began
\* (RestoreSnapshot).
THEOREM BackupsHold == Spec => []BackupHolds
<1>1. IInv => BackupHolds BY DEF IInv
<1>2. QED BY Invariance, <1>1, PTL

\* One restore at a time has deleted the data (RestoreSnapshot).
THEOREM OneInstallsAtATime == Spec => []OneInstalls
<1>1. IInv => OneInstalls BY DEF IInv
<1>2. QED BY Invariance, <1>1, PTL

\* Only deletions leave rows without a snapshot (CreateSnapshot, DeleteSnapshot).
THEOREM RecordedAreThere == Spec => []RecordedIsThere
<1>1. IInv => RecordedIsThere BY DEF IInv
<1>2. QED BY Invariance, <1>1, PTL

-----------------------------------------------------------------------------
(* Numbers.                                                                *)

\* A number is quotient and remainder.
LEMMA DivMod ==
    ASSUME NEW a \in Nat, NEW b \in Nat \ {0}
    PROVE  /\ a = b * (a \div b) + (a % b) /\ a % b \in 0..b - 1 /\ a \div b \in Nat
OBVIOUS

\* The multiples of a number are at least that number apart.
LEMMA Mono ==
    ASSUME NEW b \in Nat \ {0}, NEW q \in Int, NEW p \in Int, q < p
    PROVE  b * q + b <= b * p
<1>1. PICK k \in Nat : p = q + 1 + k
  <2>1. p - q - 1 \in Nat /\ p = q + 1 + (p - q - 1) OBVIOUS
  <2> QED BY <2>1
<1>2. b * p = b * q + b + b * k
  BY <1>1
<1>3. b * k >= 0
  OBVIOUS
<1> QED BY <1>2, <1>3

\* Quotient and remainder are the only such pair.
LEMMA DivModUnique ==
    ASSUME NEW b \in Nat \ {0}, NEW q \in Nat, NEW r \in 0..b - 1
    PROVE  (b * q + r) \div b = q /\ (b * q + r) % b = r
<1> DEFINE a == b * q + r
<1>1. a \in Nat /\ a = b * q + r OBVIOUS
<1> HIDE DEF a
<1>2. a = b * (a \div b) + (a % b) /\ a % b \in 0..b - 1 /\ a \div b \in Nat
  BY <1>1, DivMod
<1>3. ~ (q < a \div b)
  BY <1>1, <1>2, Mono
<1>4. ~ (a \div b < q)
  BY <1>1, <1>2, Mono
<1>5. a \div b = q
  BY <1>2, <1>3, <1>4
<1> QED BY <1>1, <1>2, <1>5 DEF a

\* A set of numbers that is not empty has a least one.  This is induction in a
\* form that needs no operator: numbers as the sets of those of S below them.
LEMMA Least ==
    ASSUME NEW S \in SUBSET Nat, NEW n \in S
    PROVE  \E m \in S : \A k \in S : m <= k
<1> DEFINE below == [c \in Nat |-> {k \in S : k < c}]
           T == {X \in SUBSET (0..n) : \E c \in S : c <= n /\ X = below[c]}
<1>1. \A k \in S : k \in Nat
  OBVIOUS
<1>2. \A c \in S : \A k : k \in below[c] <=> k \in S /\ k < c
  BY <1>1
<1> HIDE DEF below
<1>3. T \subseteq FiniteSubsetsOf(0..n)
  <2>1. IsFiniteSet(0..n)
    BY <1>1, FS_Interval
  <2> QED  BY <2>1, FS_FiniteSubsetsOfFinite
<1>4. ASSUME NEW c \in S, c <= n
      PROVE  below[c] \in T
  <2>1. ASSUME NEW k \in below[c]
        PROVE  k \in 0..n
    <3>1. k \in S /\ k < c
      BY <1>2
    <3>2. k \in Nat /\ c \in Nat /\ n \in Nat
      BY <1>1, <3>1
    <3> QED  BY <1>4, <3>1, <3>2
  <2> QED  BY <1>4, <2>1
<1>5. n \in S /\ n <= n
  BY <1>1
<1>6. \E X \in T : \A Y \in T : <<Y, X>> \notin StrictSubsetOrdering(0..n)
  <2>1. T # {}
    BY <1>4, <1>5
  <2> HIDE DEF T
  <2> QED  BY <1>3, <2>1, FS_StrictSubsetOrderingWellFounded, WFMin
<1>7. PICK m \in S : m <= n /\ \A Y \in T : <<Y, below[m]>> \notin StrictSubsetOrdering(0..n)
  BY <1>6
<1>8. ASSUME NEW k \in S, k < m
      PROVE  FALSE
  <2>1. k <= n
    BY <1>1, <1>5, <1>7, <1>8
  <2>2. below[k] \in T /\ below[m] \in T
    BY <1>4, <1>7, <2>1
  <2>3. ASSUME NEW j \in below[k]
        PROVE  j \in below[m]
    <3>1. j \in S /\ j < k
      BY <1>2
    <3>2. j \in Nat /\ k \in Nat /\ m \in Nat
      BY <1>1, <3>1
    <3> QED  BY <1>2, <1>8, <3>1, <3>2
  <2>4. k \in below[m] /\ k \notin below[k]
    BY <1>1, <1>2, <1>8
  <2>5. <<below[k], below[m]>> \in StrictSubsetOrdering(0..n)
    BY <2>2, <2>3, <2>4 DEF StrictSubsetOrdering
  <2> QED  BY <1>7, <2>2, <2>5
<1> QED  BY <1>1, <1>8

-----------------------------------------------------------------------------
(* The calendar.                                                           *)
\* A plan has a day among the next days of a week.
LEMMA SomeDay ==
    ASSUME NEW d \in Nat, NEW S \in Plan
    PROVE  \E o \in 1..Week : (d + o) % Week \in S
<1> USE TimeAssumption
<1>1. PICK s \in S : s \in 0..Week - 1
  BY DEF Plan
<1> DEFINE q == d \div Week
           r == d % Week
<1>2. d = Week * q + r /\ r \in 0..Week - 1 /\ q \in Nat
  BY DivMod
<1> HIDE DEF q, r
<1>3. CASE r < s
  <2>1. s - r \in 1..Week /\ d + (s - r) = Week * q + s
    BY <1>1, <1>2, <1>3
  <2>2. (Week * q + s) % Week = s
    BY <1>1, <1>2, DivModUnique
  <2> QED  BY <2>1, <2>2
<1>4. CASE s <= r
  <2>1. Week * (q + 1) = Week * q + Week
    BY <1>2
  <2>2. s - r + Week \in 1..Week /\ d + (s - r + Week) = Week * (q + 1) + s
    BY <1>1, <1>2, <1>4, <2>1
  <2>3. (Week * (q + 1) + s) % Week = s
    BY <1>1, <1>2, DivModUnique
  <2> QED  BY <2>2, <2>3
<1> QED  BY <1>1, <1>2, <1>3, <1>4

\* The midnight of a day of the plan is allowed.
LEMMA Midnight ==
    ASSUME NEW k \in Nat, NEW S, k % Week \in S
    PROVE  Slots * k \in Nat /\ Allowed(Slots * k, S)
<1>1. Slots \in Nat \ {0} /\ 0 \in 0..Slots - 1 /\ Slots * k \in Nat
  BY TimeAssumption
<1>2. (Slots * k + 0) \div Slots = k /\ (Slots * k + 0) % Slots = 0
  BY <1>1, DivModUnique
<1>3. Slots * k + 0 = Slots * k
  BY <1>1
<1> QED  BY <1>1, <1>2, <1>3 DEF Allowed

\* Only midnights are allowed.
LEMMA AllowedDay ==
    ASSUME NEW u \in Nat, NEW S, Allowed(u, S)
    PROVE  u = Slots * (u \div Slots) /\ u \div Slots \in Nat
<1>1. u = Slots * (u \div Slots) + (u % Slots) /\ u \div Slots \in Nat
  BY TimeAssumption, DivMod
<1> QED  BY <1>1, TimeAssumption DEF Allowed

\* The next date is an allowed moment after the time given, within a week of it,
\* and no moment between the two is allowed.
LEMMA NextDate ==
    ASSUME NEW t \in Nat, NEW S \in Plan, NEW n, n = NextAutoSnapshotTime(t, S)
    PROVE  /\ n \in Nat /\ n > t /\ n <= t + Slots * Week /\ Allowed(n, S)
           /\ \A u \in Nat : t < u /\ u < n => ~ Allowed(u, S)
<1> DEFINE d == t \div Slots
           midnight == Slots * d
           dates == {c \in {midnight + Slots * offset : offset \in 0..Week} :
                       c > t /\ Allowed(c, S)}
<1>1. n = CHOOSE c \in dates : \A e \in dates : c <= e
  BY DEF NextAutoSnapshotTime
<1>2. /\ d \in Nat /\ midnight \in Nat /\ midnight <= t /\ t < midnight + Slots
      /\ Slots \in Nat \ {0} /\ Week \in Nat \ {0}
  <2>1. t = Slots * d + (t % Slots) /\ t % Slots \in 0..Slots - 1 /\ d \in Nat
    BY TimeAssumption, DivMod
  <2>2. midnight \in Nat
    BY <2>1, TimeAssumption
  <2> HIDE DEF d
  <2> QED  BY <2>1, <2>2, TimeAssumption
<1> HIDE DEF d
<1>3. \A o \in 0..Week : midnight + Slots * o = Slots * (d + o) /\ d + o \in Nat
  BY <1>2
<1>4. dates \subseteq Nat /\ \A c \in dates : c <= t + Slots * Week
  <2>1. ASSUME NEW o \in 0..Week
        PROVE  Slots * o \in Nat /\ Slots * o <= Slots * Week
    BY <1>2
  <2> QED  BY <1>2, <2>1
<1>5. dates # {}
  <2>1. PICK o \in 1..Week : (d + o) % Week \in S
    BY <1>2, SomeDay
  <2>2. o \in 0..Week /\ d + o \in Nat
    BY <1>2
  <2>3. Allowed(Slots * (d + o), S)
    BY <2>1, <2>2, Midnight
  <2>4. Slots * o >= Slots
    BY <1>2
  <2>5. midnight + Slots * o > t
    BY <1>2, <2>4
  <2>6. midnight + Slots * o \in dates
    BY <1>3, <2>2, <2>3, <2>5
  <2> QED  BY <2>6
<1>6. n \in dates /\ \A c \in dates : n <= c
  <2> HIDE DEF dates
  <2>1. \E c \in dates : \A e \in dates : c <= e
    BY <1>4, <1>5, Least
  <2> QED  BY <1>1, <2>1
<1>7. n \in Nat /\ n > t /\ n <= t + Slots * Week /\ Allowed(n, S)
  BY <1>4, <1>6
<1>8. ASSUME NEW u \in Nat, t < u, u < n, Allowed(u, S)
      PROVE  FALSE
  <2> DEFINE k == u \div Slots
  <2>1. u = Slots * k /\ k \in Nat
    BY <1>8, AllowedDay
  <2> HIDE DEF k
  <2>2. d < k
    <3>1. CASE k <= d
      <4>1. Slots * k <= Slots * d
        BY <1>2, <2>1, <3>1
      <4> QED  BY <1>2, <1>8, <2>1, <4>1
    <3> QED  BY <1>2, <2>1, <3>1
  <2>3. k <= d + Week
    <3>1. PICK o \in 0..Week : n = Slots * (d + o)
      BY <1>3, <1>6
    <3>2. CASE k > d + Week
      <4>1. Slots * (d + o) <= Slots * k
        BY <1>2, <2>1, <3>2
      <4> QED  BY <1>7, <1>8, <2>1, <3>1, <4>1
    <3> QED  BY <1>2, <2>1, <3>2
  <2>4. k - d \in 0..Week /\ d + (k - d) = k
    BY <1>2, <2>1, <2>2, <2>3
  <2>5. u = midnight + Slots * (k - d)
    BY <1>3, <2>1, <2>4
  <2>6. u \in dates
    BY <1>8, <2>4, <2>5
  <2> QED  BY <1>6, <1>7, <1>8, <2>6
<1> QED  BY <1>7, <1>8

\* There is one first date after a time.
LEMMA NextUnique ==
    ASSUME NEW t \in Nat, NEW S \in Plan, NEW n \in Nat, n > t, Allowed(n, S),
           \A u \in Nat : t < u /\ u < n => ~ Allowed(u, S)
    PROVE  n = NextAutoSnapshotTime(t, S)
<1> DEFINE m == NextAutoSnapshotTime(t, S)
<1>1. /\ m \in Nat /\ m > t /\ Allowed(m, S)
      /\ \A u \in Nat : t < u /\ u < m => ~ Allowed(u, S)
  BY NextDate
<1> HIDE DEF m
<1>2. ~ (m < n) /\ ~ (n < m)
  BY <1>1
<1> QED  BY <1>1, <1>2 DEF m

\* NextAutoSnapshotTime, which looks at the next midnights up to the same day
\* next week, returns the least allowed moment after the time, and this is a
\* moment of the model.
THEOREM NextIsFirstDate ==
    ASSUME NEW t \in 0..Horizon, NEW S \in Plan
    PROVE  /\ NextAutoSnapshotTime(t, S) = First(t, S)
           /\ NextAutoSnapshotTime(t, S) \in Moment /\ NextAutoSnapshotTime(t, S) > t
<1> DEFINE n == NextAutoSnapshotTime(t, S)
<1>1. /\ n \in Nat /\ n > t /\ n <= t + Slots * Week /\ Allowed(n, S)
      /\ \A u \in Nat : t < u /\ u < n => ~ Allowed(u, S)
  BY NextDate
<1> HIDE DEF n
<1>2. /\ Slots * Week \in Nat /\ Slots * (Week + 1) = Slots * Week + Slots /\ t \in Nat
      /\ Slots \in Nat /\ Horizon \in Nat /\ t <= Horizon
  BY TimeAssumption
<1>3. n \in Moment /\ Moment \subseteq Nat
  BY <1>1, <1>2 DEF Moment
<1>4. \A u \in t + 1..n - 1 : ~ Allowed(u, S)
  BY <1>1, <1>2
<1>5. ASSUME NEW m \in Moment, m > t, Allowed(m, S), \A u \in t + 1..m - 1 : ~ Allowed(u, S)
      PROVE  m = n
  <2>1. ~ (m < n) /\ ~ (n < m)
    BY <1>1, <1>2, <1>3, <1>5
  <2> QED  BY <1>1, <1>3, <2>1
<1>6. First(t, S) = n
  BY <1>1, <1>3, <1>4, <1>5 DEF First
<1> QED  BY <1>1, <1>3, <1>6 DEF n

\* Going from occurrence to occurrence until one is in the future (the loop of
\* nextAutoSnapshotAfter) comes to the first date after the time.
THEOREM AfterIsNext ==
    ASSUME NEW time \in Nat, NEW last \in 0..time, NEW S \in Plan
    PROVE  nextAutoSnapshotAfter(last, S, time) = NextAutoSnapshotTime(time, S)
<1> DEFINE N(t) == NextAutoSnapshotTime(t, S)
           D == last..time
           v == N(time)
           F(f) == [t \in D |-> IF N(t) > time THEN N(t) ELSE f[N(t)]]
           after == CHOOSE f : f = F(f)
<1>1. nextAutoSnapshotAfter(last, S, time) = after[last]
  BY DEF nextAutoSnapshotAfter
<1>2. \A t \in D : t \in Nat /\ t <= time
  OBVIOUS
<1>3. ASSUME NEW t \in D
      PROVE  N(t) \in Nat /\ N(t) > t /\ (N(t) <= time => N(t) \in D) /\ (N(t) > time => N(t) = v)
  <2>1. t \in Nat /\ time \in Nat /\ t <= time
    BY <1>2
  <2>2. /\ N(t) \in Nat /\ N(t) > t /\ Allowed(N(t), S)
        /\ \A u \in Nat : t < u /\ u < N(t) => ~ Allowed(u, S)
    BY <2>1, NextDate
  <2>3. ASSUME N(t) > time
        PROVE  N(t) = v
    <3> DEFINE n == N(t)
    <3> HIDE DEF n
    <3>1. /\ n \in Nat /\ n > time /\ Allowed(n, S)
          /\ \A u \in Nat : time < u /\ u < n => ~ Allowed(u, S)
      BY <2>1, <2>2, <2>3 DEF n
    <3>2. n = NextAutoSnapshotTime(time, S)
      BY <3>1, NextUnique
    <3> QED  BY <3>2 DEF n
  <2> HIDE DEF N
  <2> QED  BY <2>1, <2>2, <2>3
<1> HIDE DEF N
<1>4. after = F(after)
  <2> DEFINE g == [t \in D |-> v]
  <2>1. g = F(g)
    BY <1>3
  <2> QED  BY <2>1
<1> HIDE DEF after
<1>5. \A t \in D : after[t] = v
  <2> SUFFICES ASSUME NEW s \in D, after[s] # v
               PROVE  FALSE
    OBVIOUS
  <2> DEFINE bad == {n \in Nat : \E t \in D : n = time - t /\ after[t] # v}
  <2>1. time - s \in bad
    BY <1>2
  <2>2. PICK n \in bad : \A m \in bad : n <= m
    <3> HIDE DEF bad
    <3>1. bad \subseteq Nat
      BY DEF bad
    <3> QED  BY <2>1, <3>1, Least
  <2>3. PICK t \in D : n = time - t /\ after[t] # v
    BY <2>2
  <2>4. after[t] = IF N(t) > time THEN N(t) ELSE after[N(t)]
    BY <1>4
  <2>5. N(t) \in D /\ after[N(t)] # v /\ N(t) > t
    BY <1>2, <1>3, <2>3, <2>4
  <2>6. time - N(t) \in bad /\ time - N(t) < n
    BY <1>2, <2>3, <2>5
  <2> QED  BY <1>2, <2>2, <2>3, <2>6
<1> QED  BY <1>1, <1>5 DEF N

-----------------------------------------------------------------------------
(* The worker and the users.                                               *)

\* A job that is waiting or running.
Waits(j) == job[j].status \in {"pending", "running"}

\* In a step no job is made, and none comes to wait or run except as a
\* resumed one.
NoneComes ==
    \A j \in Job : job'[j].status # "free" =>
        /\ job[j].status # "free" /\ job'[j].pool = job[j].pool
        /\ Waits(j)' => job'[j].resumed \/ (Waits(j) /\ ~ job[j].resumed)

\* What users ask for are plans (normalizeWeeklySchedule refuses no days).
LEMMA PlanSchedules == Schedules \subseteq Plan
BY SchedulesAssumption DEF Plan

\* Without a job that comes to wait, what waits stays resumed.
LEMMA WaitingKept ==
    ASSUME AutoTypeOK, AutoTypeOK', NoneComes
    PROVE  /\ OneWaits => OneWaits'
           /\ Clear /\ worker' = worker => Clear'
<1>1. OneWaits => OneWaits'
  BY DEF OneWaits, NoneComes, Waits
<1>2. Clear /\ worker' = worker => Clear'
  BY DEF Clear, NoneComes, Waits
<1> QED  BY <1>1, <1>2

\* A step of users on jobs, or of the heartbeat: only jobs and the stop reason
\* change.
LEMMA JobsOnly ==
    ASSUME AutoInv, AutoTypeOK', NoneComes,
           UNCHANGED <<now, pool, worker, since, made, amiss>>
    PROVE  AutoInv'
<1> USE DEF AutoInv
<1>1. Dated' /\ Fresh' /\ Moved' /\ NextIsFirst'
  BY DEF Dated, NoneComes, Fresh, Moved, NextIsFirst, WorkerAt
<1> QED  BY <1>1, WaitingKept

\* A step of the worker, or its death, that leaves the rows of pools and their
\* history alone and does not take a pool up.
LEMMA WorkerOnly ==
    ASSUME AutoInv, AutoTypeOK', NoneComes,
           UNCHANGED <<now, pool, since, made>>,
           worker'.at <= now, worker'.pc \notin {"queue", "insert"},
           worker'.pc = "due" => /\ worker.pc \in {"due", "queue", "insert"}
                                 /\ worker'.todo \subseteq worker.todo
                                 /\ worker'.seen = worker.seen /\ worker'.at = worker.at,
           worker'.pc \in {"load", "snapshot", "look"} => worker'.pool \in Pool,
           worker'.pc \in {"snapshot", "look"} =>
                worker'.seen[worker'.pool].schedule \in Plan,
           \A p \in Pool : ~ amiss'[p] =>
                ~ amiss[p] /\ ~ (WorkerAt("insert") /\ worker.pool = p)
    PROVE  AutoInv'
<1> USE DEF AutoInv
<1>1. Dated'
  BY DEF Dated, NoneComes
<1>2. Fresh'
  BY DEF Fresh, WorkerAt
<1>3. Clear' /\ Moved'
  BY DEF Clear, Moved, WorkerAt
<1>4. NextIsFirst'
  BY DEF NextIsFirst, WorkerAt
<1> QED  BY <1>1, <1>2, <1>3, <1>4, WaitingKept

\* The worker at its loop holds nothing.
LEMMA IdleType == Idle \in [pc : {"sweep"}, todo : {{}}, seen : [Pool -> Setup], at : {0},
                            pool : {Nil}, job : {Nil}]
BY DEF Idle, Off, Setup

\* The worker is back at its loop, or dies.
LEMMA WorkerIdle ==
    ASSUME AutoInv, AutoTypeOK', NoneComes, worker' = Idle,
           UNCHANGED <<now, pool, since, made>>,
           \A p \in Pool : ~ amiss'[p] =>
                ~ amiss[p] /\ ~ (WorkerAt("insert") /\ worker.pool = p)
    PROVE  AutoInv'
<1>1. worker'.at <= now
  BY TimeAssumption DEF AutoInv, AutoTypeOK, Idle
<1>2. worker'.pc = "sweep"
  BY DEF Idle
<1> QED  BY <1>1, <1>2, WorkerOnly

\* A user pauses a job.
LEMMA PauseInv == ASSUME AutoInv, NEW j \in Job, Pause(j) PROVE AutoInv'
<1>1. AutoTypeOK'
  BY DEF AutoInv, AutoTypeOK, Pause, Ask, Row
<1>2. NoneComes
  BY DEF AutoInv, AutoTypeOK, Pause, NoneComes, Waits, Row
<1> QED  BY <1>1, <1>2, JobsOnly DEF Pause

\* A user resumes a job: it comes to wait, and is marked for it.
LEMMA ResumeInv == ASSUME AutoInv, NEW j \in Job, Resume(j) PROVE AutoInv'
<1>1. AutoTypeOK'
  <2>1. [job[j] EXCEPT !.status = "pending", !.resumed = TRUE] \in Row
    <3>1. job[j] \in Row
      BY DEF AutoInv, AutoTypeOK
    <3>2. ASSUME NEW r \in Row
          PROVE  [r EXCEPT !.status = "pending", !.resumed = TRUE] \in Row
      BY DEF Row
    <3> QED  BY <3>1, <3>2
  <2>2. job' \in [Job -> Row]
    BY <2>1 DEF AutoInv, AutoTypeOK, Resume
  <2> QED  BY <2>2 DEF AutoInv, AutoTypeOK, Resume
<1>2. NoneComes
  BY DEF AutoInv, AutoTypeOK, Resume, NoneComes, Waits, Row
<1> QED  BY <1>1, <1>2, JobsOnly DEF Resume

\* A row that is not there.
LEMMA FreeType == Free \in Row /\ Free.status = "free"
BY TimeAssumption DEF Free, Row, Moment

\* A user cancels or deletes a job.
LEMMA DropInv == ASSUME AutoInv, NEW j \in Job, Drop(j) PROVE AutoInv'
<1>1. AutoTypeOK'
  BY FreeType DEF AutoInv, AutoTypeOK, Drop, Ask
<1>2. NoneComes
  BY FreeType DEF AutoInv, AutoTypeOK, Drop, NoneComes, Waits
<1> QED  BY <1>1, <1>2, JobsOnly DEF Drop

\* A job whose heartbeat has stopped is failed.
LEMMA StaleInv == ASSUME AutoInv, NEW j \in Job, markStaleRunningJobs(j) PROVE AutoInv'
<1>1. AutoTypeOK'
  BY FreeType DEF AutoInv, AutoTypeOK, markStaleRunningJobs
<1>2. NoneComes
  BY FreeType DEF AutoInv, AutoTypeOK, markStaleRunningJobs, NoneComes, Waits
<1> QED  BY <1>1, <1>2, JobsOnly DEF markStaleRunningJobs

\* A failure, or none, keeps the type of the count of failures.
LEMMA FaultType == ASSUME AutoTypeOK, Fault \/ Skip PROVE faults' \in 0..Faults
BY FaultsAssumption DEF AutoTypeOK, Fault, Skip

\* The end of a job, or its pause, brings none to wait.
LEMMA JobEnds ==
    ASSUME AutoTypeOK, NEW j \in Job, updateFailure(j) \/ updatePaused(j) \/ UNCHANGED job
    PROVE  job' \in [Job -> Row] /\ NoneComes
<1>1. CASE updateFailure(j)
  BY <1>1, FreeType DEF AutoTypeOK, updateFailure, NoneComes, Waits
<1>2. CASE updatePaused(j)
  <2>1. [job[j] EXCEPT !.status = "paused"] \in Row /\ job[j] \in Row
    BY DEF AutoTypeOK, Row
  <2>2. job' = [job EXCEPT ![j] = IF Waits(j) THEN [job[j] EXCEPT !.status = "paused"]
                                              ELSE job[j]]
    BY <1>2 DEF updatePaused, Waits, AutoTypeOK, Row
  <2> QED  BY <2>1, <2>2 DEF AutoTypeOK, NoneComes, Waits, Row
<1>3. CASE UNCHANGED job
  BY <1>3 DEF AutoTypeOK, NoneComes, Waits, OneWaits
<1> QED  BY <1>1, <1>2, <1>3

\* The worker comes to the end of a job, whichever that is.
LEMMA RestInv ==
    ASSUME AutoInv, NEW j \in Job, Rests, Fault \/ Skip,
           updateFailure(j) \/ updatePaused(j) \/ UNCHANGED job,
           UNCHANGED <<now, pool, since, made, amiss>>, ~ WorkerAt("insert")
    PROVE  AutoInv'
<1>1. AutoTypeOK'
  <2>1. job' \in [Job -> Row] /\ faults' \in 0..Faults
    BY JobEnds, FaultType DEF AutoInv
  <2>2. worker' \in [pc : {"sweep"}, todo : {{}}, seen : [Pool -> Setup], at : {0},
                     pool : {Nil}, job : {Nil}] /\ 0 \in Moment
    BY IdleType, TimeAssumption DEF Rests, Moment
  <2> QED  BY <2>1, <2>2 DEF AutoInv, AutoTypeOK, Rests
<1>2. NoneComes
  BY JobEnds DEF AutoInv
<1> QED  BY <1>1, <1>2, WorkerIdle DEF Rests

\* The process dies; a pool whose date was moved and has no job yet is amiss.
LEMMA DieInv == AutoInv /\ Die => AutoInv'
<1> SUFFICES ASSUME AutoInv, Die PROVE AutoInv'
  OBVIOUS
<1>1. AutoTypeOK'
  <2>1. faults' \in 0..Faults
    BY FaultType DEF AutoInv, Die
  <2>2. worker' \in [pc : {"sweep"}, todo : {{}}, seen : [Pool -> Setup], at : {0},
                     pool : {Nil}, job : {Nil}] /\ 0 \in Moment
    BY IdleType, TimeAssumption DEF Die, Moment
  <2>3. amiss' \in [Pool -> BOOLEAN]
    BY DEF Die, AutoInv, AutoTypeOK, WorkerAt
  <2> QED  BY <2>1, <2>2, <2>3 DEF AutoInv, AutoTypeOK, Die
<1>2. NoneComes
  BY DEF Die, NoneComes, Waits
<1>3. \A p \in Pool : ~ amiss'[p] => ~ amiss[p] /\ ~ (WorkerAt("insert") /\ worker.pool = p)
  BY DEF Die, AutoInv, AutoTypeOK
<1> QED  BY <1>1, <1>2, <1>3, WorkerIdle DEF Die

\* The pool of the job is read, and is enabled when the snapshot begins.
LEMMA LoadPoolInv == ASSUME AutoInv, NEW j \in Job, LoadPool(j) PROVE AutoInv'
<1>1. worker.pool \in Pool /\ ~ WorkerAt("insert")
  BY DEF LoadPool, AutoInv, Dated, WorkerAt
<1>2. CASE Rests
  BY <1>1, <1>2, RestInv DEF LoadPool
<1>3. CASE ~ Rests
  <2> DEFINE p == worker.pool
  <2>1. /\ pool[p].enabled /\ Skip /\ UNCHANGED <<job, stop, now, pool, since, made, amiss>>
        /\ worker' = [worker EXCEPT !.pc = "snapshot", !.seen[p] = pool[p]]
    BY <1>3 DEF LoadPool
  <2>2. pool[p] \in Setup /\ worker'.seen = [worker.seen EXCEPT ![p] = pool[p]]
    BY <1>1, <2>1 DEF AutoInv, AutoTypeOK
  <2>3. AutoTypeOK'
    <3>1. worker'.seen \in [Pool -> Setup]
      BY <1>1, <2>2 DEF AutoInv, AutoTypeOK
    <3> QED  BY <2>1, <3>1 DEF AutoInv, AutoTypeOK, Skip
  <2>4. NoneComes
    BY <2>1 DEF NoneComes, Waits, AutoInv, OneWaits
  <2>5. /\ worker'.seen[p].schedule \in Plan /\ worker'.pool = p
        /\ worker'.pc = "snapshot" /\ worker'.at = worker.at
    BY <1>1, <2>1, <2>2 DEF AutoInv, AutoTypeOK, Dated
  <2>6. worker'.at <= now
    BY <2>5 DEF AutoInv, Dated
  <2> QED  BY <1>1, <2>1, <2>3, <2>4, <2>5, <2>6, WorkerOnly
<1> QED  BY <1>2, <1>3

\* The snapshot is made, or ends the job.
LEMMA MakeSnapshotInv == ASSUME AutoInv, NEW j \in Job, MakeSnapshot(j) PROVE AutoInv'
<1>1. worker.pool \in Pool /\ ~ WorkerAt("insert") /\ WorkerAt("snapshot")
  BY DEF MakeSnapshot, AutoInv, Dated, WorkerAt
<1>2. CASE Rests
  BY <1>1, <1>2, RestInv DEF MakeSnapshot
<1>3. CASE ~ Rests
  <2>1. /\ Skip /\ UNCHANGED <<job, now, pool, since, made, amiss>> /\ stop' = "none"
        /\ worker' = [worker EXCEPT !.pc = "look"]
    BY <1>3 DEF MakeSnapshot, GoesTo
  <2>2. AutoTypeOK'
    BY <2>1 DEF AutoInv, AutoTypeOK, Skip
  <2>3. NoneComes
    BY <2>1 DEF NoneComes, Waits
  <2>4. /\ worker'.seen = worker.seen /\ worker'.pool = worker.pool /\ worker'.pc = "look"
        /\ worker'.at = worker.at
    BY <2>1 DEF AutoInv, AutoTypeOK
  <2>5. worker'.at <= now /\ worker.seen[worker.pool].schedule \in Plan
    BY <1>1, <2>4 DEF AutoInv, Dated, WorkerAt
  <2> QED  BY <1>1, <2>1, <2>2, <2>3, <2>4, <2>5, WorkerOnly
<1> QED  BY <1>2, <1>3

\* The job ends.
LEMMA UpdateSuccessInv == ASSUME AutoInv, NEW j \in Job, updateSuccess(j) PROVE AutoInv'
<1>1. ~ WorkerAt("insert")
  BY DEF updateSuccess, WorkerAt
<1> QED  BY <1>1, RestInv DEF updateSuccess

\* A pending job is taken; it is some pool's.
LEMMA ClaimInv == AutoInv /\ claimNextPendingJob => AutoInv'
<1> SUFFICES ASSUME AutoInv, claimNextPendingJob PROVE AutoInv'
  OBVIOUS
<1>1. ~ WorkerAt("insert") /\ UNCHANGED <<now, pool, stop, since, made, amiss>>
  BY DEF claimNextPendingJob, WorkerAt
<1>2. faults' \in 0..Faults
  BY FaultType DEF claimNextPendingJob, AutoInv
<1>3. Idle \in [pc : {"sweep"}, todo : {{}}, seen : [Pool -> Setup], at : {0},
                pool : {Nil}, job : {Nil}] /\ 0 \in Moment /\ 0 <= now
  BY IdleType, TimeAssumption DEF Moment, AutoInv, AutoTypeOK
<1>4. CASE worker' = Idle /\ UNCHANGED job
  <2>1. AutoTypeOK'
    BY <1>1, <1>2, <1>3, <1>4 DEF AutoInv, AutoTypeOK
  <2>2. NoneComes
    BY <1>4 DEF NoneComes, Waits
  <2> QED  BY <1>1, <1>4, <2>1, <2>2, WorkerIdle
<1>5. CASE \E j \in Pending :
              /\ job' = [job EXCEPT ![j].status = "running"]
              /\ worker' = [Idle EXCEPT !.pc = "load", !.job = j, !.pool = job[j].pool]
  <2>1. PICK j \in Pending :
              /\ job' = [job EXCEPT ![j].status = "running"]
              /\ worker' = [Idle EXCEPT !.pc = "load", !.job = j, !.pool = job[j].pool]
    BY <1>5
  <2>2. j \in Job /\ job[j].status = "pending"
    BY DEF Pending
  <2>3. job[j].pool \in Pool
    BY <2>2 DEF AutoInv, Dated
  <2>4. [job[j] EXCEPT !.status = "running"] \in Row /\ job[j].pool \in Pool \cup {Nil}
    BY <2>2 DEF AutoInv, AutoTypeOK, Row
  <2>5. AutoTypeOK'
    BY <1>1, <1>2, <1>3, <2>1, <2>2, <2>4 DEF AutoInv, AutoTypeOK
  <2>6. NoneComes
    BY <2>1, <2>2 DEF NoneComes, Waits, AutoInv, AutoTypeOK, Row
  <2>7. worker'.pc = "load" /\ worker'.pool \in Pool /\ worker'.at = 0
    BY <1>3, <2>1, <2>3
  <2> QED  BY <1>1, <1>3, <2>5, <2>6, <2>7, WorkerOnly
<1> QED  BY <1>4, <1>5 DEF claimNextPendingJob

\* The process starts with no schedule and no job.
LEMMA InitAutoInv == AutoInit => AutoInv
<1> SUFFICES ASSUME AutoInit PROVE AutoInv
  OBVIOUS
<1>1. 0 \in Moment /\ 0 \in 0..Horizon /\ 0 \in 0..Faults
  BY TimeAssumption, FaultsAssumption DEF Moment
<1>2. AutoTypeOK
  BY <1>1, IdleType, FreeType DEF AutoInit, AutoTypeOK, Off, Setup
<1>3. worker.pc = "sweep" /\ worker.at = 0 /\ \A p \in Pool : ~ pool[p].enabled
  BY DEF AutoInit, Idle, Off
<1>4. \A j \in Job : job[j].status = "free"
  BY FreeType DEF AutoInit
<1>5. Dated
  BY <1>3, <1>4 DEF AutoInit, Dated
<1>6. Fresh /\ Clear /\ Moved /\ NextIsFirst /\ OneWaits
  BY <1>3, <1>4 DEF Fresh, Clear, Moved, NextIsFirst, OneWaits, WorkerAt
<1> QED  BY <1>2, <1>5, <1>6 DEF AutoInv

\* Time passes; nothing in the past moves.
LEMMA TickInv == AutoInv /\ Tick => AutoInv'
<1> SUFFICES ASSUME AutoInv, Tick PROVE AutoInv'
  OBVIOUS
<1> USE DEF AutoInv
<1>1. AutoTypeOK'
  BY TimeAssumption DEF AutoTypeOK, Tick
<1>2. now <= now' /\ now \in Int /\ now' \in Int
  BY TimeAssumption DEF AutoTypeOK, Tick
<1>3. worker.at \in Int /\ \A p \in Pool : since[p] \in Int /\ made[p] \in Int
  BY DEF AutoTypeOK, Moment
<1>4. Dated'
  BY <1>2, <1>3 DEF Dated, Tick
<1>5. Fresh' /\ Moved' /\ NextIsFirst' /\ Clear' /\ OneWaits'
  BY DEF Fresh, Clear, Moved, NextIsFirst, OneWaits, WorkerAt, Tick
<1> QED  BY <1>1, <1>4, <1>5

\* A moment of the clock, and the next date of a plan after it.
LEMMA Clock ==
    ASSUME AutoInv
    PROVE  /\ now \in 0..Horizon /\ now \in Moment /\ now \in Nat /\ Moment \subseteq Nat
           /\ worker.at \in 0..Horizon /\ worker.at <= now
           /\ \A p \in Pool : /\ since[p] \in Nat /\ since[p] <= now
                              /\ made[p] \in Int /\ made[p] <= now
<1>1. Slots * (Week + 1) \in Nat /\ Horizon \in Nat
  BY TimeAssumption
<1> QED  BY <1>1 DEF AutoInv, AutoTypeOK, Dated, Moment

\* A schedule is set: its first date after now is after whatever was queued and
\* whatever the worker has read.
LEMMA UpdatePoolInv == ASSUME AutoInv, NEW p \in Pool, UpdatePool(p) PROVE AutoInv'
<1> USE DEF AutoInv
<1>1. PICK enabled \in BOOLEAN, schedule \in Schedules :
         pool' = [pool EXCEPT ![p] =
                    IF enabled
                    THEN [enabled |-> TRUE, schedule |-> schedule,
                          next |-> NextAutoSnapshotTime(now, schedule)]
                    ELSE Off]
  BY DEF UpdatePool
<1> DEFINE n == NextAutoSnapshotTime(now, schedule)
<1>2. n = First(now, schedule) /\ n \in Moment /\ n > now /\ schedule \in Plan
  BY Clock, PlanSchedules, NextIsFirstDate
<1> HIDE DEF n
<1>3. /\ since' = [since EXCEPT ![p] = now] /\ amiss' = [amiss EXCEPT ![p] = FALSE]
      /\ UNCHANGED <<now, job, worker, stop, faults, made>>
  BY DEF UpdatePool
<1>4. AutoTypeOK'
  <2>1. Off \in Setup /\ [enabled |-> TRUE, schedule |-> schedule, next |-> n] \in Setup
    BY <1>2 DEF Off, Setup
  <2>2. pool' \in [Pool -> Setup] /\ since' \in [Pool -> Moment] /\ amiss' \in [Pool -> BOOLEAN]
    BY <1>1, <1>3, <2>1, Clock DEF AutoTypeOK, n
  <2> QED  BY <1>3, <2>2 DEF AutoTypeOK
<1>5. /\ \A q \in Pool \ {p} : pool'[q] = pool[q] /\ since'[q] = since[q] /\ amiss'[q] = amiss[q]
      /\ since'[p] = now
      /\ pool'[p].enabled => pool'[p].schedule = schedule /\ pool'[p].next = n
  BY <1>1, <1>3 DEF AutoTypeOK, Off, n
<1>6. Dated'
  BY <1>2, <1>3, <1>5, Clock DEF Dated
<1>7. Fresh'
  <2>1. pool'[p].enabled => pool'[p].next > made[p] /\ pool'[p].next > worker.at
    BY <1>2, <1>5, Clock
  <2> QED  BY <1>3, <1>5, <2>1 DEF Fresh, WorkerAt
<1>8. Clear' /\ OneWaits'
  BY <1>3 DEF Clear, OneWaits
<1>9. Moved'
  <2>1. (IF worker.at > since'[p] THEN worker.at ELSE since'[p]) = now
    BY <1>5, Clock
  <2> QED  BY <1>2, <1>3, <1>5, <2>1 DEF Moved, WorkerAt
<1>10. NextIsFirst'
  BY <1>2, <1>3, <1>5 DEF NextIsFirst, WorkerAt
<1> QED  BY <1>4, <1>6, <1>7, <1>8, <1>9, <1>10

\* The pools are read; those that are due have no job for this occurrence.
LEMMA ListPoolsInv == AutoInv /\ ListPools => AutoInv'
<1> SUFFICES ASSUME AutoInv, ListPools PROVE AutoInv'
  OBVIOUS
<1>1. UNCHANGED <<now, pool, job, stop, since, made, amiss>> /\ WorkerAt("sweep")
  BY DEF ListPools
<1>2. NoneComes /\ faults' \in 0..Faults
  BY <1>1, FaultType DEF NoneComes, Waits, ListPools, AutoInv, OneWaits
<1>3. ~ WorkerAt("insert")
  BY <1>1 DEF WorkerAt
<1>4. CASE worker' = [worker EXCEPT !.pc = "claim"]
  <2>1. AutoTypeOK'
    BY <1>1, <1>2, <1>4 DEF AutoInv, AutoTypeOK
  <2>2. worker'.pc = "claim" /\ worker'.at = worker.at /\ worker.at <= now
    BY <1>4 DEF AutoInv, AutoTypeOK, Dated
  <2> QED  BY <1>1, <1>2, <1>3, <2>1, <2>2, WorkerOnly
<1>5. CASE worker' = [worker EXCEPT !.pc = "due", !.seen = pool, !.at = now,
              !.todo = {p \in Pool : pool[p].enabled /\ pool[p].next <= now}]
  <2> USE DEF AutoInv
  <2>1. AutoTypeOK'
    BY <1>1, <1>2, <1>5, Clock DEF AutoTypeOK
  <2>2. /\ worker'.pc = "due" /\ worker'.seen = pool /\ worker'.at = now
        /\ worker'.todo = {p \in Pool : pool[p].enabled /\ pool[p].next <= now}
    BY <1>5 DEF AutoTypeOK
  <2>3. Dated'
    BY <1>1, <2>2, Clock DEF Dated
  <2>4. Fresh'
    <3>1. ASSUME NEW p \in Pool, pool[p].enabled, pool[p].next <= now
          PROVE  pool[p].schedule \in Plan /\ pool[p].next \in made[p] + 1..now
      BY <3>1, Clock DEF Dated, Fresh
    <3> QED  BY <1>1, <2>2, <3>1 DEF Fresh, WorkerAt
  <2>5. Clear' /\ OneWaits' /\ Moved' /\ NextIsFirst'
    BY <1>1, <1>3, <2>2 DEF Clear, OneWaits, Moved, NextIsFirst, WorkerAt
  <2> QED  BY <2>1, <2>3, <2>4, <2>5
<1> QED  BY <1>4, <1>5 DEF ListPools, GoesTo

\* The worker is done with a pool it was to queue.
LEMMA DoneInv ==
    ASSUME AutoInv, NEW p \in Pool, p \in worker.todo, worker' = Done(p), Fault \/ Skip,
           UNCHANGED <<now, pool, job, stop, since, made>>, amiss' \in [Pool -> BOOLEAN],
           worker.pc \in {"due", "queue", "insert"},
           \A q \in Pool : ~ amiss'[q] =>
                ~ amiss[q] /\ ~ (WorkerAt("insert") /\ worker.pool = q)
    PROVE  AutoInv'
<1>1. NoneComes /\ faults' \in 0..Faults
  BY FaultType DEF NoneComes, Waits, AutoInv, OneWaits
<1>2. AutoTypeOK'
  BY <1>1 DEF AutoInv, AutoTypeOK, Done
<1>3. /\ worker'.pc = "due" /\ worker'.todo \subseteq worker.todo
      /\ worker'.seen = worker.seen /\ worker'.at = worker.at /\ worker.at <= now
  BY DEF AutoInv, AutoTypeOK, Dated, Done
<1> QED  BY <1>1, <1>2, <1>3, WorkerOnly

\* No job of the pool waits: nothing but a resumed one can come to, until one
\* is inserted.
LEMMA CheckWaitingInv == ASSUME AutoInv, NEW p \in Pool, CheckWaiting(p) PROVE AutoInv'
<1>1. /\ UNCHANGED <<now, pool, job, stop, since, made, amiss>> /\ WorkerAt("due")
      /\ p \in worker.todo
  BY DEF CheckWaiting
<1>2. CASE worker' = Done(p)
  BY <1>1, <1>2, DoneInv DEF CheckWaiting, WorkerAt, AutoInv, AutoTypeOK
<1>3. CASE worker' # Done(p)
  <2> USE DEF AutoInv
  <2>1. /\ Skip /\ ~ hasPendingOrRunning(p)
        /\ worker' = [worker EXCEPT !.pc = "queue", !.pool = p]
    BY <1>3 DEF CheckWaiting
  <2>2. AutoTypeOK'
    BY <1>1, <2>1 DEF AutoTypeOK, Skip
  <2>3. /\ worker'.pc = "queue" /\ worker'.pool = p /\ worker'.todo = worker.todo
        /\ worker'.seen = worker.seen /\ worker'.at = worker.at
    BY <2>1 DEF AutoTypeOK
  <2>4. Dated'
    BY <1>1, <2>3 DEF Dated
  <2>5. Fresh'
    BY <1>1, <2>3 DEF Fresh, WorkerAt
  <2>6. Clear'
    BY <1>1, <2>1, <2>3 DEF Clear, hasPendingOrRunning
  <2>7. OneWaits' /\ Moved' /\ NextIsFirst'
    BY <1>1, <2>3 DEF OneWaits, Moved, NextIsFirst, WorkerAt
  <2> QED  BY <2>2, <2>4, <2>5, <2>6, <2>7
<1> QED  BY <1>2, <1>3

\* The date is moved past the reading, whatever the row has become meanwhile;
\* it is the first of the row's schedule unless the row was overtaken.
LEMMA QueuedInv == ASSUME AutoInv, NEW p \in Pool, UpdateAutoSnapshotQueued(p) PROVE AutoInv'
<1> USE DEF AutoInv
<1>1. /\ UNCHANGED <<now, job, stop, since, made>> /\ WorkerAt("queue")
      /\ p = worker.pool /\ p \in worker.todo /\ worker.pc = "queue"
  BY DEF UpdateAutoSnapshotQueued, WorkerAt, Dated
<1>2. CASE worker' = Done(p) /\ UNCHANGED <<pool, amiss>>
  BY <1>1, <1>2, DoneInv DEF UpdateAutoSnapshotQueued, WorkerAt, AutoTypeOK
<1>3. CASE ~ (worker' = Done(p) /\ UNCHANGED <<pool, amiss>>)
  <2> DEFINE S == worker.seen[p].schedule
             n == nextAutoSnapshotAfter(worker.seen[p].next, S, worker.at)
  <2>1. /\ Skip /\ worker' = [worker EXCEPT !.pc = "insert"]
        /\ pool' = [pool EXCEPT ![p].next = n]
        /\ amiss' = [amiss EXCEPT ![p] = Overtaken(p)]
    BY <1>3 DEF UpdateAutoSnapshotQueued, GoesTo
  <2>2. S \in Plan /\ worker.seen[p].next \in made[p] + 1..worker.at
    BY <1>1 DEF Fresh
  <2>3. worker.seen[p].next \in 0..worker.at
    <3>1. made[p] \in Int /\ made[p] + 1 >= 0 /\ worker.at \in Nat
      BY TimeAssumption DEF AutoTypeOK, Moment
    <3> QED  BY <2>2, <3>1
  <2>4. n = First(worker.at, S) /\ n \in Moment /\ n > worker.at
    BY <2>2, <2>3, Clock, AfterIsNext, NextIsFirstDate
  <2> HIDE DEF n
  <2>5. /\ worker'.pc = "insert" /\ worker'.pool = p /\ worker'.todo = worker.todo
        /\ worker'.seen = worker.seen /\ worker'.at = worker.at
    BY <1>1, <2>1 DEF AutoTypeOK
  <2>6. /\ \A q \in Pool \ {p} : pool'[q] = pool[q] /\ amiss'[q] = amiss[q]
        /\ pool'[p].enabled = pool[p].enabled /\ pool'[p].schedule = pool[p].schedule
        /\ pool'[p].next = n /\ amiss'[p] = Overtaken(p)
    BY <2>1 DEF AutoTypeOK, Setup
  <2>7. AutoTypeOK'
    <3>1. Overtaken(p) \in BOOLEAN
      BY DEF Overtaken
    <3>2. [pool[p] EXCEPT !.next = n] \in Setup
      BY <2>4 DEF AutoTypeOK, Setup
    <3>3. pool' \in [Pool -> Setup] /\ amiss' \in [Pool -> BOOLEAN]
      BY <2>1, <3>1, <3>2 DEF AutoTypeOK
    <3> QED  BY <1>1, <2>1, <3>3 DEF AutoTypeOK, Skip
  <2>8. Dated'
    BY <1>1, <2>4, <2>5, <2>6 DEF Dated
  <2>9. Fresh'
    <3>1. n > made[p]
      BY <2>2, <2>4, Clock
    <3> QED  BY <1>1, <2>4, <2>5, <2>6, <3>1 DEF Fresh, WorkerAt
  <2>10. Clear' /\ OneWaits'
    BY <1>1, <2>5 DEF Clear, OneWaits
  <2>11. Moved'
    <3>1. ASSUME ~ amiss'[p]
          PROVE  /\ (IF worker.at > since[p] THEN worker.at ELSE since[p]) = worker.at
                 /\ pool[p].schedule = S
      <4>1. ~ (since[p] > worker.at) /\ pool[p].schedule = S
        BY <2>6, <3>1 DEF Overtaken
      <4> QED  BY <4>1, Clock
    <3> QED  BY <1>1, <2>4, <2>5, <2>6, <3>1 DEF Moved, WorkerAt
  <2>12. NextIsFirst'
    BY <1>1, <2>5, <2>6 DEF NextIsFirst, WorkerAt
  <2> QED  BY <2>7, <2>8, <2>9, <2>10, <2>11, <2>12
<1> QED  BY <1>2, <1>3

\* The job of the occurrence is inserted, its date having been moved before; or
\* it is lost, and the row is amiss.
LEMMA EnqueueInv ==
    ASSUME AutoInv, NEW p \in Pool, NEW j \in Job, enqueueAutoSnapshotJob(p, j)
    PROVE  AutoInv'
<1> USE DEF AutoInv
<1>1. /\ UNCHANGED <<now, pool, stop>> /\ WorkerAt("insert") /\ worker' = Done(p)
      /\ p = worker.pool /\ p \in worker.todo /\ worker.pc = "insert"
      /\ job[j].status = "free"
  BY DEF enqueueAutoSnapshotJob, WorkerAt, Dated
<1>2. CASE Fault /\ amiss' = [amiss EXCEPT ![p] = TRUE] /\ UNCHANGED <<job, since, made>>
  <2>1. /\ amiss' \in [Pool -> BOOLEAN]
        /\ \A q \in Pool : ~ amiss'[q] => ~ amiss[q] /\ ~ (WorkerAt("insert") /\ worker.pool = q)
    BY <1>1, <1>2 DEF AutoTypeOK
  <2> QED  BY <1>1, <1>2, <2>1, DoneInv
<1>3. CASE ~ (Fault /\ amiss' = [amiss EXCEPT ![p] = TRUE] /\ UNCHANGED <<job, since, made>>)
  <2> DEFINE due == worker.seen[p].next
             new == [status |-> "pending", pool |-> p, due |-> due,
                     created |-> worker.at, resumed |-> FALSE]
             later == IF worker.at > since[p] THEN worker.at ELSE since[p]
  <2>1. /\ Skip /\ UNCHANGED amiss /\ job' = [job EXCEPT ![j] = new]
        /\ since' = [since EXCEPT ![p] = later] /\ made' = [made EXCEPT ![p] = due]
    BY <1>3 DEF enqueueAutoSnapshotJob
  <2>2. due \in made[p] + 1..worker.at
    BY <1>1 DEF Fresh
  <2>3. /\ due \in Moment /\ due <= worker.at /\ later \in Moment /\ later <= now
        /\ worker.at \in Moment
    <3>1. made[p] \in Int /\ made[p] + 1 >= 0
      BY TimeAssumption DEF AutoTypeOK, Moment
    <3>2. due \in 0..worker.at /\ 0..now \subseteq Moment
      BY <2>2, <3>1, Clock, TimeAssumption DEF Moment
    <3> QED  BY <3>1, <3>2, Clock DEF AutoTypeOK
  <2>4. /\ worker'.pc = "due" /\ worker'.todo = worker.todo \ {p} /\ worker'.pool = Nil
        /\ worker'.seen = worker.seen /\ worker'.at = worker.at /\ worker'.job = worker.job
    BY <1>1 DEF AutoTypeOK, Done
  <2> HIDE DEF due, later
  <2>5. AutoTypeOK'
    <3>1. new \in Row
      BY <2>3 DEF Row
    <3>2. /\ job' \in [Job -> Row] /\ since' \in [Pool -> Moment]
          /\ made' \in [Pool -> Moment \cup {-1}]
      BY <2>1, <2>3, <3>1 DEF AutoTypeOK
    <3>3. worker' \in [pc : {"due"}, todo : SUBSET Pool, seen : [Pool -> Setup], at : Moment,
                       pool : {Nil}, job : Job \cup {Nil}]
      BY <1>1 DEF AutoTypeOK, Done
    <3> QED  BY <1>1, <2>1, <3>2, <3>3 DEF AutoTypeOK, Skip
  <2>6. /\ \A q \in Pool \ {p} : since'[q] = since[q] /\ made'[q] = made[q]
        /\ since'[p] = later /\ made'[p] = due
        /\ \A k \in Job \ {j} : job'[k] = job[k]
        /\ job'[j].pool = p /\ job'[j].status = "pending"
    BY <2>1 DEF AutoTypeOK
  <2>7. Dated'
    BY <1>1, <2>3, <2>4, <2>6, Clock DEF Dated
  <2>8. Fresh'
    <3>1. pool[p].enabled => pool[p].next > worker.at
      BY <1>1 DEF Fresh
    <3>2. pool[p].enabled => pool[p].next \in Nat /\ pool[p].next > due
      BY <2>3, <3>1, Clock DEF Dated
    <3>3. \A q \in Pool : pool[q].enabled => pool[q].next > made'[q]
      BY <2>6, <3>2 DEF Fresh
    <3>4. \A q \in worker.todo \ {p} :
            /\ worker.seen[q].schedule \in Plan
            /\ worker.seen[q].next \in made'[q] + 1..worker.at
      BY <1>1, <2>6 DEF Fresh, AutoTypeOK
    <3>5. pool' = pool
      BY <1>1
    <3> QED  BY <2>4, <3>3, <3>4, <3>5 DEF Fresh, WorkerAt
  <2>9. OneWaits'
    BY <1>1, <2>6 DEF OneWaits, Clear
  <2>10. NextIsFirst'
    BY <1>1, <2>1, <2>4, <2>6 DEF NextIsFirst, Moved, WorkerAt, later
  <2>11. Clear' /\ Moved'
    BY <2>4 DEF Clear, Moved, WorkerAt
  <2> QED  BY <2>5, <2>7, <2>8, <2>9, <2>10, <2>11
<1> QED  BY <1>2, <1>3

\* The date after a snapshot is the first after now of the schedule read when it
\* began, and that of the row unless this has changed.
LEMMA SuccessInv ==
    ASSUME AutoInv, NEW j \in Job, UpdateAutoSnapshotSuccess(j)
    PROVE  AutoInv'
<1> USE DEF AutoInv
<1>1. UNCHANGED <<now, made>> /\ WorkerAt("look") /\ ~ WorkerAt("insert")
  BY DEF UpdateAutoSnapshotSuccess, WorkerAt
<1>2. CASE Rests /\ UNCHANGED <<pool, since, amiss>>
  BY <1>1, <1>2, RestInv DEF UpdateAutoSnapshotSuccess
<1>3. CASE ~ (Rests /\ UNCHANGED <<pool, since, amiss>>)
  <2> DEFINE p == worker.pool
             S == worker.seen[p].schedule
             n == NextAutoSnapshotTime(now, S)
  <2>1. /\ Skip /\ worker' = [worker EXCEPT !.pc = "succeed"] /\ UNCHANGED <<job, stop>>
        /\ pool' = [pool EXCEPT ![p].next = n] /\ since' = [since EXCEPT ![p] = now]
        /\ amiss' = [amiss EXCEPT ![p] = S # pool[p].schedule]
    BY <1>3 DEF UpdateAutoSnapshotSuccess, GoesTo
  <2>2. p \in Pool /\ S \in Plan
    BY <1>1 DEF Dated, WorkerAt
  <2>3. n = First(now, S) /\ n \in Moment /\ n > now
    BY <2>2, Clock, NextIsFirstDate
  <2> HIDE DEF n
  <2>4. worker'.pc = "succeed" /\ worker'.at = worker.at
    BY <2>1 DEF AutoTypeOK
  <2>5. /\ \A q \in Pool \ {p} : pool'[q] = pool[q] /\ amiss'[q] = amiss[q] /\ since'[q] = since[q]
        /\ pool'[p].enabled = pool[p].enabled /\ pool'[p].schedule = pool[p].schedule
        /\ pool'[p].next = n /\ since'[p] = now /\ (~ amiss'[p] => pool[p].schedule = S)
    BY <2>1, <2>2 DEF AutoTypeOK, Setup
  <2>6. AutoTypeOK'
    <3>1. [pool[p] EXCEPT !.next = n] \in Setup
      BY <2>2, <2>3 DEF AutoTypeOK, Setup
    <3>2. /\ pool' \in [Pool -> Setup] /\ amiss' \in [Pool -> BOOLEAN]
          /\ since' \in [Pool -> Moment]
      BY <2>1, <2>2, <3>1, Clock DEF AutoTypeOK
    <3> QED  BY <1>1, <2>1, <3>2 DEF AutoTypeOK, Skip
  <2>7. Dated'
    BY <1>1, <2>1, <2>3, <2>4, <2>5, Clock DEF Dated
  <2>8. Fresh'
    <3>1. n > made[p]
      BY <2>2, <2>3, Clock
    <3> QED  BY <1>1, <2>4, <2>5, <3>1 DEF Fresh, WorkerAt
  <2>9. Clear' /\ Moved' /\ OneWaits'
    BY <2>1, <2>4 DEF Clear, Moved, OneWaits, WorkerAt
  <2>10. NextIsFirst'
    BY <1>1, <2>2, <2>3, <2>5 DEF NextIsFirst
  <2> QED  BY <2>6, <2>7, <2>8, <2>9, <2>10
<1> QED  BY <1>2, <1>3

\* Every step keeps the invariant.
LEMMA NextAutoInv == AutoInv /\ [AutoNext]_autoVars => AutoInv'
<1> SUFFICES ASSUME AutoInv, [AutoNext]_autoVars PROVE AutoInv'
  OBVIOUS
<1>1. CASE Tick
  BY <1>1, TickInv
<1>2. CASE User
  BY <1>2, UpdatePoolInv, PauseInv, ResumeInv, DropInv DEF User
<1>3. CASE Queue
  BY <1>3, ListPoolsInv, CheckWaitingInv, QueuedInv, EnqueueInv DEF Queue
<1>4. CASE Run
  BY <1>4, ClaimInv, LoadPoolInv, MakeSnapshotInv, SuccessInv, UpdateSuccessInv DEF Run
<1>5. CASE Die
  BY <1>5, DieInv
<1>6. CASE \E j \in Job : markStaleRunningJobs(j)
  BY <1>6, StaleInv
<1>7. CASE UNCHANGED autoVars
  BY <1>7 DEF autoVars, AutoInv, AutoTypeOK, Dated, Fresh, Clear, Moved, NextIsFirst, OneWaits,
              WorkerAt
<1> QED  BY <1>1, <1>2, <1>3, <1>4, <1>5, <1>6, <1>7 DEF AutoNext

\* The invariant holds at all times, for any week, calendar, schedules, pools and
\* jobs, and any number of failures and crashes.
THEOREM AutoInvariance == AutoSpec => []AutoInv
BY InitAutoInv, NextAutoInv, PTL DEF AutoSpec

\* No day is skipped and none is added: the next date in a row is the first one
\* of its schedule since it was set up, queued or snapshotted, but for the rows
\* that a lost job or a late reading has put amiss.
THEOREM NextsAreFirst == AutoSpec => []NextIsFirst
<1>1. AutoInv => NextIsFirst
  BY DEF AutoInv
<1> QED  BY <1>1, AutoInvariance, PTL

\* However users pause and resume between the check and the insertion, two jobs
\* of a pool wait or run at once only if one was resumed.
THEOREM OneJobWaits == AutoSpec => []OneWaits
<1>1. AutoInv => OneWaits
  BY DEF AutoInv
<1> QED  BY <1>1, AutoInvariance, PTL

\* Only the insertion of a job makes a free one wait.
LEMMA OnlyQueued ==
    ASSUME AutoInv, AutoNext, NEW j \in Job, job[j].status = "free",
           job'[j].status = "pending"
    PROVE  \E p \in Pool : enqueueAutoSnapshotJob(p, j)
<1>1. AutoTypeOK
  BY DEF AutoInv
<1>2. ~ NoneComes /\ job' # job
  BY DEF NoneComes
<1>3. \A k \in Job : ~ updateFailure(k) /\ ~ updatePaused(k)
  BY <1>1, <1>2, JobEnds
<1>4. ~ Tick /\ ~ Die
  BY <1>2 DEF Tick, Die
<1>5. ~ User
  <2>1. \A p \in Pool : ~ UpdatePool(p)
    BY <1>2 DEF UpdatePool
  <2>2. \A k \in Job : ~ Pause(k) /\ ~ Resume(k) /\ ~ Drop(k)
    BY <1>1, FreeType DEF Pause, Resume, Drop, AutoTypeOK, Row
  <2> QED  BY <2>1, <2>2 DEF User
<1>6. ~ Run
  <2>1. ~ claimNextPendingJob
    BY <1>1, <1>2 DEF claimNextPendingJob, Pending, AutoTypeOK, Row
  <2>2. \A k \in Job : ~ LoadPool(k) /\ ~ MakeSnapshot(k)
    BY <1>2, <1>3 DEF LoadPool, MakeSnapshot
  <2>3. \A k \in Job : ~ UpdateAutoSnapshotSuccess(k) /\ ~ updateSuccess(k)
    BY <1>2, <1>3 DEF UpdateAutoSnapshotSuccess, updateSuccess
  <2> QED  BY <2>1, <2>2, <2>3 DEF Run
<1>7. \A k \in Job : ~ markStaleRunningJobs(k)
  BY <1>1, FreeType DEF markStaleRunningJobs, AutoTypeOK
<1>8. \A p \in Pool : ~ CheckWaiting(p) /\ ~ UpdateAutoSnapshotQueued(p)
  BY <1>2 DEF CheckWaiting, UpdateAutoSnapshotQueued
<1>9. ~ ListPools
  BY <1>2 DEF ListPools
<1>10. PICK p \in Pool, k \in Job : enqueueAutoSnapshotJob(p, k)
  BY <1>4, <1>5, <1>6, <1>7, <1>8, <1>9 DEF AutoNext, Queue
<1>11. k = j
  BY <1>1, <1>2, <1>10 DEF enqueueAutoSnapshotJob, AutoTypeOK
<1> QED  BY <1>10, <1>11

\* No occurrence gets two jobs: the date is stored before the job is, and what a
\* crash or a failure leaves of the two cannot be queued again.
THEOREM OccurrencesOnce == AutoSpec => AtMostOnce
<1>1. ASSUME AutoInv, [AutoNext]_autoVars, NEW j \in Job, job[j].status = "free",
             job'[j].status = "pending"
      PROVE  job'[j].due > made[job'[j].pool]
  <2>1. AutoNext
    BY <1>1 DEF autoVars
  <2>2. PICK p \in Pool : enqueueAutoSnapshotJob(p, j)
    BY <1>1, <2>1, OnlyQueued
  <2>3. p \in worker.todo /\ worker.pc = "insert"
    BY <1>1, <2>2 DEF enqueueAutoSnapshotJob, AutoInv, Dated, WorkerAt
  <2>4. worker.seen[p].next \in made[p] + 1..worker.at
    BY <1>1, <2>3 DEF AutoInv, Fresh
  <2>5. job'[j].due = worker.seen[p].next /\ job'[j].pool = p
    BY <1>1, <2>2 DEF enqueueAutoSnapshotJob, AutoInv, AutoTypeOK
  <2> QED  BY <1>1, <2>4, <2>5, Clock
<1>2. AutoInv /\ [AutoNext]_autoVars =>
        [\A j \in Job : job[j].status = "free" /\ job'[j].status = "pending"
            => job'[j].due > made[job'[j].pool]]_autoVars
  BY <1>1
<1> QED  BY <1>2, AutoInvariance, PTL DEF AutoSpec, AtMostOnce
=============================================================================
