------------------------------ MODULE Snapshots ------------------------------
(***************************************************************************)
(* The snapshots of a pool (internal/storagepool/snapshots.go, the rows of *)
(* storage_pool_snapshot in store.go, the list in runtime.go).             *)
(*                                                                         *)
(* A snapshot is taken in three steps (is its path free, btrfs, its row),  *)
(* deleted in two (btrfs, its row), and restored in up to five: a backup   *)
(* of the data and its row when asked for, the deletion of the data, a     *)
(* writable snapshot in its place.  Nothing is locked: requests, and the   *)
(* uploads that go on meanwhile, interleave between any two steps, every   *)
(* command and statement may fail, and the process may die.                *)
(*                                                                         *)
(* Names of users do not look like those of backups.  Left out: sources    *)
(* other than the data and the mount point, which are never restored, the  *)
(* runtime figures of the storage, the system's numbers of a subvolume     *)
(* that the list copies into its row.                                      *)
(*                                                                         *)
(* A definition named Slip... is a plausible fault of the definition after *)
(* it, substituted to see that a property notices.                         *)
(***************************************************************************)
EXTENDS Naturals

CONSTANTS Request, \* requests at a time
          File,    \* what clients keep in the pool
          Name,    \* paths of the snapshots that users ask for
          Backup,  \* those of backups, made of the second of the request
          Id,      \* ids of rows
          None

ASSUME NameAssumption == Name \cap Backup = {}
ASSUME NoneAssumption == None \notin Name \cup Backup \cup Id

Path == Name \cup Backup
Source == {"data", "mount"}

VARIABLES
    pc, path, id, from, ro, backup, \* of each request: where it stands, on which
                                    \* path, row and source, the backup it makes
    kind, files,  \* data is a subvolume, a plain directory or gone, and its files
    shape, held,  \* of each path: nothing, a read-only or a writable snapshot,
                  \* one with a subvolume nested in it; its files
    rows, source, \* of each path: the id of its row, and its source_path
    begun,        \* history: the files that a request found when it began
    erased,       \* history: the paths whose snapshot a deletion has removed
    promised      \* history: the files that a restore left to a backup

req   == <<pc, path, id, from, ro, backup>>
data  == <<kind, files>>
snaps == <<shape, held>>
table == <<rows, source>>
ghost == <<begun, erased, promised>>
vars  == <<req, data, snaps, table, ghost>>

Init ==
    /\ pc = [r \in Request |-> "idle"] /\ path = [r \in Request |-> None]
    /\ id = [r \in Request |-> None] /\ from = [r \in Request |-> "data"]
    /\ ro = [r \in Request |-> TRUE] /\ backup = [r \in Request |-> None]
    /\ kind = "whole" /\ files = {}
    /\ shape = [p \in Path |-> "none"] /\ held = [p \in Path |-> {}]
    /\ rows = [p \in Path |-> None] /\ source = [p \in Path |-> "data"]
    /\ begun = [r \in Request |-> {}] /\ erased = {}
    /\ promised = [p \in Path |-> {}]

At(r, point) == pc[r] = point
Goto(r, point) == pc' = [pc EXCEPT ![r] = point]
Stay == UNCHANGED <<path, id, from, ro, backup>>
End(r) ==
    /\ Goto(r, "idle")
    /\ path' = [path EXCEPT ![r] = None] /\ id' = [id EXCEPT ![r] = None]
    /\ from' = [from EXCEPT ![r] = "data"] /\ ro' = [ro EXCEPT ![r] = TRUE]
    /\ backup' = [backup EXCEPT ![r] = None]
    /\ begun' = [begun EXCEPT ![r] = {}] /\ UNCHANGED <<erased, promised>>
\* A step that fails ends its request: nothing is undone.
Fail(r) == End(r) /\ UNCHANGED <<data, snaps, table>>

-----------------------------------------------------------------------------
(* Taking a snapshot.                                                      *)

\* CreateSnapshot: the path is free when it looks; the source is asked for, or
\* data when it is there, or else the mount point.
CreateSnapshot(r) ==
    /\ At(r, "idle")
    /\ \E p \in Name, s \in Source, w \in BOOLEAN :
          /\ shape[p] = "none"
          /\ path' = [path EXCEPT ![r] = p] /\ from' = [from EXCEPT ![r] = s]
          /\ ro' = [ro EXCEPT ![r] = w]
    /\ Goto(r, "take") /\ UNCHANGED <<id, backup, data, snaps, table, ghost>>

\* btrfs subvolume snapshot: its source must be a subvolume, and it goes below
\* its target when that is there by now.
Snap(p, s, shp) ==
    /\ s = "mount" \/ kind = "whole"
    /\ \/ /\ shape[p] = "none"
          /\ shape' = [shape EXCEPT ![p] = shp]
          /\ held' = [held EXCEPT ![p] = IF s = "data" THEN files ELSE {}]
       \/ /\ shape[p] \in {"rw", "nested"}
          /\ shape' = [shape EXCEPT ![p] = "nested"] /\ UNCHANGED held
SlipTakeSnapshot(r) ==
    /\ At(r, "take")
    /\ \/ Snap(path[r], from[r], IF ro[r] THEN "ro" ELSE "rw")
       \/ UNCHANGED snaps
    /\ erased' = erased \ {path[r]}
    /\ Goto(r, "record") /\ Stay /\ UNCHANGED <<data, table, begun, promised>>
TakeSnapshot(r) ==
    /\ At(r, "take")
    /\ \/ /\ Snap(path[r], from[r], IF ro[r] THEN "ro" ELSE "rw")
          /\ erased' = erased \ {path[r]}
          /\ Goto(r, "record") /\ Stay /\ UNCHANGED <<data, table, begun, promised>>
       \/ Fail(r)

\* AddSnapshot: a new id; a path has one row (UNIQUE).
AddSnapshot(p, s) ==
    /\ rows[p] = None
    /\ \E i \in Id :
          /\ \A q \in Path : rows[q] # i
          /\ \A r \in Request : id[r] # i
          /\ rows' = [rows EXCEPT ![p] = i]
    /\ source' = [source EXCEPT ![p] = s]
RecordSnapshot(r) ==
    /\ At(r, "record")
    /\ \/ /\ AddSnapshot(path[r], from[r])
          /\ End(r) /\ UNCHANGED <<data, snaps>>
       \/ Fail(r)

-----------------------------------------------------------------------------
(* Deleting a snapshot.                                                    *)

\* DeleteSnapshot: the row is read by its id, as the list gives it.
DeleteSnapshot(r) ==
    /\ At(r, "idle")
    /\ \E p \in Path :
          /\ rows[p] # None
          /\ path' = [path EXCEPT ![r] = p] /\ id' = [id EXCEPT ![r] = rows[p]]
    /\ Goto(r, "erase") /\ UNCHANGED <<from, ro, backup, data, snaps, table, ghost>>

\* btrfs subvolume delete refuses what is not there or has a subvolume in it.
Erase(r) ==
    /\ At(r, "erase")
    /\ \/ /\ shape[path[r]] \in {"ro", "rw"}
          /\ shape' = [shape EXCEPT ![path[r]] = "none"]
          /\ held' = [held EXCEPT ![path[r]] = {}]
          /\ erased' = erased \cup {path[r]}
          /\ promised' = [promised EXCEPT ![path[r]] = {}]
          /\ Goto(r, "unrecord") /\ Stay /\ UNCHANGED <<data, table, begun>>
       \/ Fail(r)

DeleteSnapshotRecord(r) ==
    /\ At(r, "unrecord")
    /\ \/ /\ rows' = [p \in Path |-> IF rows[p] = id[r] THEN None ELSE rows[p]]
          /\ End(r) /\ UNCHANGED <<data, snaps, source>>
       \/ Fail(r)

-----------------------------------------------------------------------------
(* Restoring a snapshot.                                                   *)

\* RestoreSnapshot, for a snapshot of the data; its backup is named after the
\* second.
RestoreSnapshot(r) ==
    /\ At(r, "idle")
    /\ \E p \in Path, b \in Backup \cup {None} :
          /\ rows[p] # None /\ source[p] = "data"
          /\ path' = [path EXCEPT ![r] = p] /\ backup' = [backup EXCEPT ![r] = b]
          /\ Goto(r, IF b = None THEN "drop" ELSE "backup")
    /\ begun' = [begun EXCEPT ![r] = files]
    /\ UNCHANGED <<id, from, ro, data, snaps, table, erased, promised>>

SlipBackUp(r) ==
    /\ At(r, "backup")
    /\ \/ Snap(backup[r], "data", "ro") \/ UNCHANGED snaps
    /\ Goto(r, "recordBackup") /\ Stay /\ UNCHANGED <<data, table, ghost>>
BackUp(r) ==
    /\ At(r, "backup")
    /\ \/ /\ Snap(backup[r], "data", "ro")
          /\ Goto(r, "recordBackup") /\ Stay /\ UNCHANGED <<data, table, ghost>>
       \/ Fail(r)
RecordBackup(r) ==
    /\ At(r, "recordBackup")
    /\ \/ /\ AddSnapshot(backup[r], "data")
          /\ Goto(r, "drop") /\ Stay /\ UNCHANGED <<data, snaps, ghost>>
       \/ Fail(r)

\* The data are deleted; what another restore was to back up goes with them.
Promise(r) ==
    /\ begun' = [x \in Request |-> {}]
    /\ promised' = IF backup[r] = None \/ backup[r] \in erased THEN promised
                   ELSE [promised EXCEPT ![backup[r]] = begun[r]]
    /\ UNCHANGED erased
SlipDropData(r) ==
    /\ At(r, "drop")
    /\ IF kind = "whole" THEN kind' = "gone" /\ files' = {} ELSE UNCHANGED data
    /\ Promise(r) /\ Goto(r, "install") /\ Stay /\ UNCHANGED <<snaps, table>>
DropData(r) ==
    /\ At(r, "drop")
    /\ \/ /\ kind = "whole"
          /\ kind' = "gone" /\ files' = {}
          /\ Promise(r) /\ Goto(r, "install") /\ Stay /\ UNCHANGED <<snaps, table>>
       \/ Fail(r)

\* A writable snapshot becomes the data; it goes below a directory that an upload
\* has made there.
InstallSnapshot(r) ==
    /\ At(r, "install")
    /\ \/ /\ shape[path[r]] # "none"
          /\ IF kind = "gone" THEN kind' = "whole" /\ files' = held[path[r]]
                              ELSE UNCHANGED data
          /\ End(r) /\ UNCHANGED <<snaps, table>>
       \/ Fail(r)

-----------------------------------------------------------------------------
\* An upload is stored, in a directory that is made when it is missing.
Store(f) ==
    /\ f \notin files
    /\ files' = files \cup {f} /\ kind' = IF kind = "gone" THEN "dir" ELSE kind
    /\ UNCHANGED <<req, snaps, table, ghost>>

\* The process dies.
Crash ==
    /\ \E r \in Request : ~ At(r, "idle")
    /\ pc' = [r \in Request |-> "idle"] /\ path' = [r \in Request |-> None]
    /\ id' = [r \in Request |-> None] /\ from' = [r \in Request |-> "data"]
    /\ ro' = [r \in Request |-> TRUE] /\ backup' = [r \in Request |-> None]
    /\ begun' = [r \in Request |-> {}]
    /\ UNCHANGED <<data, snaps, table, erased, promised>>

Step(r) ==
    \/ CreateSnapshot(r) \/ TakeSnapshot(r) \/ RecordSnapshot(r)
    \/ DeleteSnapshot(r) \/ Erase(r) \/ DeleteSnapshotRecord(r)
    \/ RestoreSnapshot(r) \/ BackUp(r) \/ RecordBackup(r) \/ DropData(r)
    \/ InstallSnapshot(r)
Next == (\E r \in Request : Step(r)) \/ (\E f \in File : Store(f)) \/ Crash

Spec == Init /\ [][Next]_vars
-----------------------------------------------------------------------------
Point == {"idle", "take", "record", "erase", "unrecord", "backup", "recordBackup",
          "drop", "install"}
TypeOK ==
    /\ pc \in [Request -> Point] /\ path \in [Request -> Path \cup {None}]
    /\ id \in [Request -> Id \cup {None}] /\ from \in [Request -> Source]
    /\ ro \in [Request -> BOOLEAN] /\ backup \in [Request -> Backup \cup {None}]
    /\ kind \in {"whole", "dir", "gone"} /\ files \subseteq File
    /\ shape \in [Path -> {"none", "ro", "rw", "nested"}]
    /\ held \in [Path -> SUBSET File]
    /\ rows \in [Path -> Id \cup {None}] /\ source \in [Path -> Source]
    /\ begun \in [Request -> SUBSET File] /\ erased \subseteq Path
    /\ promised \in [Path -> SUBSET File]

\* What was in the pool when a restore with a backup began is in that backup after
\* the restore has destroyed it, until somebody deletes the backup: however many
\* restores run, whichever of their commands fail and whenever the process dies.
BackupHolds ==
    \A b \in Backup :
       promised[b] \subseteq held[b] /\ (promised[b] # {} => shape[b] = "ro")

\* Two restores never stand between the deletion of the data and their return, so
\* that neither puts its snapshot into the other's (RestoreSnapshot locks nothing).
OneInstalls ==
    \A r, s \in Request : At(r, "install") /\ At(s, "install") => r = s

\* A snapshot that has a row is there, unless a deletion has removed it: neither a
\* creation nor a restore records what it has not made.
RecordedIsThere ==
    \A p \in Path : rows[p] # None /\ shape[p] = "none" => p \in erased

\* A request that stands before a statement has made what it is about to record; a
\* restore has backed up what it is about to destroy.
InPlace ==
    \A r \in Request :
       /\ pc[r] # "idle" => path[r] # None
       /\ At(r, "take") => path[r] \in Name
       /\ At(r, "backup") \/ At(r, "recordBackup") => backup[r] # None
       /\ At(r, "record") => shape[path[r]] # "none" \/ path[r] \in erased
       /\ At(r, "install") => kind # "whole"
BackedUp ==
    \A r \in Request :
       /\ At(r, "backup") => begun[r] \subseteq files
       /\ At(r, "recordBackup") \/ (At(r, "drop") /\ backup[r] # None) =>
             \/ backup[r] \in erased
             \/ shape[backup[r]] = "ro" /\ begun[r] \subseteq held[backup[r]]
Shapes ==
    /\ kind = "gone" => files = {}
    /\ \A b \in Backup : shape[b] \in {"none", "ro"}
IInv ==
    /\ TypeOK /\ InPlace /\ BackedUp /\ Shapes
    /\ BackupHolds /\ OneInstalls /\ RecordedIsThere
=============================================================================
