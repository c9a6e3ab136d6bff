-------------------------------- MODULE Pools --------------------------------
(***************************************************************************)
(* Local storage pools: creation, formatting, deletion and the replacement *)
(* of a device (internal/storagepool: create.go, format.go, delete.go,     *)
(* replace.go, devices.go, mount_unit.go, store.go).                       *)
(*                                                                         *)
(* A request is a sequence of commands (wipefs, mkfs.btrfs, systemctl, ...)*)
(* and statements.  Each is a step, and any may fail: the request then     *)
(* answers with an error and leaves behind what the steps so far have done.*)
(* The process may die between two steps, and the machine may restart.     *)
(*                                                                         *)
(* The path of a pool is a hash of its name, and the two are one here.     *)
(* A device has one path here, by which requests name it and the tables    *)
(* record it; that the code compares paths, and so takes a link to a       *)
(* registered disk or one of its partitions for another device (store.go:  *)
(* 169), is left out.  So are RAID levels (which only bound the number of  *)
(* devices), sizes, labels, cloud pools, fstab entries of earlier versions *)
(* and what is left at a path that is not mounted; snapshots live in the   *)
(* filesystem that a pool has and go with it.  A device is removed by      *)
(* nobody but the requests below.                                          *)
(*                                                                         *)
(* Nothing keeps two requests from working on one name or one device at    *)
(* the same time.  The history variables met and overtaken say where that  *)
(* has happened; no action looks at them, but for the bound Apart.         *)
(*                                                                         *)
(* A definition named Slip... is a plausible fault of the definition after *)
(* it, substituted to see that a property notices.                         *)
(***************************************************************************)
EXTENDS FiniteSets

CONSTANTS Name,       \* names of pools, each standing for its path as well
          Device,     \* block devices
          System,     \* those that hold "/", "/boot" or "/boot/efi"
          Pool,       \* ids of pools and of their storages
          Uuid,       \* of filesystems
          Handler,    \* goroutines serving requests
          None,       \* nothing
          Root,       \* what is on a system disk
          Apart       \* whether, once two requests have met, others begin only
                      \* apart from any (a bound)

ASSUME SystemAssumption == System \subseteq Device
ASSUME NoneAssumption ==
    None \notin Name \cup Device \cup Pool \cup Uuid \cup Handler

\* What mkfs.btrfs writes on each of the devices: an identity, the devices it
\* spans, and whether it has its "data" subvolume.
Filesystem == [uuid : Uuid, on : SUBSET Device, data : BOOLEAN]
ASSUME RootAssumption ==
    None \notin Filesystem /\ Root \notin Filesystem /\ None # Root

Op == {"create", "format", "delete", "erase", "replace"}
ASSUME OpAssumption == None \notin Op

Point == {"idle", "lookup", "stale", "sweep", "available", "check", "free", "wipe",
          "mkfs", "unit", "enable", "start", "layout", "addStorage", "addPool",
          "subvolumes", "dismount", "disable", "removeUnit", "refresh",
          "dropPool", "dropStorage", "unmounted", "purge", "swap", "record"}

VARIABLES
    disk,          \* what each device holds
    mount,         \* the filesystem mounted at each path (/proc/mounts)
    unit, enabled, \* the mount unit of each path: the uuid it names; started at boot
    storage,       \* table storage: the name of each row, None when there is no row
    pool, devs,    \* tables storage_pool and storage_pool_device
    pc, op,        \* where each handler stands, and in which request
    at, id, want,  \* the name, pool and devices that it works on
    todo, dev, old, \* devices not dealt with yet, the current and the replaced one
    sound,         \* history: pools whose last creation or format was answered
                   \* with success, and that nothing has started to take apart
    met,           \* history: the names of requests that have been at work on one
                   \* name or one device at the same time
    overtaken      \* history: devices registered while another request had them,
                   \* past its check or from the tables

media  == <<disk, mount>>
boot   == <<unit, enabled>>
tables == <<storage, pool, devs>>
locals == <<pc, op, at, id, want, todo, dev, old>>
vars   == <<media, boot, tables, locals, sound, met, overtaken>>

Init ==
    /\ disk = [d \in Device |-> IF d \in System THEN Root ELSE None]
    /\ mount = [n \in Name |-> None]
    /\ unit = [n \in Name |-> None] /\ enabled = [n \in Name |-> FALSE]
    /\ storage = [p \in Pool |-> None] /\ pool = {} /\ devs = [p \in Pool |-> {}]
    /\ pc = [h \in Handler |-> "idle"] /\ op = [h \in Handler |-> None]
    /\ at = [h \in Handler |-> None] /\ id = [h \in Handler |-> None]
    /\ want = [h \in Handler |-> {}] /\ todo = [h \in Handler |-> {}]
    /\ dev = [h \in Handler |-> None] /\ old = [h \in Handler |-> None]
    /\ sound = {} /\ met = {} /\ overtaken = {}

-----------------------------------------------------------------------------
At(h, point) == pc[h] = point
Goto(h, point) == pc' = [pc EXCEPT ![h] = point]
Proceed(h, point) == Goto(h, point) /\ UNCHANGED <<op, at, id, want, todo, dev, old>>
Return(h) ==
    /\ pc' = [pc EXCEPT ![h] = "idle"] /\ op' = [op EXCEPT ![h] = None]
    /\ at' = [at EXCEPT ![h] = None] /\ id' = [id EXCEPT ![h] = None]
    /\ want' = [want EXCEPT ![h] = {}] /\ todo' = [todo EXCEPT ![h] = {}]
    /\ dev' = [dev EXCEPT ![h] = None] /\ old' = [old EXCEPT ![h] = None]

Registered == UNION {devs[p] : p \in pool}   \* HasDevice, by the device's one path
Taken == {storage[p] : p \in Pool}           \* GetByMountPath of a data path
Spanned == {disk[d] : d \in Device} \cup {mount[n] : n \in Name}
Fresh(u) == u \notin {unit[n] : n \in Name} /\ \A f \in Spanned \cap Filesystem : f.uuid # u

\* f can be mounted when every device that it spans still holds it.
Mountable(f) == f \in Filesystem /\ f.on # {} /\ \A d \in f.on : disk[d] = f
Named(u) == {f \in {disk[d] : d \in Device} : Mountable(f) /\ f.uuid = u}

-----------------------------------------------------------------------------
(* CreatePool, before it comes to the devices.                             *)

HandleCreatePool(h) ==
    /\ At(h, "idle")
    /\ \E n \in Name, D \in (SUBSET Device) \ {{}} :
          /\ at' = [at EXCEPT ![h] = n] /\ want' = [want EXCEPT ![h] = D]
          /\ todo' = [todo EXCEPT ![h] = D]
    /\ op' = [op EXCEPT ![h] = "create"] /\ Goto(h, "lookup")
    /\ UNCHANGED <<media, boot, tables, id, dev, old, sound>>

\* generatePoolPathName: no storage has the path; the path is not mounted.
Lookup(h) ==
    /\ At(h, "lookup")
    /\ IF at[h] \in Taken THEN Return(h) ELSE Proceed(h, "stale")
    /\ UNCHANGED <<media, boot, tables, sound>>
FindStale(h) ==
    /\ At(h, "stale")
    /\ IF mount[at[h]] # None THEN Return(h) ELSE Proceed(h, "sweep")
    /\ UNCHANGED <<media, boot, tables, sound>>

\* The files of a filesystem become others, on all its devices.
Rewrite(f, g) ==
    /\ disk' = [d \in Device |-> IF disk[d] = f THEN g ELSE disk[d]]
    /\ mount' = [n \in Name |-> IF mount[n] = f THEN g ELSE mount[n]]

\* os.RemoveAll and rm -rf take away what is found at the path, which is a
\* filesystem if one was mounted there in the meantime: the path itself is then
\* busy, and the request fails.
RemoveAll(h, next) ==
    LET f == mount[at[h]] IN
    IF f = None THEN next /\ UNCHANGED media
                ELSE Rewrite(f, [f EXCEPT !.data = FALSE]) /\ Return(h)
CleanupStale(h) ==
    /\ At(h, "sweep")
    /\ RemoveAll(h, Proceed(h, "available"))
    /\ UNCHANGED <<boot, tables, sound>>

\* ensureCreateAvailable.
EnsureAvailable(h) ==
    /\ At(h, "available")
    /\ IF at[h] \in Taken THEN Return(h) ELSE Proceed(h, "check")
    /\ UNCHANGED <<media, boot, tables, sound>>

-----------------------------------------------------------------------------
(* forcePreparePoolDevices, for a creation and for a replacement.          *)

\* The next device must not be registered, nor be a system disk.
CheckOr(h, refused) ==
    /\ At(h, "check") /\ todo[h] # {}
    /\ \E d \in todo[h] :
          IF d \in refused
            THEN Return(h)
            ELSE /\ dev' = [dev EXCEPT ![h] = d] /\ Goto(h, "free")
                 /\ UNCHANGED <<op, at, id, want, todo, old>>
    /\ UNCHANGED <<media, boot, tables, sound>>
SlipCheckSystem(h) == CheckOr(h, Registered)
SlipCheckRegistered(h) == CheckOr(h, System)
CheckDevice(h) == CheckOr(h, Registered \cup System)

\* What is mounted from it (lsblk) is unmounted.
FreeDevice(h) ==
    /\ At(h, "free")
    /\ mount' = [n \in Name |-> IF mount[n] # None /\ dev[h] \in mount[n].on
                                  THEN None ELSE mount[n]]
    /\ Proceed(h, "wipe")
    /\ UNCHANGED <<disk, boot, tables, sound>>

\* wipefs -af.  A format and a deletion wipe the devices of the pool unchecked.
Wipe(h, d, next) ==
    /\ disk' = [disk EXCEPT ![d] = None]
    /\ todo' = [todo EXCEPT ![h] = @ \ {d}] /\ dev' = [dev EXCEPT ![h] = None]
    /\ Goto(h, next)
    /\ UNCHANGED <<mount, boot, tables, op, at, id, want, old, sound>>
WipeChecked(h) ==
    /\ At(h, "wipe") /\ op[h] \in {"create", "replace"}
    /\ Wipe(h, dev[h], "check")
WipeOwn(h) ==
    /\ At(h, "wipe") /\ op[h] \in {"format", "erase"}
    /\ \E d \in todo[h] : Wipe(h, d, "wipe")
Prepared(h) ==
    /\ todo[h] = {}
    /\ \/ At(h, "check") /\ Proceed(h, IF op[h] = "create" THEN "mkfs" ELSE "swap")
       \/ At(h, "wipe") /\ op[h] = "format" /\ Proceed(h, "mkfs")
       \/ At(h, "wipe") /\ op[h] = "erase" /\ Return(h)
    /\ UNCHANGED <<media, boot, tables, sound>>

-----------------------------------------------------------------------------
(* mkfs.btrfs, persistPoolMount and initializePoolLayout, for a creation   *)
(* and for a format.                                                       *)

\* mkfs.btrfs refuses a device that is mounted.
MakeFilesystem(h) ==
    /\ At(h, "mkfs")
    /\ \A n \in Name : mount[n] # None => mount[n].on \cap want[h] = {}
    /\ \E u \in Uuid :
          /\ Fresh(u)
          /\ disk' = [d \in Device |-> IF d \in want[h]
                        THEN [uuid |-> u, on |-> want[h], data |-> FALSE] ELSE disk[d]]
    /\ Proceed(h, "unit")
    /\ UNCHANGED <<mount, boot, tables, sound>>

\* blkid of the first device, and tee.
WriteUnit(h) ==
    /\ At(h, "unit")
    /\ \E d \in want[h] : /\ disk[d] \in Filesystem
                          /\ unit' = [unit EXCEPT ![at[h]] = disk[d].uuid]
    /\ Proceed(h, "enable")
    /\ UNCHANGED <<media, enabled, tables, sound>>

\* systemctl enable --now: what is mounted stays; a unit that names no complete
\* filesystem fails.
Enable(h) ==
    /\ At(h, "enable") /\ unit[at[h]] # None
    /\ enabled' = [enabled EXCEPT ![at[h]] = TRUE]
    /\ Proceed(h, "start")
    /\ UNCHANGED <<media, unit, tables, sound>>
Start(h) ==
    /\ At(h, "start")
    /\ IF mount[at[h]] # None THEN UNCHANGED mount
         ELSE \E f \in Named(unit[at[h]]) : mount' = [mount EXCEPT ![at[h]] = f]
    /\ Proceed(h, "layout")
    /\ UNCHANGED <<disk, boot, tables, sound>>

\* btrfs subvolume create fails when the subvolume is there already.
InitializeLayout(h) ==
    /\ At(h, "layout")
    /\ LET f == mount[at[h]] IN
         f # None /\ ~ f.data /\ Rewrite(f, [f EXCEPT !.data = TRUE])
    /\ Proceed(h, IF op[h] = "create" THEN "addStorage" ELSE "refresh")
    /\ UNCHANGED <<boot, tables, sound>>

\* storage.Add (UNIQUE: the path) and Add (UNIQUE: the name), with fresh ids.
AddStorage(h) ==
    /\ At(h, "addStorage") /\ at[h] \notin Taken
    /\ \E p \in Pool : /\ storage[p] = None /\ \A k \in Handler : id[k] # p
                       /\ storage' = [storage EXCEPT ![p] = at[h]]
                       /\ id' = [id EXCEPT ![h] = p]
    /\ Goto(h, "addPool")
    /\ UNCHANGED <<media, boot, pool, devs, op, at, want, todo, dev, old, sound>>
AddPool(h) ==
    /\ At(h, "addPool") /\ storage[id[h]] # None
    /\ \A p \in pool : storage[p] # at[h]
    /\ pool' = pool \cup {id[h]} /\ devs' = [devs EXCEPT ![id[h]] = want[h]]
    /\ sound' = sound \cup {id[h]}
    /\ Return(h)
    /\ UNCHANGED <<media, boot, storage>>

-----------------------------------------------------------------------------
(* Requests that concern a pool: Get, with its devices.                    *)

Ask(h, p, name, D, first) ==
    /\ At(h, "idle") /\ p \in pool
    /\ op' = [op EXCEPT ![h] = name] /\ id' = [id EXCEPT ![h] = p]
    /\ at' = [at EXCEPT ![h] = storage[p]] /\ want' = [want EXCEPT ![h] = D]
    /\ todo' = [todo EXCEPT ![h] = D] /\ Goto(h, first)
    /\ UNCHANGED <<media, boot, tables, dev, sound>>

HandleFormatPool(h) ==
    \E p \in pool : Ask(h, p, "format", devs[p], "dismount") /\ UNCHANGED old
HandleDeletePool(h) ==
    \E p \in pool : \/ Ask(h, p, "delete", devs[p], "dismount") /\ UNCHANGED old
                    \/ Ask(h, p, "erase", devs[p], "subvolumes") /\ UNCHANGED old
\* Refused when the pool is offline or the new device is registered.
HandleReplaceDevice(h) ==
    \E p \in pool, d \in Device \ Registered :
        /\ mount[storage[p]] # None
        /\ Ask(h, p, "replace", {d}, "check")
        /\ \E o \in devs[p] : old' = [old EXCEPT ![h] = o]

\* btrfs subvolume delete of each that is found (none when the pool is offline).
DeleteSubvolumes(h) ==
    /\ At(h, "subvolumes")
    /\ LET f == mount[at[h]] IN
         IF f = None THEN UNCHANGED media ELSE Rewrite(f, [f EXCEPT !.data = FALSE])
    /\ sound' = sound \ {id[h]}
    /\ Proceed(h, "dismount")
    /\ UNCHANGED <<boot, tables>>

Unmount(n) == mount' = [mount EXCEPT ![n] = None]
Dismount(h) ==
    /\ At(h, "dismount")
    /\ Unmount(at[h])
    /\ sound' = sound \ {id[h]}
    /\ Proceed(h, "disable")
    /\ UNCHANGED <<disk, boot, tables>>

\* removePoolMountUnit: disable --now and rm, or umount when there is no unit.
AfterUnit(h) == IF op[h] = "format" THEN "wipe" ELSE "dropPool"
DisableUnit(h) ==
    /\ At(h, "disable")
    /\ Unmount(at[h])
    /\ enabled' = [enabled EXCEPT ![at[h]] = @ /\ unit[at[h]] = None]
    /\ Proceed(h, IF unit[at[h]] # None THEN "removeUnit" ELSE AfterUnit(h))
    /\ UNCHANGED <<disk, unit, tables, sound>>
SlipRemoveUnit(h) == At(h, "removeUnit") /\ Proceed(h, AfterUnit(h))
                       /\ UNCHANGED <<media, boot, tables, sound>>
RemoveUnit(h) ==
    /\ At(h, "removeUnit")
    /\ unit' = [unit EXCEPT ![at[h]] = None]
    /\ Proceed(h, AfterUnit(h))
    /\ UNCHANGED <<media, enabled, tables, sound>>

\* The end of a format: UpdateRuntime and the reload, which fails when the pool
\* is gone.
Refresh(h) ==
    /\ At(h, "refresh")
    /\ sound' = IF id[h] \in pool THEN sound \cup {id[h]} ELSE sound
    /\ Return(h)
    /\ UNCHANGED <<media, boot, tables>>

\* The end of a deletion: the rows (those of the devices by ON DELETE CASCADE),
\* the path, and the devices if that was asked for.
DeletePoolRow(p) == pool' = pool \ {p} /\ devs' = [devs EXCEPT ![p] = {}]
DropPool(h) ==
    /\ At(h, "dropPool")
    /\ DeletePoolRow(id[h]) /\ sound' = sound \ {id[h]}
    /\ Proceed(h, "dropStorage")
    /\ UNCHANGED <<media, boot, storage>>
DropStorage(h) ==
    /\ At(h, "dropStorage")
    /\ storage' = [storage EXCEPT ![id[h]] = None] /\ DeletePoolRow(id[h])
    /\ sound' = sound \ {id[h]}
    /\ Proceed(h, "unmounted")
    /\ UNCHANGED <<media, boot>>
FindUnmounted(h) ==
    /\ At(h, "unmounted")
    /\ IF mount[at[h]] # None THEN Return(h) ELSE Proceed(h, "purge")
    /\ UNCHANGED <<media, boot, tables, sound>>
CleanupMountPath(h) ==
    /\ At(h, "purge")
    /\ RemoveAll(h, IF op[h] = "erase" THEN Proceed(h, "wipe") ELSE Return(h))
    /\ UNCHANGED <<boot, tables, sound>>

\* btrfs replace start -B: refused when the old device is not one of those of the
\* mounted filesystem.  It leaves the old device without a filesystem.
ReplaceDevice(h) ==
    /\ At(h, "swap")
    /\ \E f \in {mount[at[h]]} \ {None}, d \in want[h] :
          /\ old[h] \in f.on /\ disk[old[h]] = f /\ d \notin f.on
          /\ LET g == [f EXCEPT !.on = (@ \ {old[h]}) \cup {d}] IN
               /\ disk' = [e \in Device |-> IF e = old[h] THEN None
                                            ELSE IF e = d \/ disk[e] = f THEN g
                                            ELSE disk[e]]
               /\ mount' = [n \in Name |-> IF mount[n] = f THEN g ELSE mount[n]]
    /\ Proceed(h, "record")
    /\ UNCHANGED <<boot, tables, sound>>
\* UpdateDevice, which touches nothing when the row is gone.
SlipUpdateDevice(h) == At(h, "record") /\ Return(h)
                         /\ UNCHANGED <<media, boot, tables, sound>>
UpdateDevice(h) ==
    /\ At(h, "record")
    /\ IF old[h] \in devs[id[h]]
         THEN devs' = [devs EXCEPT ![id[h]] = (@ \ {old[h]}) \cup want[h]]
         ELSE UNCHANGED devs
    /\ Return(h)
    /\ UNCHANGED <<media, boot, storage, pool, sound>>

-----------------------------------------------------------------------------
(* Failures.                                                               *)

\* A command or a statement fails, or the client has gone (r.Context()).
Fail(h) ==
    /\ ~ At(h, "idle")
    /\ sound' = IF At(h, "record") THEN sound \ {id[h]} ELSE sound
    /\ Return(h)
    /\ UNCHANGED <<media, boot, tables>>

\* The process dies; Reboot: with the machine, whose boot mounts the filesystems
\* that the enabled units name, or gives up on them (nofail).
Die ==
    /\ sound' = sound \ {id[h] : h \in {k \in Handler : At(k, "record")}}
    /\ pc' = [h \in Handler |-> "idle"] /\ op' = [h \in Handler |-> None]
    /\ at' = [h \in Handler |-> None] /\ id' = [h \in Handler |-> None]
    /\ want' = [h \in Handler |-> {}] /\ todo' = [h \in Handler |-> {}]
    /\ dev' = [h \in Handler |-> None] /\ old' = [h \in Handler |-> None]
Crash == Die /\ UNCHANGED <<media, boot, tables>>
Reboot ==
    /\ Die
    /\ mount' \in [Name -> {f \in Spanned : Mountable(f)} \cup {None}]
    /\ \A n \in Name : mount'[n] # None => enabled[n] /\ mount'[n] \in Named(unit[n])
    /\ UNCHANGED <<disk, boot, tables>>

-----------------------------------------------------------------------------
Request(h) == \/ HandleCreatePool(h) \/ HandleFormatPool(h)
              \/ HandleDeletePool(h) \/ HandleReplaceDevice(h)
Step(h) ==
    \/ Lookup(h) \/ FindStale(h) \/ CleanupStale(h) \/ EnsureAvailable(h)
    \/ CheckDevice(h) \/ FreeDevice(h) \/ WipeChecked(h) \/ WipeOwn(h) \/ Prepared(h)
    \/ MakeFilesystem(h) \/ WriteUnit(h) \/ Enable(h) \/ Start(h) \/ InitializeLayout(h)
    \/ AddStorage(h) \/ AddPool(h) \/ Refresh(h)
    \/ DeleteSubvolumes(h) \/ Dismount(h) \/ DisableUnit(h) \/ RemoveUnit(h)
    \/ DropPool(h) \/ DropStorage(h) \/ FindUnmounted(h) \/ CleanupMountPath(h)
    \/ ReplaceDevice(h) \/ UpdateDevice(h)

\* The request of h begins, and others are at work on its name or on its devices.
Meet(h) ==
    LET others == {k \in Handler \ {h} : at[k] = at'[h] \/ want[k] \cap want'[h] # {}} IN
    /\ Apart /\ met # {} => others = {} /\ at'[h] \notin met
    /\ met' = met \cup UNION {{at'[h], at[k]} : k \in others}
    /\ UNCHANGED overtaken

\* The devices that the request of k may write on: those that have passed its check, and
\* those that it took from the tables; and, with the one that it replaces, all it has.
Claimed(k) ==
    {d \in want[k] : op[k] \in {"create", "replace"} =>
                        d \notin todo[k] \/ (pc[k] \in {"free", "wipe"} /\ d = dev[k])}
Has(k) == Claimed(k) \cup {d \in {old[k]} : op[k] = "replace"}
\* A step of h registers devices that others have.
Overtake(h) ==
    /\ overtaken' = overtaken \cup {d \in Registered' \ Registered :
                                     \E k \in Handler \ {h} : d \in Has(k)}
    /\ UNCHANGED met

Next == \/ \E h \in Handler : \/ Request(h) /\ Meet(h)
                              \/ (Step(h) \/ Fail(h)) /\ Overtake(h)
        \/ (Crash \/ Reboot) /\ UNCHANGED <<met, overtaken>>
Spec == Init /\ [][Next]_vars

-----------------------------------------------------------------------------
TypeOK ==
    /\ disk \in [Device -> Filesystem \cup {None, Root}]
    /\ mount \in [Name -> Filesystem \cup {None}]
    /\ unit \in [Name -> Uuid \cup {None}] /\ enabled \in [Name -> BOOLEAN]
    /\ storage \in [Pool -> Name \cup {None}]
    /\ pool \subseteq {p \in Pool : storage[p] # None}
    /\ devs \in [Pool -> SUBSET Device] /\ \A p \in Pool \ pool : devs[p] = {}
    /\ pc \in [Handler -> Point] /\ op \in [Handler -> Op \cup {None}]
    /\ at \in [Handler -> Name \cup {None}] /\ id \in [Handler -> Pool \cup {None}]
    /\ want \in [Handler -> SUBSET Device] /\ todo \in [Handler -> SUBSET Device]
    /\ dev \in [Handler -> Device \cup {None}] /\ old \in [Handler -> Device \cup {None}]
    /\ sound \subseteq Pool

\* A pool is whole when the unit of its path starts at boot and names the
\* filesystem that spans exactly its registered devices, all of them still hold
\* it, its data are there, and nothing else is mounted at its path.
Whole(p) ==
    LET n == storage[p] IN
    /\ p \in pool
    /\ \E f \in {disk[d] : d \in devs[p]} :
         /\ Mountable(f) /\ f.on = devs[p] /\ f.data
         /\ unit[n] = f.uuid /\ enabled[n] /\ mount[n] \in {None, f}

\* A creation or a format that answers with success has made a whole pool,
\* whatever the failures, crashes and restarts before it have left behind
\* (create.go:136, format.go:153), and it stays whole through everything that
\* happens elsewhere, also while other requests meet and spoil each other's work:
\* only where requests have met, at the name of the pool or at one of its devices,
\* may it break.  And only while a replacement has swapped the disks and not yet the
\* records do the two disagree.
SoundPools ==
    \A p \in sound : \/ Whole(p)
                     \/ \E h \in Handler : id[h] = p /\ At(h, "record")
                     \/ storage[p] \in met

\* A device that is registered with a pool loses its filesystem only to a request
\* about that pool, which formats, erases or replaces, although the check is made at
\* the beginning of a creation (devices.go:117) and the devices are overwritten much
\* later.  The one way around the check is to have passed it before: the device was
\* registered, by another request, between the check and what follows it.
SameFilesystem(f, g) == f = g \/ ({f, g} \subseteq Filesystem /\ f.uuid = g.uuid)
RegisteredKept ==
    [][\A p \in pool : \A d \in devs[p] \ overtaken :
         \/ SameFilesystem(disk[d], disk'[d])
         \/ \E h \in Handler : id[h] = p /\ op[h] \in {"format", "erase", "replace"}]_vars

\* A deletion that has come to the path of the pool (delete.go:82), and so one that
\* answers with success, has left nothing there that a later boot could mount,
\* even if earlier deletions failed half way; a device that it has wiped stays so.
\* Where requests have met, another may put something there at once.
DeletedClean ==
    \A h \in Handler :
        (At(h, "purge") \/ (At(h, "wipe") /\ op[h] = "erase")) /\ at[h] \notin met =>
          /\ unit[at[h]] = None /\ ~ enabled[at[h]] /\ mount[at[h]] = None
          /\ at[h] \notin Taken /\ id[h] \notin pool
          /\ At(h, "wipe") => \A d \in want[h] \ todo[h] : disk[d] = None

\* No request, in no order and with no failure, touches a system disk: the check
\* (devices.go:128) is made when a device is registered, and not again.
SystemDiskKept == \A d \in System : disk[d] = Root
-----------------------------------------------------------------------------
(* The inductive invariant for the system disks.                           *)

Creating  == {"lookup", "stale", "sweep", "available", "addStorage", "addPool"}
Preparing == {"check", "free"}
Making    == {"mkfs", "unit", "enable", "start", "layout"}
Deleting  == {"dropPool", "dropStorage", "unmounted", "purge"}

\* Each point belongs to the requests that come to it, which know what they are
\* about.
InPlace ==
    \A h \in Handler :
        /\ pc[h] \in Creating => op[h] = "create"
        /\ pc[h] \in Preparing => op[h] \in {"create", "replace"}
        /\ pc[h] = "wipe" => op[h] \in {"create", "replace", "format", "erase"}
        /\ pc[h] \in Making => op[h] \in {"create", "format"}
        /\ pc[h] = "refresh" => op[h] = "format"
        /\ pc[h] = "subvolumes" => op[h] = "erase"
        /\ pc[h] \in {"dismount", "disable", "removeUnit"} =>
              op[h] \in {"format", "delete", "erase"}
        /\ pc[h] \in Deleting => op[h] \in {"delete", "erase"}
        /\ pc[h] \in {"swap", "record"} => op[h] = "replace"
        /\ op[h] # None => at[h] \in Name
        /\ op[h] \in {"format", "delete", "erase", "replace"} \/ pc[h] = "addPool"
              => id[h] \in Pool

\* A request holds no system disk among the devices that it has dealt with, nor
\* among those that it took from the tables.
Checked ==
    /\ \A p \in Pool : devs[p] \cap System = {}
    /\ \A h \in Handler :
          /\ pc[h] \in {"free", "wipe"} /\ op[h] \in {"create", "replace"}
                => dev[h] \in Device \ System
          /\ op[h] \in {"format", "delete", "erase"} => want[h] \cap System = {}
          /\ op[h] \in {"create", "replace"} => (want[h] \ todo[h]) \cap System = {}
          /\ op[h] = "create" /\ pc[h] \in Making \cup {"addStorage", "addPool"}
                => todo[h] = {}
          /\ pc[h] \in {"swap", "record"} => todo[h] = {}
          /\ todo[h] \subseteq want[h]

IInv == TypeOK /\ InPlace /\ Checked /\ SystemDiskKept

-----------------------------------------------------------------------------
(* The inductive invariant for the devices that pools have.                *)

\* A device that is registered with a pool is no other pool's, and the requests that
\* have it are about that pool, or it was overtaken.
Owned(p, d) ==
    /\ \A q \in pool \ {p} : d \notin devs[q]
    /\ \A k \in Handler : d \in Has(k) =>
          id[k] = p /\ op[k] \in {"format", "delete", "erase", "replace"}
RInv == /\ IInv
        /\ \A h \in Handler : pc[h] \in {"free", "wipe"} /\ op[h] \in {"create", "replace"} =>
              dev[h] \in want[h]
        /\ \A p \in pool : \A d \in devs[p] \ overtaken : Owned(p, d)

-----------------------------------------------------------------------------
(* The inductive invariant for the pools.  Most of it is about the names   *)
(* at which requests have not met, whatever goes on at the others.         *)

\* What holds of all requests and names: a handler at rest has no name, and no devices;
\* a row that a request is about goes or stays where it is; names belong to one storage;
\* a filesystem spans the devices that hold it; and a uuid belongs to one filesystem.
Orderly ==
    /\ met \subseteq Name /\ sound \subseteq pool
    /\ \A h \in Handler : /\ At(h, "idle") => at[h] = None
                          /\ at[h] = None => want[h] = {}
                          /\ id[h] \in Pool => storage[id[h]] \in {None, at[h]}
    /\ \A p, q \in Pool : p # q /\ storage[p] # None => storage[p] # storage[q]
    /\ \A d \in Device : disk[d] \in Filesystem => d \in disk[d].on
    /\ \A f, g \in Spanned \cap Filesystem : f.uuid = g.uuid => f = g

\* Requests that have a name or a device in common have met; so have those that made
\* pools with a device in common, and those that may write on a device of another's pool.
Separate ==
    /\ \A h, k \in Handler :
          h # k /\ ((at[h] # None /\ at[h] = at[k]) \/ want[h] \cap want[k] # {})
            => at[h] \in met
    /\ \A p, q \in Pool : p # q /\ devs[p] \cap devs[q] # {} => storage[p] \in met
    /\ \A k \in Handler, p \in pool :
          devs[p] \cap Claimed(k) # {} /\ storage[p] # at[k] => {storage[p], at[k]} \subseteq met

\* The unit of a name where none have met is the only one to name its filesystem, which
\* is mounted nowhere else; what is mounted at the name is what its unit names; and no
\* request is about to write the same into the unit of another.
InOrder(n) == /\ mount[n] # None => unit[n] = mount[n].uuid
              /\ enabled[n] => unit[n] # None
Identified ==
    /\ \A m \in Name \ met : \A n \in Name \ {m} :
          unit[m] # None => unit[n] # unit[m] /\ (mount[n] # None => mount[n].uuid # unit[m])
    /\ \A n \in Name \ met : InOrder(n)
    /\ \A k \in Handler, d \in Device :
          At(k, "unit") /\ d \in want[k] /\ disk[d] \in Filesystem =>
            \A m \in Name \ met : m # at[k] => unit[m] # disk[d].uuid

Dissolving == {"subvolumes", "dismount", "disable", "removeUnit", "dropPool"}
Erasing(h) == At(h, "wipe") /\ op[h] = "erase"
Dropped(h) == pc[h] \in {"unmounted", "purge"} \/ Erasing(h)

\* What a request may rely on in the tables: nobody else changes the rows of its name.
Settled(h) ==
    /\ op[h] \in {"format", "replace"} \/ pc[h] \in Dissolving =>
          id[h] \in pool /\ storage[id[h]] = at[h]
    /\ op[h] = "format" \/ pc[h] \in Dissolving => want[h] = devs[id[h]]
    /\ op[h] = "replace" => old[h] \in devs[id[h]] /\ \E d \in Device : want[h] = {d}
    /\ op[h] = "create" /\ pc[h] \notin {"lookup", "addPool"} => at[h] \notin Taken
    /\ pc[h] \in {"addPool", "dropStorage"} => id[h] \notin pool /\ storage[id[h]] = at[h]
    /\ Dropped(h) => storage[id[h]] = None /\ at[h] \notin Taken

\* The devices that a request has checked, and those that it has taken out of the
\* tables, stay out of them; those that it has erased stay empty.
Dealt(h) ==
    /\ op[h] \in {"create", "replace"} => (want[h] \ todo[h]) \cap Registered = {}
    /\ op[h] \in {"create", "replace"} /\ pc[h] \in {"free", "wipe"} =>
          dev[h] \in want[h] \ Registered
    /\ At(h, "dropStorage") \/ Dropped(h) => want[h] \cap Registered = {}
    /\ op[h] = "erase" /\ ~ At(h, "wipe") => todo[h] = want[h]
    /\ Erasing(h) => \A d \in want[h] \ todo[h] : disk[d] = None

\* What a request has taken down at its path stays down.
Down(h) ==
    /\ \/ pc[h] \in {"sweep", "available", "mkfs", "unit", "enable", "start",
                     "removeUnit", "purge"}
       \/ pc[h] \in {"check", "free", "wipe"} /\ op[h] # "replace"
       => mount[at[h]] = None
    /\ At(h, "removeUnit") => ~ enabled[at[h]]
    /\ pc[h] \in Deleting \/ Erasing(h) => unit[at[h]] = None
    /\ \/ pc[h] \in {"disable", "removeUnit", "dropPool"}
       \/ op[h] = "erase" /\ At(h, "dismount")
       \/ op[h] = "format" /\ ~ At(h, "dismount")
       => id[h] \notin sound

\* The devices D have one new filesystem, which no unit names yet and which is mounted
\* nowhere; they have the one that the unit of n names; and that one starts at boot and
\* has its data.
Marked(D) ==
    \A d \in D : /\ disk[d] \in Filesystem /\ disk[d].on = D
                 /\ \A e \in D : disk[e] = disk[d]
                 /\ \A n \in Name : /\ unit[n] # disk[d].uuid
                                    /\ mount[n] # None => mount[n].uuid # disk[d].uuid
Spans(f, n, D) == f.on = D /\ Mountable(f) /\ unit[n] = f.uuid
Carries(n, D)  == \E f \in Filesystem : Spans(f, n, D)
Stocked(n, D)  == enabled[n] /\ \E f \in Filesystem : Spans(f, n, D) /\ f.data

\* What a request has built on its devices stays there.
Built(h) ==
    /\ At(h, "unit") => Marked(want[h])
    /\ pc[h] \in {"enable", "start", "layout"} => Carries(at[h], want[h])
    /\ pc[h] \in {"start", "layout"} => enabled[at[h]]
    /\ pc[h] \in {"addStorage", "addPool", "refresh"} => Stocked(at[h], want[h])
    /\ At(h, "record") /\ id[h] \in sound =>
          Stocked(at[h], (devs[id[h]] \ {old[h]}) \cup want[h])

\* A pool that was made with success is there, and has all of this, unless a
\* replacement is about to record what it has swapped.
Stands(p) == /\ p \in pool
             /\ \/ Stocked(storage[p], devs[p])
                \/ \E h \in Handler : id[h] = p /\ At(h, "record")
Standing  == \A p \in sound : storage[p] \notin met => Stands(p)

Own(h) == Settled(h) /\ Dealt(h) /\ Down(h) /\ Built(h)
Held   == \A h \in Handler : at[h] \notin met => Own(h)

WInv == RInv /\ Orderly /\ Separate /\ Identified /\ Held /\ Standing
=============================================================================
