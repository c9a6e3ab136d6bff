---------------------------- MODULE PoolsProofs ----------------------------
(***************************************************************************)
(* Theorems about Pools, for any sets of names, devices, pools and         *)
(* requests, any failures and restarts, and any requests at the same time. *)
(* The first part is about the system disks, the second about the devices  *)
(* that pools have, and the third about what pools promise to their        *)
(* owners, at each name where no two requests have met.                    *)
(***************************************************************************)
EXTENDS Pools, TLAPS

USE DEF media, boot, tables, locals

-----------------------------------------------------------------------------
(* The beginning.                                                          *)

\* At the start there are no pools, no requests, and the system disks are whole.
LEMMA InitIInv == Init => IInv
<1> SUFFICES ASSUME Init PROVE IInv
  OBVIOUS
<1> USE SystemAssumption, OpAssumption DEF Init
<1>1. TypeOK
  BY DEF TypeOK, Point
<1>2. InPlace
  BY DEF InPlace, Creating, Preparing, Making, Deleting, Op
<1>3. Checked
  BY DEF Checked
<1>4. SystemDiskKept
  BY DEF SystemDiskKept
<1> QED  BY <1>1, <1>2, <1>3, <1>4 DEF IInv

-----------------------------------------------------------------------------
(* Facts that the actions share.                                           *)

\* The part of TypeOK about the variables of handlers.
LocalsOK ==
    /\ pc \in [Handler -> Point] /\ op \in [Handler -> Op \cup {None}]
    /\ at \in [Handler -> Name \cup {None}] /\ id \in [Handler -> Pool \cup {None}]
    /\ want \in [Handler -> SUBSET Device] /\ todo \in [Handler -> SUBSET Device]
    /\ dev \in [Handler -> Device \cup {None}] /\ old \in [Handler -> Device \cup {None}]

\* The end of a request keeps the types of what a handler remembers.
LEMMA ReturnTypes ==
    ASSUME TypeOK, NEW h \in Handler, Return(h)
    PROVE  LocalsOK'
BY DEF TypeOK, LocalsOK, Return, Point

\* So does going from one point to another.
LEMMA ProceedTypes ==
    ASSUME TypeOK, NEW h \in Handler, NEW point \in Point, Proceed(h, point)
    PROVE  LocalsOK'
BY DEF TypeOK, LocalsOK, Proceed, Goto

\* A handler that has returned is at no point of any request.
LEMMA ReturnInPlace ==
    ASSUME TypeOK, InPlace, NEW h \in Handler, Return(h)
    PROVE  InPlace'
BY OpAssumption DEF TypeOK, InPlace, Return, Creating, Preparing, Making, Deleting, Op

\* A handler that has returned holds no devices.
LEMMA ReturnChecked ==
    ASSUME TypeOK, Checked, NEW h \in Handler, Return(h), UNCHANGED devs
    PROVE  Checked'
BY OpAssumption DEF TypeOK, Checked, Return

\* To change the files of a filesystem leaves the system disks alone, which hold
\* none.
LEMMA RewriteMedia ==
    ASSUME TypeOK, SystemDiskKept, NEW f \in Filesystem, NEW g \in Filesystem,
           Rewrite(f, g)
    PROVE  /\ disk' \in [Device -> Filesystem \cup {None, Root}]
           /\ mount' \in [Name -> Filesystem \cup {None}]
           /\ SystemDiskKept'
BY RootAssumption, SystemAssumption DEF TypeOK, SystemDiskKept, Rewrite

\* A filesystem with or without its data is a filesystem.
LEMMA DataTypes ==
    ASSUME NEW f \in Filesystem, NEW b \in BOOLEAN
    PROVE  [f EXCEPT !.data = b] \in Filesystem
BY DEF Filesystem

-----------------------------------------------------------------------------
(* Every step keeps the invariant: one lemma for each action.               *)

\* A creation begins with all its devices still to be dealt with.
LEMMA HandleCreatePoolIInv ==
    ASSUME IInv, NEW h \in Handler, HandleCreatePool(h)
    PROVE  IInv'
<1> USE DEF HandleCreatePool, Goto
<1>1. TypeOK'
  BY DEF IInv, TypeOK, Point, Op
<1>2. InPlace'
  BY DEF IInv, TypeOK, InPlace, Deleting
<1>3. Checked'
  BY DEF IInv, TypeOK, Checked, Making
<1>4. SystemDiskKept'
  BY DEF IInv, SystemDiskKept
<1> QED  BY <1>1, <1>2, <1>3, <1>4 DEF IInv

\* generatePoolPathName: the creation ends, or goes on with nothing changed.
LEMMA LookupIInv ==
    ASSUME IInv, NEW h \in Handler, Lookup(h)
    PROVE  IInv'
<1> USE DEF Lookup, At, Proceed, Return, Goto
<1>1. TypeOK'
  <2>1. LocalsOK'
    BY ReturnTypes, ProceedTypes DEF IInv, Point
  <2> QED  BY <2>1 DEF IInv, TypeOK, LocalsOK
<1>2. InPlace'
  <2>1. CASE Return(h)
    BY <2>1, ReturnInPlace DEF IInv
  <2>2. CASE Proceed(h, "stale")
    BY <2>2 DEF IInv, InPlace, Creating, Deleting
  <2> QED  BY <2>1, <2>2
<1>3. Checked'
  BY DEF IInv, TypeOK, Checked, Making
<1>4. SystemDiskKept'
  BY DEF IInv, SystemDiskKept
<1> QED  BY <1>1, <1>2, <1>3, <1>4 DEF IInv

\* cleanupStaleMountPath, its check: likewise.
LEMMA FindStaleIInv ==
    ASSUME IInv, NEW h \in Handler, FindStale(h)
    PROVE  IInv'
<1> USE DEF FindStale, At, Proceed, Return, Goto
<1>1. TypeOK'
  <2>1. LocalsOK'
    BY ReturnTypes, ProceedTypes DEF IInv, Point
  <2> QED  BY <2>1 DEF IInv, TypeOK, LocalsOK
<1>2. InPlace'
  <2>1. CASE Return(h)
    BY <2>1, ReturnInPlace DEF IInv
  <2>2. CASE Proceed(h, "sweep")
    BY <2>2 DEF IInv, InPlace, Creating, Deleting
  <2> QED  BY <2>1, <2>2
<1>3. Checked'
  BY DEF IInv, TypeOK, Checked, Making
<1>4. SystemDiskKept'
  BY DEF IInv, SystemDiskKept
<1> QED  BY <1>1, <1>2, <1>3, <1>4 DEF IInv

\* cleanupStaleMountPath, its removal: at most the files of a pool are lost.
LEMMA CleanupStaleIInv ==
    ASSUME IInv, NEW h \in Handler, CleanupStale(h)
    PROVE  IInv'
<1> USE OpAssumption DEF CleanupStale, At, RemoveAll
<1>1. CASE mount[at[h]] # None
  <2> DEFINE f == mount[at[h]]
  <2>1. f \in Filesystem
    BY <1>1 DEF IInv, TypeOK, InPlace, Creating, Op
  <2>2. Rewrite(f, [f EXCEPT !.data = FALSE]) /\ Return(h)
    BY <1>1
  <2> HIDE DEF f
  <2>3. /\ disk' \in [Device -> Filesystem \cup {None, Root}]
        /\ mount' \in [Name -> Filesystem \cup {None}]
        /\ SystemDiskKept'
    BY <2>1, <2>2, DataTypes, RewriteMedia DEF IInv
  <2>4. LocalsOK'
    BY <2>2, ReturnTypes DEF IInv
  <2>5. TypeOK'
    BY <2>3, <2>4 DEF IInv, TypeOK, LocalsOK
  <2> QED  BY <2>2, <2>3, <2>5, ReturnInPlace, ReturnChecked DEF IInv
<1>2. CASE mount[at[h]] = None
  <2>1. UNCHANGED media
    BY <1>2
  <2>2. CASE Proceed(h, "available")
    <3>1. LocalsOK'
      BY <2>2, ProceedTypes DEF IInv, Point
    <3>2. TypeOK'
      BY <2>1, <3>1 DEF IInv, TypeOK, LocalsOK
    <3>3. InPlace'
      BY <2>2 DEF IInv, InPlace, Proceed, Goto, Creating, Deleting
    <3>4. Checked'
      BY <2>1, <2>2 DEF IInv, Checked, Proceed, Goto, Making
    <3> QED  BY <2>1, <3>2, <3>3, <3>4 DEF IInv, SystemDiskKept
  <2> QED  BY <1>2, <2>2
<1> QED  BY <1>1, <1>2

\* ensureCreateAvailable: likewise.
LEMMA EnsureAvailableIInv ==
    ASSUME IInv, NEW h \in Handler, EnsureAvailable(h)
    PROVE  IInv'
<1> USE DEF EnsureAvailable, At, Proceed, Return, Goto
<1>1. TypeOK'
  <2>1. LocalsOK'
    BY ReturnTypes, ProceedTypes DEF IInv, Point
  <2> QED  BY <2>1 DEF IInv, TypeOK, LocalsOK
<1>2. InPlace'
  <2>1. CASE Return(h)
    BY <2>1, ReturnInPlace DEF IInv
  <2>2. CASE Proceed(h, "check")
    BY <2>2 DEF IInv, InPlace, Creating, Deleting
  <2> QED  BY <2>1, <2>2
<1>3. Checked'
  BY DEF IInv, TypeOK, Checked, Making
<1>4. SystemDiskKept'
  BY DEF IInv, SystemDiskKept
<1> QED  BY <1>1, <1>2, <1>3, <1>4 DEF IInv

\* forcePreparePoolDevices: the device that passes the check is not a system disk.
LEMMA CheckDeviceIInv ==
    ASSUME IInv, NEW h \in Handler, CheckDevice(h)
    PROVE  IInv'
<1> USE OpAssumption DEF CheckDevice, CheckOr, At, Return, Goto, Registered
<1>1. TypeOK'
  <2>1. LocalsOK'
    <3>1. CASE Return(h)
      BY <3>1, ReturnTypes DEF IInv
    <3>2. ASSUME NEW d \in todo[h], dev' = [dev EXCEPT ![h] = d], Goto(h, "free"),
                 UNCHANGED <<op, at, id, want, todo, old>>
          PROVE  LocalsOK'
      BY <3>2 DEF IInv, TypeOK, LocalsOK, Goto, Point
    <3> QED  BY <3>1, <3>2
  <2> QED  BY <2>1 DEF IInv, TypeOK, LocalsOK
<1>2. InPlace'
  BY DEF IInv, TypeOK, InPlace, Creating, Preparing, Making, Deleting, Op
<1>3. Checked'
  BY DEF IInv, TypeOK, Checked, Making
<1>4. SystemDiskKept'
  BY DEF IInv, SystemDiskKept
<1> QED  BY <1>1, <1>2, <1>3, <1>4 DEF IInv

\* Unmounting a device's filesystem changes no device.
LEMMA FreeDeviceIInv ==
    ASSUME IInv, NEW h \in Handler, FreeDevice(h)
    PROVE  IInv'
<1> USE DEF FreeDevice, At, Proceed, Goto
<1>1. TypeOK'
  BY DEF IInv, TypeOK, Point
<1>2. InPlace'
  BY DEF IInv, InPlace, Creating, Preparing, Making, Deleting
<1>3. Checked'
  BY DEF IInv, Checked, Making
<1>4. SystemDiskKept'
  BY DEF IInv, SystemDiskKept
<1> QED  BY <1>1, <1>2, <1>3, <1>4 DEF IInv

\* The device that is wiped has passed the check, and counts as dealt with.
LEMMA WipeCheckedIInv ==
    ASSUME IInv, NEW h \in Handler, WipeChecked(h)
    PROVE  IInv'
<1> USE DEF WipeChecked, Wipe, At, Goto
<1>1. TypeOK'
  BY DEF IInv, TypeOK, Point
<1>2. InPlace'
  BY DEF IInv, InPlace, Creating, Making, Deleting
<1>3. Checked'
  BY DEF IInv, TypeOK, Checked, Making
<1>4. SystemDiskKept'
  BY DEF IInv, Checked, SystemDiskKept
<1> QED  BY <1>1, <1>2, <1>3, <1>4 DEF IInv

\* A format and a deletion wipe devices from the tables, which hold no system disk.
LEMMA WipeOwnIInv ==
    ASSUME IInv, NEW h \in Handler, WipeOwn(h)
    PROVE  IInv'
<1> USE DEF WipeOwn, Wipe, At, Goto
<1>1. TypeOK'
  BY DEF IInv, TypeOK
<1>2. InPlace'
  BY DEF IInv, InPlace
<1>3. Checked'
  BY DEF IInv, Checked
<1>4. SystemDiskKept'
  BY DEF IInv, Checked, SystemDiskKept
<1> QED  BY <1>1, <1>2, <1>3, <1>4 DEF IInv

\* When every device has been dealt with the request goes on.
LEMMA PreparedIInv ==
    ASSUME IInv, NEW h \in Handler, Prepared(h)
    PROVE  IInv'
<1> USE OpAssumption DEF Prepared, At, Proceed, Return, Goto
<1>1. TypeOK'
  <2>1. LocalsOK'
    BY ReturnTypes, ProceedTypes DEF IInv, Point
  <2> QED  BY <2>1 DEF IInv, TypeOK, LocalsOK
<1>2. InPlace'
  BY DEF IInv, TypeOK, InPlace, Creating, Preparing, Making, Deleting, Op
<1>3. Checked'
  BY DEF IInv, TypeOK, Checked
<1>4. SystemDiskKept'
  BY DEF IInv, SystemDiskKept
<1> QED  BY <1>1, <1>2, <1>3, <1>4 DEF IInv

\* mkfs.btrfs writes only on devices that have been dealt with, or that are from the
\* tables.
LEMMA MakeFilesystemIInv ==
    ASSUME IInv, NEW h \in Handler, MakeFilesystem(h)
    PROVE  IInv'
<1> USE SystemAssumption DEF MakeFilesystem, At, Proceed, Goto
<1>1. TypeOK'
  BY DEF IInv, TypeOK, Point, Filesystem
<1>2. InPlace'
  BY DEF IInv, InPlace, Creating, Preparing, Making, Deleting
<1>3. Checked'
  BY DEF IInv, Checked, Making
<1>4. SystemDiskKept'
  <2>1. want[h] \cap System = {}
    BY DEF IInv, InPlace, Checked, Making
  <2> QED  BY <2>1 DEF IInv, SystemDiskKept
<1> QED  BY <1>1, <1>2, <1>3, <1>4 DEF IInv

\* A unit names the uuid of a filesystem.
LEMMA WriteUnitIInv ==
    ASSUME IInv, NEW h \in Handler, WriteUnit(h)
    PROVE  IInv'
<1> USE DEF WriteUnit, At, Proceed, Goto
<1>1. TypeOK'
  BY DEF IInv, TypeOK, Point, Filesystem
<1>2. InPlace'
  BY DEF IInv, InPlace, Creating, Preparing, Making, Deleting
<1>3. Checked'
  BY DEF IInv, Checked, Making
<1>4. SystemDiskKept'
  BY DEF IInv, SystemDiskKept
<1> QED  BY <1>1, <1>2, <1>3, <1>4 DEF IInv

\* Enabling a unit changes neither devices nor tables.
LEMMA EnableIInv ==
    ASSUME IInv, NEW h \in Handler, Enable(h)
    PROVE  IInv'
<1> USE DEF Enable, At, Proceed, Goto
<1>1. TypeOK'
  BY DEF IInv, TypeOK, Point
<1>2. InPlace'
  BY DEF IInv, InPlace, Creating, Preparing, Making, Deleting
<1>3. Checked'
  BY DEF IInv, Checked, Making
<1>4. SystemDiskKept'
  BY DEF IInv, SystemDiskKept
<1> QED  BY <1>1, <1>2, <1>3, <1>4 DEF IInv

\* What is mounted is a filesystem.
LEMMA StartIInv ==
    ASSUME IInv, NEW h \in Handler, Start(h)
    PROVE  IInv'
<1> USE DEF Start, At, Proceed, Goto, Named, Mountable
<1>1. TypeOK'
  BY DEF IInv, TypeOK, Point
<1>2. InPlace'
  BY DEF IInv, InPlace, Creating, Preparing, Making, Deleting
<1>3. Checked'
  BY DEF IInv, Checked, Making
<1>4. SystemDiskKept'
  BY DEF IInv, SystemDiskKept
<1> QED  BY <1>1, <1>2, <1>3, <1>4 DEF IInv

\* The layout is made inside a filesystem.
LEMMA InitializeLayoutIInv ==
    ASSUME IInv, NEW h \in Handler, InitializeLayout(h)
    PROVE  IInv'
<1> USE OpAssumption DEF InitializeLayout, At, Proceed, Goto, Rewrite
<1>0. /\ disk' \in [Device -> Filesystem \cup {None, Root}]
      /\ mount' \in [Name -> Filesystem \cup {None}]
      /\ SystemDiskKept'
  <2> DEFINE f == mount[at[h]]
  <2>1. CASE f = None
    BY <2>1 DEF IInv, SystemDiskKept
  <2>2. CASE f # None
    <3>1. f \in Filesystem
      BY <2>2 DEF IInv, TypeOK, InPlace, Making, Op
    <3>2. Rewrite(f, [f EXCEPT !.data = TRUE])
      BY <2>2
    <3> HIDE DEF f, InitializeLayout, Rewrite
    <3> QED  BY <3>1, <3>2, DataTypes, RewriteMedia DEF IInv
  <2> QED  BY <2>1, <2>2
<1>1. TypeOK'
  <2>1. LocalsOK'
    BY ProceedTypes DEF IInv, Point
  <2> QED  BY <1>0, <2>1 DEF IInv, TypeOK, LocalsOK
<1>2. InPlace'
  BY DEF IInv, InPlace, Creating, Preparing, Making, Deleting
<1>3. Checked'
  BY DEF IInv, Checked, Making
<1>4. SystemDiskKept'
  BY <1>0
<1> QED  BY <1>1, <1>2, <1>3, <1>4 DEF IInv

\* A fresh storage row belongs to no pool yet.
LEMMA AddStorageIInv ==
    ASSUME IInv, NEW h \in Handler, AddStorage(h)
    PROVE  IInv'
<1> USE DEF AddStorage, At, Goto
<1>1. TypeOK'
  BY DEF IInv, TypeOK, Point
<1>2. InPlace'
  BY DEF IInv, TypeOK, InPlace, Creating, Deleting
<1>3. Checked'
  BY DEF IInv, Checked
<1>4. SystemDiskKept'
  BY DEF IInv, SystemDiskKept
<1> QED  BY <1>1, <1>2, <1>3, <1>4 DEF IInv

\* The devices that a creation registers have all been dealt with, so none of them is
\* a system disk.
LEMMA AddPoolIInv ==
    ASSUME IInv, NEW h \in Handler, AddPool(h)
    PROVE  IInv'
<1> USE OpAssumption DEF AddPool, At, Return
<1>1. TypeOK'
  BY DEF IInv, TypeOK, Point, InPlace
<1>2. InPlace'
  BY DEF IInv, TypeOK, InPlace, Creating, Preparing, Making, Deleting, Op
<1>3. Checked'
  BY DEF IInv, InPlace, Checked, Creating
<1>4. SystemDiskKept'
  BY DEF IInv, SystemDiskKept
<1> QED  BY <1>1, <1>2, <1>3, <1>4 DEF IInv

\* A format takes its devices from the tables.
LEMMA HandleFormatPoolIInv ==
    ASSUME IInv, NEW h \in Handler, HandleFormatPool(h)
    PROVE  IInv'
<1> USE DEF HandleFormatPool, Ask, At, Goto
<1>1. TypeOK'
  BY DEF IInv, TypeOK, Point, Op
<1>2. InPlace'
  BY DEF IInv, TypeOK, InPlace, Creating, Preparing, Deleting
<1>3. Checked'
  BY DEF IInv, TypeOK, Checked
<1>4. SystemDiskKept'
  BY DEF IInv, SystemDiskKept
<1> QED  BY <1>1, <1>2, <1>3, <1>4 DEF IInv

\* So does a deletion, whether or not it wipes them.
LEMMA HandleDeletePoolIInv ==
    ASSUME IInv, NEW h \in Handler, HandleDeletePool(h)
    PROVE  IInv'
<1> USE DEF HandleDeletePool, Ask, At, Goto
<1>1. TypeOK'
  <2>1. PICK p \in pool :
          \/ Ask(h, p, "delete", devs[p], "dismount") /\ UNCHANGED old
          \/ Ask(h, p, "erase", devs[p], "subvolumes") /\ UNCHANGED old
    OBVIOUS
  <2>2. p \in Pool /\ storage[p] \in Name /\ devs[p] \in SUBSET Device
    BY DEF IInv, TypeOK
  <2>3. LocalsOK'
    <3>1. /\ pc' \in [Handler -> Point] /\ op' \in [Handler -> Op \cup {None}]
          /\ old' \in [Handler -> Device \cup {None}]
      BY <2>1 DEF IInv, TypeOK, Point, Op
    <3>2. /\ at' \in [Handler -> Name \cup {None}] /\ id' \in [Handler -> Pool \cup {None}]
          /\ dev' \in [Handler -> Device \cup {None}]
      BY <2>1, <2>2 DEF IInv, TypeOK
    <3>3. want' \in [Handler -> SUBSET Device] /\ todo' \in [Handler -> SUBSET Device]
      BY <2>1, <2>2 DEF IInv, TypeOK
    <3> QED  BY ONLY <3>1, <3>2, <3>3 DEF LocalsOK
  <2> QED  BY <2>1, <2>3 DEF IInv, TypeOK, LocalsOK
<1>2. InPlace'
  BY DEF IInv, TypeOK, InPlace, Creating, Preparing, Making
<1>3. Checked'
  BY DEF IInv, TypeOK, Checked
<1>4. SystemDiskKept'
  BY DEF IInv, SystemDiskKept
<1> QED  BY <1>1, <1>2, <1>3, <1>4 DEF IInv

\* A replacement begins with its new device still to be dealt with.
LEMMA HandleReplaceDeviceIInv ==
    ASSUME IInv, NEW h \in Handler, HandleReplaceDevice(h)
    PROVE  IInv'
<1> USE DEF HandleReplaceDevice, Ask, At, Goto
<1>1. TypeOK'
  BY DEF IInv, TypeOK, Point, Op
<1>2. InPlace'
  BY DEF IInv, TypeOK, InPlace, Creating, Making, Deleting
<1>3. Checked'
  BY DEF IInv, TypeOK, Checked
<1>4. SystemDiskKept'
  BY DEF IInv, SystemDiskKept
<1> QED  BY <1>1, <1>2, <1>3, <1>4 DEF IInv

\* Deleting subvolumes changes the files of one filesystem at most.
LEMMA DeleteSubvolumesIInv ==
    ASSUME IInv, NEW h \in Handler, DeleteSubvolumes(h)
    PROVE  IInv'
<1> USE OpAssumption DEF DeleteSubvolumes, At, Proceed, Goto, Rewrite
<1>0. /\ disk' \in [Device -> Filesystem \cup {None, Root}]
      /\ mount' \in [Name -> Filesystem \cup {None}]
      /\ SystemDiskKept'
  <2> DEFINE f == mount[at[h]]
  <2>1. CASE f = None
    BY <2>1 DEF IInv, TypeOK, SystemDiskKept
  <2>2. CASE f # None
    <3>1. f \in Filesystem
      BY <2>2 DEF IInv, TypeOK, InPlace, Op
    <3>2. Rewrite(f, [f EXCEPT !.data = FALSE])
      BY <2>2
    <3> HIDE DEF f, DeleteSubvolumes, Rewrite
    <3> QED  BY <3>1, <3>2, DataTypes, RewriteMedia DEF IInv
  <2> QED  BY <2>1, <2>2
<1>1. TypeOK'
  <2>1. LocalsOK'
    BY ProceedTypes DEF IInv, Point
  <2> QED  BY <1>0, <2>1 DEF IInv, TypeOK, LocalsOK
<1>2. InPlace'
  BY DEF IInv, InPlace, Creating, Preparing, Making
<1>3. Checked'
  BY DEF IInv, InPlace, Checked
<1>4. SystemDiskKept'
  BY <1>0
<1> QED  BY <1>1, <1>2, <1>3, <1>4 DEF IInv

\* umount changes no device.
LEMMA DismountIInv ==
    ASSUME IInv, NEW h \in Handler, Dismount(h)
    PROVE  IInv'
<1> USE DEF Dismount, At, Proceed, Goto, Unmount
<1>1. TypeOK'
  BY DEF IInv, TypeOK, Point
<1>2. InPlace'
  BY DEF IInv, InPlace, Creating, Preparing, Making, Deleting
<1>3. Checked'
  BY DEF IInv, InPlace, Checked
<1>4. SystemDiskKept'
  BY DEF IInv, SystemDiskKept
<1> QED  BY <1>1, <1>2, <1>3, <1>4 DEF IInv

\* Nor does disabling a unit.
LEMMA DisableUnitIInv ==
    ASSUME IInv, NEW h \in Handler, DisableUnit(h)
    PROVE  IInv'
<1> USE DEF DisableUnit, At, Proceed, Goto, Unmount, AfterUnit
<1>1. TypeOK'
  BY DEF IInv, TypeOK, Point
<1>2. InPlace'
  BY DEF IInv, InPlace, Creating, Preparing, Making, Deleting
<1>3. Checked'
  BY DEF IInv, InPlace, Checked
<1>4. SystemDiskKept'
  BY DEF IInv, SystemDiskKept
<1> QED  BY <1>1, <1>2, <1>3, <1>4 DEF IInv

\* Nor does removing it.
LEMMA RemoveUnitIInv ==
    ASSUME IInv, NEW h \in Handler, RemoveUnit(h)
    PROVE  IInv'
<1> USE DEF RemoveUnit, At, Proceed, Goto, AfterUnit
<1>1. TypeOK'
  BY DEF IInv, TypeOK, Point
<1>2. InPlace'
  BY DEF IInv, InPlace, Creating, Preparing, Making, Deleting
<1>3. Checked'
  BY DEF IInv, InPlace, Checked
<1>4. SystemDiskKept'
  BY DEF IInv, SystemDiskKept
<1> QED  BY <1>1, <1>2, <1>3, <1>4 DEF IInv

\* The end of a format changes nothing but what is known to be sound.
LEMMA RefreshIInv ==
    ASSUME IInv, NEW h \in Handler, Refresh(h)
    PROVE  IInv'
<1> USE OpAssumption DEF Refresh, At, Return
<1>1. TypeOK'
  BY DEF IInv, TypeOK, Point
<1>2. InPlace'
  BY DEF IInv, TypeOK, InPlace, Creating, Preparing, Making, Deleting, Op
<1>3. Checked'
  BY DEF IInv, TypeOK, Checked
<1>4. SystemDiskKept'
  BY DEF IInv, SystemDiskKept
<1> QED  BY <1>1, <1>2, <1>3, <1>4 DEF IInv

\* The row of a pool goes together with those of its devices.
LEMMA DropPoolIInv ==
    ASSUME IInv, NEW h \in Handler, DropPool(h)
    PROVE  IInv'
<1> USE DEF DropPool, At, Proceed, Goto, DeletePoolRow
<1>1. TypeOK'
  BY DEF IInv, TypeOK, Point
<1>2. InPlace'
  BY DEF IInv, InPlace, Creating, Preparing, Making, Deleting
<1>3. Checked'
  BY DEF IInv, InPlace, Checked, Deleting
<1>4. SystemDiskKept'
  BY DEF IInv, SystemDiskKept
<1> QED  BY <1>1, <1>2, <1>3, <1>4 DEF IInv

\* The row of a storage goes together with its pool's, if that is still there.
LEMMA DropStorageIInv ==
    ASSUME IInv, NEW h \in Handler, DropStorage(h)
    PROVE  IInv'
<1> USE DEF DropStorage, At, Proceed, Goto, DeletePoolRow
<1>1. TypeOK'
  BY DEF IInv, TypeOK, Point
<1>2. InPlace'
  BY DEF IInv, InPlace, Creating, Preparing, Making, Deleting
<1>3. Checked'
  BY DEF IInv, InPlace, Checked, Deleting
<1>4. SystemDiskKept'
  BY DEF IInv, SystemDiskKept
<1> QED  BY <1>1, <1>2, <1>3, <1>4 DEF IInv

\* The check of the path before it is removed changes nothing.
LEMMA FindUnmountedIInv ==
    ASSUME IInv, NEW h \in Handler, FindUnmounted(h)
    PROVE  IInv'
<1> USE DEF FindUnmounted, At, Proceed, Return, Goto
<1>1. TypeOK'
  <2>1. LocalsOK'
    BY ReturnTypes, ProceedTypes DEF IInv, Point
  <2> QED  BY <2>1 DEF IInv, TypeOK, LocalsOK
<1>2. InPlace'
  <2>1. CASE Return(h)
    BY <2>1, ReturnInPlace DEF IInv
  <2>2. CASE Proceed(h, "purge")
    BY <2>2 DEF IInv, InPlace, Creating, Preparing, Making, Deleting
  <2> QED  BY <2>1, <2>2
<1>3. Checked'
  BY DEF IInv, TypeOK, InPlace, Checked, Deleting
<1>4. SystemDiskKept'
  BY DEF IInv, SystemDiskKept
<1> QED  BY <1>1, <1>2, <1>3, <1>4 DEF IInv

\* rm -rf of the path takes at most the files of a pool.
LEMMA CleanupMountPathIInv ==
    ASSUME IInv, NEW h \in Handler, CleanupMountPath(h)
    PROVE  IInv'
<1> USE OpAssumption DEF CleanupMountPath, At, RemoveAll
<1>1. CASE mount[at[h]] # None
  <2> DEFINE f == mount[at[h]]
  <2>1. f \in Filesystem
    BY <1>1 DEF IInv, TypeOK, InPlace, Deleting, Op
  <2>2. Rewrite(f, [f EXCEPT !.data = FALSE]) /\ Return(h)
    BY <1>1
  <2> HIDE DEF f
  <2>3. /\ disk' \in [Device -> Filesystem \cup {None, Root}]
        /\ mount' \in [Name -> Filesystem \cup {None}]
        /\ SystemDiskKept'
    BY <2>1, <2>2, DataTypes, RewriteMedia DEF IInv
  <2>4. LocalsOK'
    BY <2>2, ReturnTypes DEF IInv
  <2>5. TypeOK'
    BY <2>3, <2>4 DEF IInv, TypeOK, LocalsOK
  <2> QED  BY <2>2, <2>3, <2>5, ReturnInPlace, ReturnChecked DEF IInv
<1>2. CASE mount[at[h]] = None
  <2>1. UNCHANGED media
    BY <1>2
  <2>2. CASE op[h] = "erase" /\ Proceed(h, "wipe")
    <3>1. LocalsOK'
      BY <2>2, ProceedTypes DEF IInv, Point
    <3>2. TypeOK'
      BY <2>1, <3>1 DEF IInv, TypeOK, LocalsOK
    <3>3. InPlace'
      BY <2>2 DEF IInv, InPlace, Proceed, Goto, Creating, Preparing, Making
    <3>4. Checked'
      BY <2>1, <2>2 DEF IInv, Checked, Proceed, Goto
    <3> QED  BY <2>1, <3>2, <3>3, <3>4 DEF IInv, SystemDiskKept
  <2>3. CASE Return(h)
    <3>1. LocalsOK'
      BY <2>3, ReturnTypes DEF IInv
    <3>2. TypeOK'
      BY <2>1, <3>1 DEF IInv, TypeOK, LocalsOK
    <3> QED  BY <2>1, <2>3, <3>2, ReturnInPlace, ReturnChecked DEF IInv, SystemDiskKept
  <2> QED  BY <1>2, <2>2, <2>3
<1> QED  BY <1>1, <1>2

\* btrfs replace changes the devices of one filesystem and one that was dealt with.
LEMMA ReplaceDeviceIInv ==
    ASSUME IInv, NEW h \in Handler, ReplaceDevice(h)
    PROVE  IInv'
<1> USE SystemAssumption, RootAssumption, OpAssumption DEF ReplaceDevice, At, Proceed, Goto
<1>1. TypeOK'
  BY DEF IInv, TypeOK, Point, Op, Filesystem, InPlace
<1>2. InPlace'
  BY DEF IInv, InPlace, Creating, Making, Deleting
<1>3. Checked'
  BY DEF IInv, Checked
<1>4. SystemDiskKept'
  <2>1. want[h] \cap System = {}
    BY DEF IInv, InPlace, Checked
  <2>2. PICK f \in {mount[at[h]]} \ {None}, d \in want[h] :
          /\ disk[old[h]] = f
          /\ disk' = [e \in Device |-> IF e = old[h] THEN None
                        ELSE IF e = d \/ disk[e] = f
                             THEN [f EXCEPT !.on = (@ \ {old[h]}) \cup {d}]
                        ELSE disk[e]]
    OBVIOUS
  <2>3. f \in Filesystem
    BY <2>2 DEF IInv, TypeOK, InPlace, Op
  <2>4. ASSUME NEW e \in System
        PROVE  e # old[h] /\ e # d /\ disk[e] # f /\ e \in Device
    BY <2>1, <2>2, <2>3 DEF IInv, SystemDiskKept
  <2> QED  BY <2>2, <2>4 DEF IInv, SystemDiskKept
<1> QED  BY <1>1, <1>2, <1>3, <1>4 DEF IInv

\* The device that comes into the tables has been dealt with.
LEMMA UpdateDeviceIInv ==
    ASSUME IInv, NEW h \in Handler, UpdateDevice(h)
    PROVE  IInv'
<1> USE OpAssumption DEF UpdateDevice, At, Return
<1>1. TypeOK'
  <2>1. LocalsOK'
    BY ReturnTypes DEF IInv
  <2>2. devs' \in [Pool -> SUBSET Device] /\ \A p \in Pool \ pool : devs'[p] = {}
    <3>1. want[h] \in SUBSET Device
      BY DEF IInv, TypeOK
    <3>2. CASE UNCHANGED devs
      BY <3>2 DEF IInv, TypeOK
    <3>3. CASE /\ old[h] \in devs[id[h]]
               /\ devs' = [devs EXCEPT ![id[h]] = (@ \ {old[h]}) \cup want[h]]
      <4>1. devs \in [Pool -> SUBSET Device] /\ \A p \in Pool \ pool : devs[p] = {}
        BY DEF IInv, TypeOK
      <4> QED  BY ONLY <3>1, <3>3, <4>1
    <3> QED  BY <3>2, <3>3
  <2> QED  BY <2>1, <2>2 DEF IInv, TypeOK, LocalsOK
<1>2. InPlace'
  BY DEF IInv, TypeOK, InPlace, Creating, Preparing, Making, Deleting, Op
<1>3. Checked'
  BY DEF IInv, TypeOK, InPlace, Checked
<1>4. SystemDiskKept'
  BY DEF IInv, SystemDiskKept
<1> QED  BY <1>1, <1>2, <1>3, <1>4 DEF IInv

\* A failure ends the request and leaves the rest.
LEMMA FailIInv ==
    ASSUME IInv, NEW h \in Handler, Fail(h)
    PROVE  IInv'
<1> USE OpAssumption DEF Fail, At, Return
<1>1. TypeOK'
  BY DEF IInv, TypeOK, Point
<1>2. InPlace'
  BY DEF IInv, TypeOK, InPlace, Creating, Preparing, Making, Deleting, Op
<1>3. Checked'
  BY DEF IInv, TypeOK, Checked
<1>4. SystemDiskKept'
  BY DEF IInv, SystemDiskKept
<1> QED  BY <1>1, <1>2, <1>3, <1>4 DEF IInv

\* A death of the process leaves media and tables, and no request.
LEMMA DieIInv ==
    ASSUME IInv, Die, UNCHANGED <<disk, boot, tables>>,
           mount' \in [Name -> Filesystem \cup {None}]
    PROVE  IInv'
<1> USE OpAssumption DEF Die
<1>1. TypeOK'
  BY DEF IInv, TypeOK, Point
<1>2. InPlace'
  BY DEF IInv, InPlace, Creating, Preparing, Making, Deleting, Op
<1>3. Checked'
  BY DEF IInv, Checked
<1>4. SystemDiskKept'
  BY DEF IInv, SystemDiskKept
<1> QED  BY <1>1, <1>2, <1>3, <1>4 DEF IInv

\* A boot mounts filesystems and changes no device.
LEMMA RebootIInv ==
    ASSUME IInv, Reboot
    PROVE  IInv'
<1>1. /\ mount' \in [Name -> {f \in Spanned : Mountable(f)} \cup {None}]
      /\ Die /\ UNCHANGED <<disk, boot, tables>>
  BY DEF Reboot
<1>2. {f \in Spanned : Mountable(f)} \subseteq Filesystem
  BY DEF Mountable
<1>3. mount' \in [Name -> Filesystem \cup {None}]
  BY <1>1, <1>2
<1> QED  BY <1>1, <1>3, DieIInv

\* A step that changes nothing keeps the invariant.
LEMMA StutterIInv ==
    ASSUME IInv, UNCHANGED vars
    PROVE  IInv'
BY DEF vars, IInv, TypeOK, InPlace, Checked, SystemDiskKept

\* Every step keeps the invariant.
LEMMA NextIInv ==
    ASSUME IInv, [Next]_vars
    PROVE  IInv'
<1>1. CASE \E h \in Handler : Request(h)
  BY <1>1, HandleCreatePoolIInv, HandleFormatPoolIInv, HandleDeletePoolIInv,
     HandleReplaceDeviceIInv DEF Request
<1>2. CASE \E h \in Handler : Step(h)
  BY <1>2, LookupIInv, FindStaleIInv, CleanupStaleIInv, EnsureAvailableIInv,
     CheckDeviceIInv, FreeDeviceIInv, WipeCheckedIInv, WipeOwnIInv, PreparedIInv,
     MakeFilesystemIInv, WriteUnitIInv, EnableIInv, StartIInv, InitializeLayoutIInv,
     AddStorageIInv, AddPoolIInv, RefreshIInv, DeleteSubvolumesIInv, DismountIInv,
     DisableUnitIInv, RemoveUnitIInv, DropPoolIInv, DropStorageIInv,
     FindUnmountedIInv, CleanupMountPathIInv, ReplaceDeviceIInv, UpdateDeviceIInv
     DEF Step
<1>3. CASE \E h \in Handler : Fail(h)
  BY <1>3, FailIInv
<1>4. CASE Crash
  BY <1>4, DieIInv DEF Crash, IInv, TypeOK
<1>5. CASE Reboot
  BY <1>5, RebootIInv
<1>6. CASE UNCHANGED vars
  BY <1>6, StutterIInv
<1> QED  BY <1>1, <1>2, <1>3, <1>4, <1>5, <1>6 DEF Next

-----------------------------------------------------------------------------
(* The theorems about types and system disks.                              *)

\* Every reachable state of the pools satisfies the invariant: no device on its way
\* from the check of forcePreparePoolDevices (devices.go:128) to the tables is a system
\* disk, at no point of any request.
THEOREM Invariance == Spec => []IInv
<1>1. IInv /\ [Next]_vars => IInv'
  BY NextIInv
<1> QED  BY InitIInv, <1>1, PTL DEF Spec

\* Every variable of the program keeps its type; in particular a row of a device has its pool
\* (ON DELETE CASCADE, also when a deletion dies between its two statements).
THEOREM TypeCorrect == Spec => []TypeOK
<1>1. IInv => TypeOK
  BY DEF IInv
<1> QED  BY Invariance, <1>1, PTL

\* No creation, format, deletion or replacement, with whatever failures and restarts,
\* touches a disk that holds "/", "/boot" or "/boot/efi", though only the registration
\* of a device checks for it (devices.go:128).
THEOREM SystemDisksAreKept == Spec => []SystemDiskKept
<1>1. IInv => SystemDiskKept
  BY DEF IInv
<1> QED  BY Invariance, <1>1, PTL

-----------------------------------------------------------------------------
(* What a step of a request does to the variables of handlers.             *)

\* The step of a request leaves the variables of the others alone.
LocalFrame(k) ==
    \A j \in Handler \ {k} :
        /\ pc'[j] = pc[j] /\ op'[j] = op[j] /\ at'[j] = at[j] /\ id'[j] = id[j]
        /\ want'[j] = want[j] /\ todo'[j] = todo[j] /\ dev'[j] = dev[j]
        /\ old'[j] = old[j]

\* The end of a request concerns no other.
LEMMA ReturnLocal ==
    ASSUME TypeOK, NEW k \in Handler, Return(k)
    PROVE  /\ LocalFrame(k)
           /\ pc'[k] = "idle" /\ op'[k] = None /\ at'[k] = None /\ id'[k] = None
           /\ want'[k] = {} /\ todo'[k] = {} /\ old'[k] = None
BY DEF TypeOK, Return, LocalFrame

\* Nor does its way from one point to another.
LEMMA ProceedLocal ==
    ASSUME TypeOK, NEW k \in Handler, NEW point, Proceed(k, point)
    PROVE  /\ LocalFrame(k)
           /\ pc'[k] = point /\ op'[k] = op[k] /\ at'[k] = at[k] /\ id'[k] = id[k]
           /\ want'[k] = want[k] /\ todo'[k] = todo[k] /\ dev'[k] = dev[k]
           /\ old'[k] = old[k]
BY DEF TypeOK, Proceed, Goto, LocalFrame

-----------------------------------------------------------------------------
(* The devices that pools have.                                            *)

\* The device that a request has passed is one of those that it wants.
Passed(h) == pc[h] \in {"free", "wipe"} /\ op[h] \in {"create", "replace"} =>
                dev[h] \in want[h]

\* A request gets devices from the tables of its pool, or when no pool has them.
Modest(h) ==
    \A d \in Has(h)' : \/ d \notin Registered'
                       \/ /\ d \in Has(h) /\ op'[h] = op[h]
                          /\ id'[h] = id[h] \/ op[h] = "create"

\* A request that has ended has no devices.
LEMMA ReturnHas ==
    ASSUME TypeOK, NEW h \in Handler, Return(h)
    PROVE  Has(h)' = {} /\ Passed(h)' /\ Modest(h)
BY ReturnLocal, OpAssumption DEF Has, Claimed, Passed, Modest, Op

\* One that goes on past its checks has those that it had.
LEMMA ProceedHas ==
    ASSUME TypeOK, NEW h \in Handler, NEW point, Proceed(h, point),
           point \notin {"free", "wipe"} \/ op[h] \notin {"create", "replace"}
    PROVE  Passed(h)' /\ Modest(h)
BY ProceedLocal DEF Has, Claimed, Passed, Modest

\* A step that registers nothing keeps every device with its pool.
LEMMA QuietRInv ==
    ASSUME RInv, IInv', NEW h \in Handler, LocalFrame(h), Passed(h)', Modest(h),
           overtaken' = overtaken, pool' \subseteq pool,
           \A p \in pool' : devs'[p] \subseteq devs[p]
    PROVE  RInv'
<1>1. \A k \in Handler : Passed(k)'
  BY DEF RInv, Passed, LocalFrame
<1>2. ASSUME NEW k \in Handler \ {h}
      PROVE  Has(k)' = Has(k) /\ id'[k] = id[k] /\ op'[k] = op[k]
  BY DEF LocalFrame, Has, Claimed
<1>3. ASSUME NEW p \in pool', NEW d \in devs'[p] \ overtaken'
      PROVE  Owned(p, d)'
  <2>1. p \in pool /\ Owned(p, d)
    BY <1>3 DEF RInv
  <2>2. \A q \in pool' \ {p} : d \notin devs'[q]
    BY <2>1 DEF Owned
  <2>3. ASSUME NEW k \in Handler, d \in Has(k)'
        PROVE  id'[k] = p /\ op'[k] \in {"format", "delete", "erase", "replace"}
    <3>1. CASE k # h
      BY <1>2, <2>1, <2>3, <3>1 DEF Owned
    <3>2. CASE k = h
      <4>1. d \in Registered'
        BY <1>3 DEF Registered
      <4> QED  BY <2>1, <2>3, <3>2, <4>1 DEF Modest, Owned
    <3> QED  BY <3>1, <3>2
  <2> QED  BY <2>2, <2>3 DEF Owned
<1> QED  BY <1>1, <1>3 DEF RInv, Passed

\* A request that registers the devices that it has, and ends, overtakes all others that
\* have them.
LEMMA GrowRInv ==
    ASSUME RInv, IInv', NEW h \in Handler, Return(h), Overtake(h), id[h] \in Pool,
           want[h] \subseteq Has(h), pool' = pool \cup {id[h]},
           \A q \in Pool : q # id[h] => devs'[q] = devs[q],
           devs'[id[h]] \subseteq devs[id[h]] \cup want[h]
    PROVE  RInv'
<1> PICK p \in Pool : p = id[h]
  OBVIOUS
<1>1. /\ LocalFrame(h) /\ Has(h)' = {} /\ Passed(h)'
      /\ pool \subseteq Pool /\ \A q \in Pool \ pool : devs[q] = {}
  BY ReturnLocal, ReturnHas DEF RInv, IInv, TypeOK
<1>2. \A k \in Handler : Passed(k)'
  BY <1>1 DEF RInv, Passed, LocalFrame
<1>3. ASSUME NEW k \in Handler
      PROVE  Has(k)' \subseteq Has(k) /\ (k # h => id'[k] = id[k] /\ op'[k] = op[k])
  BY <1>1 DEF LocalFrame, Has, Claimed
<1>4. overtaken \subseteq overtaken'
  BY DEF Overtake
<1>5. ASSUME NEW q \in pool', NEW d \in devs'[q] \ overtaken', q # p
      PROVE  Owned(q, d)'
  <2>1. q \in pool /\ Owned(q, d)
    BY <1>1, <1>4, <1>5 DEF RInv
  <2>2. d \notin devs'[p]
    BY <1>1, <1>5, <2>1 DEF Owned
  <2> QED  BY <1>1, <1>3, <2>1, <2>2 DEF Owned
<1>6. ASSUME NEW d \in devs'[p] \ overtaken'
      PROVE  Owned(p, d)'
  <2>1. CASE d \in Registered
    <3>1. PICK q \in pool : d \in devs[q]
      BY <2>1 DEF Registered
    <3>2. Owned(q, d)
      BY <1>4, <1>6, <3>1 DEF RInv
    <3>3. q = p
      <4>1. CASE d \in devs[p]
        BY <1>1, <3>2, <4>1 DEF Owned
      <4>2. CASE d \in want[h]
        BY <3>2, <4>2 DEF Owned
      <4> QED  BY <1>6, <4>1, <4>2
    <3> QED  BY <1>1, <1>3, <3>2, <3>3 DEF Owned
  <2>2. CASE d \notin Registered
    <3>1. \A q \in pool : d \notin devs[q]
      BY <2>2 DEF Registered
    <3>2. d \in Registered' \ Registered
      BY <1>6, <2>2 DEF Registered
    <3>3. \A k \in Handler \ {h} : d \notin Has(k)
      BY <1>6, <3>2 DEF Overtake
    <3> QED  BY <1>1, <1>3, <3>1, <3>3 DEF Owned
  <2> QED  BY <2>1, <2>2
<1> QED  BY <1>2, <1>5, <1>6 DEF RInv, Passed

\* A request begins with the devices of its pool, or with the one that it replaces.
LEMMA RequestRInv ==
    ASSUME RInv, IInv', NEW h \in Handler, Request(h), Meet(h)
    PROVE  RInv'
<1>1. /\ UNCHANGED <<tables, overtaken>> /\ LocalFrame(h)
      /\ \/ op'[h] = "create" /\ Has(h)' = {}
         \/ \E p \in pool : /\ Has(h)' \subseteq devs[p] /\ id'[h] = p
                            /\ op'[h] \in {"format", "delete", "erase", "replace"}
      /\ pc'[h] \notin {"free", "wipe"}
  <2> USE DEF Meet, LocalFrame, Goto, RInv, IInv, TypeOK
  <2>1. CASE HandleCreatePool(h)
    BY <2>1 DEF HandleCreatePool, Has, Claimed
  <2>2. CASE HandleFormatPool(h)
    BY <2>2 DEF HandleFormatPool, Ask, Has, Claimed
  <2>3. CASE HandleDeletePool(h)
    BY <2>3 DEF HandleDeletePool, Ask, Has, Claimed
  <2>4. CASE HandleReplaceDevice(h)
    BY <2>4 DEF HandleReplaceDevice, Ask, Has, Claimed
  <2> QED  BY <2>1, <2>2, <2>3, <2>4 DEF Request
<1>2. \A k \in Handler : Passed(k)'
  BY <1>1 DEF RInv, Passed, LocalFrame
<1>3. ASSUME NEW p \in pool, NEW d \in devs[p] \ overtaken
      PROVE  Owned(p, d)'
  <2>1. Owned(p, d)
    BY <1>3 DEF RInv
  <2>2. ASSUME NEW k \in Handler \ {h}
        PROVE  Has(k)' = Has(k) /\ id'[k] = id[k] /\ op'[k] = op[k]
    BY <1>1 DEF LocalFrame, Has, Claimed
  <2> QED  BY <1>1, <2>1, <2>2 DEF Owned
<1> QED  BY <1>1, <1>2, <1>3 DEF RInv, Passed

\* The steps that leave the tables alone let a request get at most a device that no pool
\* has (devices.go:117).
LEMMA StepModest ==
    ASSUME RInv, NEW h \in Handler,
           Step(h) \/ Fail(h), ~ AddPool(h), ~ UpdateDevice(h)
    PROVE  /\ LocalFrame(h) /\ Passed(h)' /\ Modest(h)
           /\ pool' \subseteq pool /\ \A p \in pool' : devs'[p] \subseteq devs[p]
<1> USE DEF At
<1>1. TypeOK /\ InPlace /\ Checked /\ Passed(h)
  BY DEF RInv, IInv, Passed
<1>2. ASSUME Return(h), UNCHANGED tables
      PROVE  /\ LocalFrame(h) /\ Passed(h)' /\ Modest(h)
             /\ pool' \subseteq pool /\ \A p \in pool' : devs'[p] \subseteq devs[p]
  BY <1>1, <1>2, ReturnLocal, ReturnHas
<1>3. ASSUME NEW point, Proceed(h, point), UNCHANGED <<pool, devs>>,
             point \notin {"free", "wipe"} \/ op[h] \notin {"create", "replace"}
      PROVE  /\ LocalFrame(h) /\ Passed(h)' /\ Modest(h)
             /\ pool' \subseteq pool /\ \A p \in pool' : devs'[p] \subseteq devs[p]
  BY <1>1, <1>3, ProceedLocal, ProceedHas
<1>4. CASE Lookup(h) \/ FindStale(h) \/ EnsureAvailable(h) \/ FindUnmounted(h) \/ Fail(h)
  BY <1>2, <1>3, <1>4 DEF Lookup, FindStale, EnsureAvailable, FindUnmounted, Fail
<1>5. CASE CleanupStale(h) \/ CleanupMountPath(h)
  BY <1>2, <1>3, <1>5 DEF CleanupStale, CleanupMountPath, RemoveAll
<1>6. CASE CheckDevice(h)
  <2>1. SUFFICES ASSUME NEW d \in todo[h], d \notin Registered,
                        dev' = [dev EXCEPT ![h] = d], Goto(h, "free"),
                        UNCHANGED <<op, at, id, want, todo, old, tables>>
                 PROVE  /\ LocalFrame(h) /\ Passed(h)' /\ Modest(h)
                        /\ pool' \subseteq pool
                        /\ \A p \in pool' : devs'[p] \subseteq devs[p]
    BY <1>2, <1>6 DEF CheckDevice, CheckOr
  <2>2. /\ LocalFrame(h) /\ dev'[h] = d /\ pc'[h] = "free" /\ d \in want[h]
        /\ pc[h] = "check"
    BY <1>1, <1>6, <2>1 DEF TypeOK, Checked, LocalFrame, Goto, CheckDevice, CheckOr
  <2>3. d \notin Registered'
    BY <2>1 DEF Registered
  <2> QED  BY <2>1, <2>2, <2>3 DEF Passed, Modest, Has, Claimed
<1>7. CASE FreeDevice(h)
  <2>1. Proceed(h, "wipe") /\ UNCHANGED tables /\ pc[h] = "free"
    BY <1>7 DEF FreeDevice
  <2> QED  BY <1>1, <2>1, ProceedLocal DEF Passed, Modest, Has, Claimed
<1>8. CASE WipeChecked(h) \/ WipeOwn(h)
  <2>1. PICK d, next : /\ Wipe(h, d, next)
                       /\ op[h] \in {"create", "replace"} => next = "check" /\ d = dev[h]
                       /\ pc[h] = "wipe"
    BY <1>8 DEF WipeChecked, WipeOwn
  <2>2. /\ LocalFrame(h) /\ pc'[h] = next /\ todo'[h] = todo[h] \ {d}
        /\ UNCHANGED <<op, id, want, old, tables>>
    BY <1>1, <2>1 DEF TypeOK, Wipe, Goto, LocalFrame
  <2> QED  BY <2>1, <2>2 DEF Passed, Modest, Has, Claimed
<1>9. CASE Prepared(h)
  BY <1>2, <1>3, <1>9 DEF Prepared
<1>10. CASE \/ MakeFilesystem(h) \/ WriteUnit(h) \/ Enable(h) \/ Start(h)
            \/ InitializeLayout(h)
  BY <1>3, <1>10 DEF MakeFilesystem, WriteUnit, Enable, Start, InitializeLayout
<1>11. CASE AddStorage(h)
  <2>1. op[h] = "create" /\ pc[h] = "addStorage"
    BY <1>1, <1>11 DEF AddStorage, InPlace, Creating
  <2>2. /\ LocalFrame(h) /\ pc'[h] = "addPool"
        /\ UNCHANGED <<pool, devs, op, want, todo, dev, old>>
    BY <1>1, <1>11 DEF AddStorage, TypeOK, Goto, LocalFrame
  <2> QED  BY <2>1, <2>2 DEF Passed, Modest, Has, Claimed
<1>12. CASE Refresh(h)
  BY <1>2, <1>12 DEF Refresh
<1>13. CASE DeleteSubvolumes(h) \/ Dismount(h) \/ ReplaceDevice(h)
  BY <1>3, <1>13 DEF DeleteSubvolumes, Dismount, ReplaceDevice
<1>14. CASE DisableUnit(h) \/ RemoveUnit(h)
  <2>1. op[h] \notin {"create", "replace"}
    BY <1>1, <1>14 DEF DisableUnit, RemoveUnit, InPlace
  <2> QED  BY <1>3, <1>14, <2>1 DEF DisableUnit, RemoveUnit
<1>15. CASE DropPool(h) \/ DropStorage(h)
  <2>1. op[h] \notin {"create", "replace"} /\ id[h] \in Pool
    BY <1>1, <1>15 DEF DropPool, DropStorage, InPlace, Deleting
  <2>2. /\ pool' = pool \ {id[h]} /\ devs' = [devs EXCEPT ![id[h]] = {}]
        /\ \E point : Proceed(h, point)
    BY <1>15 DEF DropPool, DropStorage, DeletePoolRow
  <2>3. \A p \in pool' : devs'[p] \subseteq devs[p]
    BY <1>1, <2>2 DEF TypeOK
  <2> QED  BY <1>1, <2>1, <2>2, <2>3, ProceedLocal, ProceedHas
<1> QED
  BY <1>4, <1>5, <1>6, <1>7, <1>8, <1>9, <1>10, <1>11, <1>12, <1>13, <1>14, <1>15
     DEF Step

\* AddPool and UpdateDevice register what the request has.
LEMMA RegisterRInv ==
    ASSUME RInv, IInv', NEW h \in Handler, AddPool(h) \/ UpdateDevice(h), Overtake(h)
    PROVE  RInv'
<1> USE DEF At
<1>1. TypeOK /\ InPlace /\ Checked /\ Return(h)
  BY DEF RInv, IInv, AddPool, UpdateDevice
<1>2. CASE AddPool(h)
  <2>1. id[h] \in Pool /\ todo[h] = {} /\ want[h] \subseteq Has(h)
    BY <1>1, <1>2 DEF AddPool, InPlace, Checked, Creating, Has, Claimed
  <2>2. /\ pool' = pool \cup {id[h]} /\ devs'[id[h]] = want[h]
        /\ \A q \in Pool : q # id[h] => devs'[q] = devs[q]
    BY <1>1, <1>2, <2>1 DEF AddPool, TypeOK
  <2> QED  BY <1>1, <2>1, <2>2, GrowRInv
<1>3. CASE UpdateDevice(h)
  <2>1. op[h] = "replace" /\ id[h] \in Pool /\ todo[h] = {} /\ want[h] \subseteq Has(h)
    BY <1>1, <1>3 DEF UpdateDevice, InPlace, Checked, Has, Claimed
  <2>2. CASE old[h] \in devs[id[h]]
    <3>1. /\ pool' = pool \cup {id[h]}
          /\ devs'[id[h]] = (devs[id[h]] \ {old[h]}) \cup want[h]
          /\ \A q \in Pool : q # id[h] => devs'[q] = devs[q]
      BY <1>1, <1>3, <2>1, <2>2 DEF UpdateDevice, TypeOK
    <3> QED  BY <1>1, <2>1, <3>1, GrowRInv
  <2>3. CASE old[h] \notin devs[id[h]]
    <3>1. UNCHANGED tables /\ LocalFrame(h) /\ Passed(h)' /\ Modest(h)
      BY <1>1, <1>3, <2>3, ReturnLocal, ReturnHas DEF UpdateDevice
    <3>2. overtaken' = overtaken
      BY <3>1 DEF Overtake, Registered
    <3> QED  BY <3>1, <3>2, QuietRInv
  <2> QED  BY <2>2, <2>3
<1> QED  BY <1>2, <1>3

\* Every step keeps every device with its pool, or it was overtaken.
LEMMA NextRInv ==
    ASSUME RInv, [Next]_vars
    PROVE  RInv'
<1>1. IInv'
  BY NextIInv DEF RInv
<1>2. CASE \E h \in Handler : Request(h) /\ Meet(h)
  BY <1>1, <1>2, RequestRInv
<1>3. CASE \E h \in Handler : (Step(h) \/ Fail(h)) /\ Overtake(h)
  <2>1. PICK h \in Handler : (Step(h) \/ Fail(h)) /\ Overtake(h)
    BY <1>3
  <2>2. CASE AddPool(h) \/ UpdateDevice(h)
    BY <1>1, <2>1, <2>2, RegisterRInv
  <2>3. CASE ~ AddPool(h) /\ ~ UpdateDevice(h)
    <3>1. /\ LocalFrame(h) /\ Passed(h)' /\ Modest(h)
          /\ pool' \subseteq pool /\ \A p \in pool' : devs'[p] \subseteq devs[p]
      BY <2>1, <2>3, StepModest
    <3>2. overtaken' = overtaken
      BY <2>1, <3>1 DEF Overtake, Registered
    <3> QED  BY <1>1, <3>1, <3>2, QuietRInv
  <2> QED  BY <2>2, <2>3
<1>4. CASE (Crash \/ Reboot) /\ UNCHANGED <<met, overtaken>>
  <2>1. UNCHANGED <<tables, overtaken>> /\ \A h \in Handler : Has(h)' = {} /\ Passed(h)'
    BY <1>4, OpAssumption DEF Crash, Reboot, Die, Has, Claimed, Passed, Op
  <2> QED  BY <1>1, <2>1 DEF RInv, Owned, Passed
<1>5. CASE UNCHANGED vars
  BY <1>1, <1>5 DEF vars, RInv, Owned, Has, Claimed
<1> QED  BY <1>2, <1>3, <1>4, <1>5 DEF Next

\* At the start no pool has a device.
LEMMA InitRInv == Init => RInv
<1> SUFFICES ASSUME Init PROVE RInv
  OBVIOUS
<1> QED  BY InitIInv DEF Init, RInv

\* In every reachable state a registered device belongs to one pool, and the requests that
\* have it are about that pool, unless it was registered while another request had passed
\* the check with it (devices.go:117).
THEOREM DevicesHaveOwners == Spec => []RInv
<1>1. RInv /\ [Next]_vars => RInv'
  BY NextRInv
<1> QED  BY InitRInv, <1>1, PTL DEF Spec

\* Changing the files of a filesystem leaves it the same.
LEMMA RewriteSame ==
    ASSUME NEW f \in Filesystem, NEW b \in BOOLEAN, Rewrite(f, [f EXCEPT !.data = b]),
           disk \in [Device -> Filesystem \cup {None, Root}], NEW d \in Device
    PROVE  SameFilesystem(disk[d], disk'[d])
<1>1. [f EXCEPT !.data = b] \in Filesystem /\ [f EXCEPT !.data = b].uuid = f.uuid
  BY DEF Filesystem
<1>2. disk'[d] = disk[d] \/ (disk[d] = f /\ disk'[d] = [f EXCEPT !.data = b])
  BY DEF Rewrite
<1> QED  BY <1>1, <1>2 DEF SameFilesystem

\* A step changes the filesystem of no device but of those that its request has.
LEMMA StepDisk ==
    ASSUME RInv, NEW h \in Handler, Step(h) \/ Fail(h), NEW d \in Device
    PROVE  \/ SameFilesystem(disk[d], disk'[d])
           \/ d \in Has(h) /\ op[h] \in {"create", "format", "erase", "replace"}
<1> USE DEF At
<1>1. TypeOK /\ InPlace /\ Checked /\ Passed(h)
  BY DEF RInv, IInv, Passed
<1>2. op[h] # None => at[h] \in Name
  BY <1>1 DEF InPlace
<1>3. CASE UNCHANGED disk
  BY <1>3 DEF SameFilesystem
<1>4. CASE \E b \in BOOLEAN : Rewrite(mount[at[h]], [mount[at[h]] EXCEPT !.data = b])
                              /\ op[h] # None /\ mount[at[h]] # None
  BY <1>1, <1>2, <1>4, RewriteSame DEF TypeOK
<1>5. CASE WipeChecked(h)
  BY <1>1, <1>5 DEF WipeChecked, Wipe, SameFilesystem, TypeOK, Has, Claimed, Passed
<1>6. CASE WipeOwn(h)
  BY <1>1, <1>6 DEF WipeOwn, Wipe, SameFilesystem, TypeOK, Has, Claimed, Checked
<1>7. CASE MakeFilesystem(h)
  <2>1. op[h] \in {"create", "format"} /\ (op[h] = "create" => todo[h] = {})
    BY <1>1, <1>7 DEF MakeFilesystem, InPlace, Making, Checked
  <2>2. disk'[d] = disk[d] \/ d \in want[h]
    BY <1>7 DEF MakeFilesystem
  <2> QED  BY <2>1, <2>2 DEF SameFilesystem, Has, Claimed
<1>8. CASE ReplaceDevice(h)
  <2>1. op[h] = "replace" /\ todo[h] = {} /\ at[h] \in Name
    BY <1>1, <1>2, <1>8, OpAssumption DEF ReplaceDevice, InPlace, Checked, Op
  <2>2. PICK f \in {mount[at[h]]} \ {None}, e \in want[h] :
          disk' = [c \in Device |-> IF c = old[h] THEN None
                     ELSE IF c = e \/ disk[c] = f
                          THEN [f EXCEPT !.on = (@ \ {old[h]}) \cup {e}] ELSE disk[c]]
    BY <1>8 DEF ReplaceDevice
  <2>3. f \in Filesystem /\ e \in Device
    BY <1>1, <2>1, <2>2 DEF TypeOK
  <2> DEFINE g == [f EXCEPT !.on = (@ \ {old[h]}) \cup {e}]
  <2>4. g \in Filesystem /\ g.uuid = f.uuid
    BY <2>3 DEF Filesystem
  <2>5. \/ d = old[h] \/ d = e
        \/ disk'[d] = disk[d] \/ (disk[d] = f /\ disk'[d] = g)
    BY <2>2
  <2> QED  BY <2>1, <2>2, <2>3, <2>4, <2>5 DEF SameFilesystem, Has, Claimed
<1>9. CASE CleanupStale(h) \/ CleanupMountPath(h)
  <2>1. op[h] # None
    BY <1>1, <1>9, OpAssumption
       DEF CleanupStale, CleanupMountPath, InPlace, Creating, Deleting, Op
  <2> QED  BY <1>3, <1>4, <1>9, <2>1 DEF CleanupStale, CleanupMountPath, RemoveAll
<1>10. CASE InitializeLayout(h) \/ DeleteSubvolumes(h)
  <2>1. op[h] # None
    BY <1>1, <1>10, OpAssumption
       DEF InitializeLayout, DeleteSubvolumes, InPlace, Making, Op
  <2> QED  BY <1>3, <1>4, <1>10, <2>1 DEF InitializeLayout, DeleteSubvolumes
<1> QED
  BY <1>3, <1>5, <1>6, <1>7, <1>8, <1>9, <1>10
     DEF Step, Fail, Lookup, FindStale, EnsureAvailable, CheckDevice, CheckOr, FreeDevice,
         Prepared, WriteUnit, Enable, Start, AddStorage, AddPool, Refresh, Dismount,
         DisableUnit, RemoveUnit, DropPool, DropStorage, FindUnmounted, UpdateDevice

\* A registered device loses its filesystem only to a format, an erasing deletion or a
\* replacement of its own pool, unless it was registered while another request had passed
\* the check of devices.go:117 with it: whatever requests run at the same time, and
\* however long after the check they write.
THEOREM RegisteredDevicesAreKept == Spec => RegisteredKept
<1>1. ASSUME RInv, [Next]_vars, NEW p \in pool, NEW d \in devs[p] \ overtaken
      PROVE  \/ SameFilesystem(disk[d], disk'[d])
             \/ \E h \in Handler : id[h] = p /\ op[h] \in {"format", "erase", "replace"}
  <2>1. d \in Device /\ Owned(p, d)
    BY <1>1 DEF RInv, IInv, TypeOK
  <2>2. CASE \E h \in Handler : Step(h) \/ Fail(h)
    <3>1. PICK h \in Handler : Step(h) \/ Fail(h)
      BY <2>2
    <3> QED  BY <1>1, <2>1, <3>1, StepDisk DEF Owned
  <2>3. CASE UNCHANGED disk
    BY <2>3 DEF SameFilesystem
  <2>4. ASSUME NEW h \in Handler, Request(h)
        PROVE  UNCHANGED disk
    BY <2>4 DEF Request, HandleCreatePool, HandleFormatPool, HandleDeletePool,
                HandleReplaceDevice, Ask
  <2> QED  BY <1>1, <2>2, <2>3, <2>4 DEF Next, Crash, Reboot, vars
<1>2. RInv /\ [Next]_vars =>
        \A p \in pool : \A d \in devs[p] \ overtaken :
          \/ SameFilesystem(disk[d], disk'[d])
          \/ \E h \in Handler : id[h] = p /\ op[h] \in {"format", "erase", "replace"}
  BY <1>1
<1> QED  BY DevicesHaveOwners, <1>2, PTL DEF Spec, RegisteredKept

-----------------------------------------------------------------------------
(* What a step of a request does to the rest.  It changes what belongs to  *)
(* the request (Frame), whomever it has met, so that whatever the requests *)
(* rely on that have met nobody (Held), and the pools that stand           *)
(* (Standing), survive it; it remains to see for each action that it keeps *)
(* to the frame and that its own request, if it has met nobody, may go on. *)

\* The request keeps its name and its row until it ends, unless the row is new, gets a
\* device only if no pool has it, and makes only filesystems that no unit names.
RequestFrame(k) ==
    /\ at'[k] \in {at[k], None} /\ want'[k] \subseteq want[k]
    /\ At(k, "idle")' => at'[k] = None
    /\ at'[k] = None => want'[k] = {}
    /\ \/ id'[k] = None \/ (id'[k] = id[k] /\ at'[k] = at[k])
       \/ storage'[id'[k]] = at'[k]
    /\ Claimed(k)' \subseteq Claimed(k) \cup (Device \ Registered)
    /\ At(k, "unit")' => \A d \in want[k], n \in Name :
                            disk'[d] \in Filesystem => unit[n] # disk'[d].uuid

\* It writes on devices that it has claimed, or that hold the filesystem mounted at its
\* path; and what they then hold is what they held, a new filesystem, or the one mounted
\* at the path.
DiskFrame(k) ==
    \A d \in Device : \/ disk'[d] = disk[d]
                      \/ d \in Claimed(k)
                      \/ at[k] \in Name /\ mount[at[k]] # None /\ disk[d] = mount[at[k]]
OneEach == \A f, g \in Spanned \cap Filesystem : f.uuid = g.uuid => f = g
UuidFrame(k) ==
    /\ \A d \in Device : disk'[d] \in Filesystem =>
          /\ d \in disk'[d].on
          /\ \/ disk[d] \in Filesystem /\ disk'[d].uuid = disk[d].uuid
             \/ \A n \in Name : unit[n] # disk'[d].uuid
             \/ /\ d \in want[k] /\ at[k] \in Name /\ mount[at[k]] # None
                /\ disk'[d].uuid = mount[at[k]].uuid
    /\ OneEach'

\* It writes the unit of its own path, and mounts there what the unit names.
PathFrame(k) ==
    \A n \in Name :
        /\ n # at[k] => unit'[n] = unit[n] /\ enabled'[n] = enabled[n]
        /\ \/ unit'[n] \in {unit[n], None}
           \/ /\ n = at[k] /\ At(k, "unit") /\ UNCHANGED disk
              /\ \E d \in want[k] : disk[d] \in Filesystem /\ unit'[n] = disk[d].uuid
        /\ \/ mount'[n] = None
           \/ mount[n] # None /\ mount'[n].uuid = mount[n].uuid
           \/ n = at[k] /\ mount'[n].uuid = unit[n]

\* It changes the rows of the pool that it is about, and adds a row for a free path.
TableFrame(k) ==
    \A p \in Pool :
        /\ p # id[k] =>
              /\ devs'[p] = devs[p] /\ (p \in pool' <=> p \in pool)
              /\ p \in sound' => p \in sound
              /\ \/ storage'[p] = storage[p]
                 \/ /\ storage[p] = None /\ storage'[p] = at[k] /\ at[k] \in Name \ Taken
                    /\ p = id'[k] /\ \A j \in Handler : id[j] # p
        /\ p = id[k] =>
              /\ storage'[p] \in {storage[p], None}
              /\ p \in sound' => p \in pool'
              /\ \/ devs'[p] \subseteq devs[p]
                 \/ /\ storage[p] = at[k] /\ want'[k] = {}
                    /\ devs'[p] \subseteq devs[p] \cup Claimed(k)

Frame(k) == /\ LocalFrame(k) /\ RequestFrame(k) /\ DiskFrame(k) /\ UuidFrame(k)
            /\ PathFrame(k) /\ TableFrame(k) /\ met' = met

\* A request that has met nobody shares its name and its devices with no other.
LEMMA Alone ==
    ASSUME WInv, NEW j \in Handler, at[j] \notin met, NEW k \in Handler \ {j}
    PROVE  /\ at[j] # None => at[j] # at[k]
           /\ want[j] \cap want[k] = {}
BY DEF WInv, Separate

\* The row of another pool stays as it is, where the path is not the request's.
LEMMA OtherPool ==
    ASSUME WInv, NEW k \in Handler, Frame(k), NEW p \in Pool,
           storage[p] \in Name \ {at[k]}
    PROVE  /\ p # id[k] /\ storage'[p] = storage[p] /\ devs'[p] = devs[p]
           /\ p \in pool' <=> p \in pool
           /\ p \in sound' => p \in sound
<1>1. p # id[k]
  BY NoneAssumption DEF WInv, Orderly
<1> QED  BY <1>1, NoneAssumption DEF Frame, TableFrame

\* What a path has on devices that the request has not claimed survives its steps, if
\* nobody has met there.
LEMMA SpansKept ==
    ASSUME WInv, NEW k \in Handler, Frame(k), NEW n \in Name \ met, n # at[k],
           NEW D \in SUBSET Device, D \cap Claimed(k) = {},
           NEW f \in Filesystem, Spans(f, n, D)
    PROVE  Spans(f, n, D)' /\ enabled'[n] = enabled[n]
<1>1. unit'[n] = unit[n] /\ enabled'[n] = enabled[n]
  BY DEF Frame, PathFrame
<1>2. f.on = D /\ unit[n] = f.uuid /\ Mountable(f) /\ f.uuid # None
  BY NoneAssumption DEF Spans, Filesystem
<1>3. ASSUME NEW d \in D
      PROVE  disk'[d] = f
  <2>1. disk[d] = f
    BY <1>2 DEF Mountable
  <2>2. ASSUME at[k] \in Name, mount[at[k]] # None
        PROVE  f # mount[at[k]]
    BY <1>2, <2>2 DEF WInv, Identified
  <2> QED  BY <2>1, <2>2 DEF Frame, DiskFrame
<1> QED  BY <1>1, <1>2, <1>3 DEF Spans, Mountable

\* What other requests may rely on in the tables stays as it is.
LEMMA SettledKept ==
    ASSUME WInv, NEW k \in Handler, Frame(k), NEW j \in Handler \ {k}, at[j] \notin met
    PROVE  Settled(j)'
<1> USE DEF Dropped, Erasing, At
<1>1. /\ pc'[j] = pc[j] /\ op'[j] = op[j] /\ at'[j] = at[j] /\ id'[j] = id[j]
      /\ want'[j] = want[j] /\ todo'[j] = todo[j] /\ old'[j] = old[j]
  BY DEF Frame, LocalFrame
<1>2. Settled(j) /\ (at[j] # None => at[j] # at[k])
  BY Alone DEF WInv, Held, Own
<1>3. op[j] # None => at[j] \in Name
  BY DEF WInv, RInv, IInv, InPlace
<1>4. ASSUME id[j] \in Pool, storage[id[j]] = at[j], at[j] \in Name
      PROVE  /\ storage'[id[j]] = at[j] /\ devs'[id[j]] = devs[id[j]]
             /\ id[j] \in pool' <=> id[j] \in pool
  BY <1>2, <1>4, NoneAssumption, OtherPool
<1>5. ASSUME id[j] \in Pool, storage[id[j]] = None
      PROVE  storage'[id[j]] = None
  BY <1>5 DEF Frame, TableFrame
<1>6. ASSUME at[j] \in Name, at[j] \notin Taken
      PROVE  at[j] \notin Taken'
  BY <1>2, <1>6, NoneAssumption DEF Frame, TableFrame, Taken
<1>7. /\ pc[j] \in Dissolving \/ pc[j] \in {"addPool", "dropStorage"} \/ Dropped(j)
           => op[j] # None /\ id[j] \in Pool
      /\ op[j] \in {"format", "replace"} => op[j] # None /\ id[j] \in Pool
      /\ op[j] = "create" => op[j] # None
  BY OpAssumption DEF WInv, RInv, IInv, InPlace, Dissolving, Deleting, Creating, Op
<1> QED  BY <1>1, <1>2, <1>3, <1>4, <1>5, <1>6, <1>7 DEF Settled

\* Nobody registers the devices that they have dealt with, nor writes on them.
LEMMA DealtKept ==
    ASSUME WInv, NEW k \in Handler, Frame(k), NEW j \in Handler \ {k}, at[j] \notin met,
           IInv'
    PROVE  Dealt(j)'
<1> USE DEF Dropped, Erasing, At
<1>1. /\ pc'[j] = pc[j] /\ op'[j] = op[j] /\ want'[j] = want[j] /\ todo'[j] = todo[j]
      /\ dev'[j] = dev[j]
  BY DEF Frame, LocalFrame
<1>2. /\ Dealt(j) /\ want[j] \cap want[k] = {} /\ want[j] \subseteq Device
      /\ Claimed(k) \subseteq want[k]
  BY Alone DEF WInv, Held, Own, RInv, IInv, TypeOK, Claimed
<1>3. ASSUME NEW d \in want[j], d \notin Registered
      PROVE  d \notin Registered'
  <2> SUFFICES ASSUME NEW p \in pool', d \in devs'[p]
               PROVE  FALSE
    BY DEF Registered
  <2>1. p \in Pool /\ d \notin devs[p]
    BY <1>3 DEF IInv, WInv, RInv, TypeOK, Registered
  <2> QED  BY <1>2, <2>1 DEF Frame, TableFrame
<1>4. ASSUME Erasing(j), NEW d \in want[j] \ todo[j]
      PROVE  disk'[d] = None
  <2>1. disk[d] = None /\ d \notin Claimed(k) /\ d \in Device
    BY <1>2, <1>4 DEF Dealt
  <2> QED  BY <2>1 DEF Frame, DiskFrame
<1> QED  BY <1>1, <1>2, <1>3, <1>4 DEF Dealt

\* What they have taken down stays down.
LEMMA DownKept ==
    ASSUME WInv, NEW k \in Handler, Frame(k), NEW j \in Handler \ {k}, at[j] \notin met
    PROVE  Down(j)'
<1> USE DEF Dropped, Erasing, At
<1>1. pc'[j] = pc[j] /\ op'[j] = op[j] /\ at'[j] = at[j] /\ id'[j] = id[j]
  BY DEF Frame, LocalFrame
<1>2. Down(j) /\ Settled(j) /\ (at[j] # None => at[j] # at[k])
  BY Alone DEF WInv, Held, Own
<1>3. op[j] # None => at[j] \in Name \ {at[k]}
  BY <1>2, NoneAssumption DEF WInv, RInv, IInv, InPlace
<1>4. ASSUME op[j] # None
      PROVE  /\ unit'[at[j]] = unit[at[j]] /\ enabled'[at[j]] = enabled[at[j]]
             /\ mount[at[j]] = None => mount'[at[j]] = None
  BY <1>3, <1>4 DEF Frame, PathFrame
<1>5. \/ pc[j] \in {"disable", "removeUnit", "dropPool"}
      \/ op[j] = "erase" /\ At(j, "dismount")
      \/ op[j] = "format" /\ ~ At(j, "dismount")
      => id[j] \notin sound'
  <2> SUFFICES ASSUME \/ pc[j] \in {"disable", "removeUnit", "dropPool", "dismount"}
                      \/ op[j] = "format",
                      id[j] \notin sound
               PROVE  id[j] \notin sound'
    BY <1>2 DEF Down
  <2>1. storage[id[j]] = at[j] /\ at[j] \in Name \ {at[k]} /\ id[j] \in Pool
    BY <1>2, <1>3, OpAssumption
       DEF Settled, Dissolving, WInv, RInv, IInv, TypeOK, InPlace, Op
  <2> QED  BY <2>1, OtherPool
<1>6. pc[j] \in {"sweep", "available", "mkfs", "unit", "enable", "start", "removeUnit",
                 "purge", "check", "free", "wipe"} \cup Deleting => op[j] # None
  BY OpAssumption
     DEF WInv, RInv, IInv, InPlace, Deleting, Creating, Preparing, Making, Op
<1>7. \/ pc[j] \in {"sweep", "available", "mkfs", "unit", "enable", "start",
                     "removeUnit", "purge"}
      \/ pc[j] \in {"check", "free", "wipe"} /\ op[j] # "replace"
      => mount'[at[j]] = None
  BY <1>2, <1>4, <1>6 DEF Down
<1>8. (At(j, "removeUnit") => ~ enabled'[at[j]])
      /\ (pc[j] \in Deleting \/ Erasing(j) => unit'[at[j]] = None)
  BY <1>2, <1>4, <1>6 DEF Down
<1> QED  BY <1>1, <1>5, <1>7, <1>8 DEF Down

\* A request that has begun to build on its devices.
Building(j) == pc[j] \in Making \cup {"addStorage", "addPool", "refresh", "record"}

\* What a request has made on its devices, for no unit as yet, stays there.
LEMMA MarkedKept ==
    ASSUME WInv, NEW k \in Handler, Frame(k), NEW j \in Handler \ {k}, at[j] \notin met,
           Marked(want[j])
    PROVE  Marked(want[j])'
<1>1. want'[j] = want[j] /\ want[j] \subseteq Device /\ want[j] \cap want[k] = {}
  BY Alone DEF Frame, LocalFrame, WInv, RInv, IInv, TypeOK
<1> SUFFICES ASSUME NEW d \in want[j]
             PROVE  /\ disk'[d] = disk[d]
                    /\ \A n \in Name : /\ unit'[n] # disk[d].uuid
                                       /\ mount'[n] # None => mount'[n].uuid # disk[d].uuid
  BY <1>1 DEF Marked
<1>2. /\ disk[d] \in Filesystem /\ disk[d].on = want[j]
      /\ \A n \in Name : /\ unit[n] # disk[d].uuid
                         /\ mount[n] # None => mount[n].uuid # disk[d].uuid
  BY DEF Marked
<1>5. disk[d].uuid # None
  BY <1>2, NoneAssumption DEF Filesystem
<1>3. disk'[d] = disk[d]
  BY <1>1, <1>2 DEF Frame, DiskFrame, Claimed
<1>4. ASSUME NEW e \in want[k], disk[e] \in Filesystem
      PROVE  disk[e].uuid # disk[d].uuid
  <2>1. e \in Device /\ d \in Device /\ e \in disk[e].on
    BY <1>1, <1>4 DEF WInv, Orderly, RInv, IInv, TypeOK
  <2>2. disk[e] # disk[d]
    BY <1>1, <1>2, <2>1
  <2> QED  BY <1>2, <1>4, <2>1, <2>2 DEF WInv, Orderly, Spanned
<1> QED  BY <1>2, <1>3, <1>4, <1>5 DEF Frame, PathFrame

\* What they have built stays.
LEMMA BuiltKept ==
    ASSUME WInv, NEW k \in Handler, Frame(k), NEW j \in Handler \ {k}, at[j] \notin met
    PROVE  Built(j)'
<1> USE DEF At
<1>1. /\ pc'[j] = pc[j] /\ op'[j] = op[j] /\ at'[j] = at[j] /\ id'[j] = id[j]
      /\ want'[j] = want[j] /\ old'[j] = old[j]
  BY DEF Frame, LocalFrame
<1>2. Built(j) /\ Settled(j)
  BY DEF WInv, Held, Own
<1>3. want[j] \subseteq Device /\ want[j] \cap Claimed(k) = {}
  BY Alone DEF WInv, RInv, IInv, TypeOK, Claimed
<1>4. Building(j) => at[j] \in Name \ met /\ at[j] # at[k]
  BY Alone, OpAssumption, NoneAssumption
     DEF Building, WInv, RInv, IInv, InPlace, Making, Creating, Op
<1>5. At(j, "unit") => Marked(want[j])'
  BY <1>2, MarkedKept DEF Built
<1>6. ASSUME pc[j] \in {"enable", "start", "layout", "addStorage", "addPool", "refresh"},
             NEW f \in Filesystem, Spans(f, at[j], want[j])
      PROVE  Spans(f, at[j], want[j])' /\ enabled'[at[j]] = enabled[at[j]]
  BY <1>1, <1>3, <1>4, <1>6, SpansKept DEF Building, Making
<1>7. pc[j] \in {"enable", "start", "layout"} => Carries(at[j], want[j])'
  BY <1>1, <1>2, <1>6 DEF Built, Carries
<1>8. pc[j] \in {"start", "layout"} => enabled'[at[j]]
  BY <1>2, <1>6 DEF Built, Carries
<1>9. pc[j] \in {"addStorage", "addPool", "refresh"} => Stocked(at[j], want[j])'
  BY <1>1, <1>2, <1>6 DEF Built, Stocked
<1>10. ASSUME At(j, "record"), id[j] \in sound'
       PROVE  Stocked(at[j], (devs[id[j]] \ {old[j]}) \cup want[j])'
  <2> DEFINE D == (devs[id[j]] \ {old[j]}) \cup want[j]
  <2>1. /\ id[j] \in pool /\ id[j] \in Pool /\ storage[id[j]] = at[j]
        /\ at[j] \in Name \ met /\ at[j] # at[k]
    BY <1>2, <1>4, <1>10 DEF WInv, RInv, IInv, InPlace, TypeOK, Settled, Building
  <2>2. id[j] \in sound /\ devs'[id[j]] = devs[id[j]]
    BY <1>10, <2>1, OtherPool
  <2>3. D \cap Claimed(k) = {}
    BY <1>3, <2>1 DEF WInv, Separate
  <2>4. D \in SUBSET Device
    BY <1>3, <2>1 DEF WInv, RInv, IInv, TypeOK
  <2>5. Stocked(at[j], D)
    BY <1>2, <1>10, <2>2 DEF Built
  <2>6. D' = D
    BY <1>1, <2>2
  <2> HIDE DEF D
  <2>7. PICK f \in Filesystem : Spans(f, at[j], D) /\ f.data /\ enabled[at[j]]
    BY <2>5 DEF Stocked
  <2>8. Spans(f, at[j], D)' /\ enabled'[at[j]] = enabled[at[j]]
    BY <1>1, <2>1, <2>3, <2>4, <2>6, <2>7, SpansKept
  <2>9. Stocked(at[j], D)'
    BY <1>1, <2>7, <2>8 DEF Stocked
  <2> QED  BY <2>9 DEF D
<1> QED  BY <1>1, <1>5, <1>7, <1>8, <1>9, <1>10 DEF Built

\* A pool that stands, of another name than the request's, goes on standing.
LEMMA StandsKept ==
    ASSUME WInv, NEW k \in Handler, Frame(k), NEW p \in sound, storage[p] \notin met,
           storage[p] # at[k]
    PROVE  Stands(p)'
<1> USE DEF At
<1>1. p \in pool /\ p \in Pool /\ storage[p] \in Name /\ Stands(p)
  BY DEF WInv, Orderly, Standing, RInv, IInv, TypeOK
<1>2. p # id[k] /\ p \in pool' /\ storage'[p] = storage[p] /\ devs'[p] = devs[p]
  BY <1>1, OtherPool
<1>3. CASE \E h \in Handler : id[h] = p /\ pc[h] = "record"
  BY <1>2, <1>3 DEF Frame, LocalFrame, Stands
<1>4. CASE Stocked(storage[p], devs[p])
  <2>1. devs[p] \cap Claimed(k) = {}
    BY <1>1 DEF WInv, Separate
  <2>2. PICK f \in Filesystem :
          Spans(f, storage[p], devs[p]) /\ f.data /\ enabled[storage[p]]
    BY <1>4 DEF Stocked
  <2>3. devs[p] \in SUBSET Device
    BY <1>1 DEF WInv, RInv, IInv, TypeOK
  <2>4. Spans(f, storage[p], devs[p])' /\ enabled'[storage[p]] = enabled[storage[p]]
    BY <1>1, <1>2, <2>1, <2>2, <2>3, SpansKept
  <2> QED  BY <1>2, <2>2, <2>4 DEF Stands, Stocked
<1> QED  BY <1>1, <1>3, <1>4 DEF Stands

\* Rows, names and identities stay in order.
LEMMA OrderlyKept ==
    ASSUME WInv, IInv', NEW k \in Handler, Frame(k)
    PROVE  Orderly'
<1> USE DEF At
<1>1. met' \subseteq Name /\ sound' \subseteq pool'
  <2>1. ASSUME NEW p \in sound'
        PROVE  p \in pool'
    BY <2>1 DEF WInv, Orderly, Frame, TableFrame, IInv, TypeOK
  <2> QED  BY <2>1 DEF WInv, Orderly, Frame
<1>2. ASSUME NEW h \in Handler
      PROVE  /\ pc'[h] = "idle" => at'[h] = None
             /\ at'[h] = None => want'[h] = {}
  BY DEF WInv, Orderly, Frame, LocalFrame, RequestFrame
<1>3. ASSUME NEW h \in Handler, id'[h] \in Pool
      PROVE  storage'[id'[h]] \in {None, at'[h]}
  <2>1. CASE h # k
    <3>1. /\ id'[h] = id[h] /\ at'[h] = at[h] /\ id[h] \in Pool
          /\ storage[id[h]] \in {None, at[h]}
      BY <1>3, <2>1 DEF WInv, Orderly, Frame, LocalFrame
    <3>2. storage'[id[h]] \in {storage[id[h]], None}
      BY <3>1 DEF Frame, TableFrame
    <3> QED  BY <3>1, <3>2
  <2>2. CASE h = k
    <3>1. CASE storage'[id'[h]] = at'[h]
      BY <3>1
    <3>2. CASE id'[h] = id[h] /\ at'[h] = at[h]
      <4>1. storage'[id[h]] \in {storage[id[h]], None}
        BY <1>3, <2>2, <3>2 DEF Frame, TableFrame
      <4> QED  BY <1>3, <3>2, <4>1 DEF WInv, Orderly
    <3> QED  BY <1>3, <2>2, <3>1, <3>2, NoneAssumption DEF Frame, RequestFrame
  <2> QED  BY <2>1, <2>2
<1>4. ASSUME NEW p \in Pool, NEW q \in Pool, p # q, storage'[p] # None
      PROVE  storage'[p] # storage'[q]
  <2>1. ASSUME NEW r \in Pool
        PROVE  \/ storage'[r] \in {storage[r], None}
               \/ /\ storage[r] = None /\ storage'[r] = at[k] /\ at[k] \notin Taken
                  /\ r = id'[k]
    BY DEF Frame, TableFrame
  <2>2. /\ storage[p] # None => storage[p] # storage[q]
        /\ storage[q] # None => storage[q] # storage[p]
    BY <1>4 DEF WInv, Orderly
  <2>3. at[k] \notin Taken => at[k] # storage[p] /\ at[k] # storage[q]
    BY DEF Taken
  <2> QED  BY <1>4, <2>1, <2>2, <2>3
<1>5. \A d \in Device : disk'[d] \in Filesystem => d \in disk'[d].on
  BY DEF Frame, UuidFrame
<1>6. \A f, g \in Spanned' \cap Filesystem : f.uuid = g.uuid => f = g
  BY DEF Frame, UuidFrame, OneEach
<1> QED  BY <1>1, <1>2, <1>3, <1>4, <1>5, <1>6 DEF Orderly

\* Whoever has a name or a device in common has met, and pools too.
LEMMA SeparateKept ==
    ASSUME WInv, IInv', NEW k \in Handler, Frame(k)
    PROVE  Separate'
<1>1. /\ \A j \in Handler : /\ at'[j] \in {at[j], None} /\ want'[j] \subseteq want[j]
                            /\ at'[j] = None => want'[j] = {}
      /\ \A j \in Handler \ {k} : at'[j] = at[j] /\ Claimed(j)' = Claimed(j)
      /\ \A j \in Handler : Claimed(j) \subseteq want[j]
      /\ met' = met
  BY DEF WInv, Orderly, Frame, LocalFrame, RequestFrame, Claimed
<1>2. ASSUME NEW h \in Handler, NEW j \in Handler, h # j,
             (at'[h] # None /\ at'[h] = at'[j]) \/ want'[h] \cap want'[j] # {}
      PROVE  at'[h] \in met'
  BY <1>1, <1>2 DEF WInv, Separate
<1>3. ASSUME NEW p \in Pool, NEW d \in devs'[p]
      PROVE  \/ d \in devs[p]
             \/ /\ p = id[k] /\ d \in Claimed(k) /\ storage[p] = at[k] /\ want'[k] = {}
                /\ storage'[p] = at[k]
  <2>1. CASE p # id[k]
    BY <1>3, <2>1 DEF Frame, TableFrame
  <2>2. CASE p = id[k]
    <3>1. p \in pool' /\ storage'[p] # None
      BY <1>3 DEF IInv, TypeOK
    <3> QED  BY <1>3, <2>2, <3>1 DEF Frame, TableFrame
  <2> QED  BY <2>1, <2>2
<1>4. ASSUME NEW p \in Pool, NEW d \in devs'[p], d \in devs[p]
      PROVE  p \in pool /\ storage'[p] = storage[p] /\ storage[p] # None
  <2>1. p \in pool' /\ storage'[p] # None /\ p \in pool /\ storage[p] # None
    BY <1>4 DEF IInv, WInv, RInv, TypeOK
  <2> QED  BY <2>1 DEF Frame, TableFrame
<1>5. ASSUME NEW p \in Pool, NEW q \in Pool, p # q, NEW d \in devs'[p] \cap devs'[q]
      PROVE  storage'[p] \in met'
  <2>1. CASE d \in devs[p] /\ d \in devs[q]
    BY <1>1, <1>4, <1>5, <2>1 DEF WInv, Separate
  <2>2. CASE d \in devs[p] /\ d \notin devs[q]
    <3>1. q = id[k] /\ d \in Claimed(k) /\ storage[q] = at[k]
      BY <1>3, <1>5, <2>2
    <3>2. p \in pool /\ storage'[p] = storage[p] /\ storage[p] # storage[q]
      BY <1>4, <1>5, <2>2 DEF WInv, Orderly
    <3> QED  BY <1>1, <2>2, <3>1, <3>2 DEF WInv, Separate
  <2>3. CASE d \in devs[q] /\ d \notin devs[p]
    <3>1. p = id[k] /\ d \in Claimed(k) /\ storage[p] = at[k] /\ storage'[p] = at[k]
      BY <1>3, <1>5, <2>3
    <3>2. q \in pool /\ storage[q] # storage[p]
      BY <1>4, <1>5, <2>3 DEF WInv, Orderly
    <3> QED  BY <1>1, <2>3, <3>1, <3>2 DEF WInv, Separate
  <2>4. CASE d \notin devs[p] /\ d \notin devs[q]
    BY <1>3, <1>5, <2>4
  <2> QED  BY <2>1, <2>2, <2>3, <2>4
<1>6. ASSUME NEW j \in Handler, NEW p \in pool', NEW d \in devs'[p] \cap Claimed(j)',
             storage'[p] # at'[j]
      PROVE  {storage'[p], at'[j]} \subseteq met'
  <2>1. p \in Pool /\ d \in Device
    BY <1>6 DEF IInv, TypeOK
  <2>2. CASE j = k
    <3>1. want'[k] # {}
      BY <1>6, <2>2 DEF Claimed
    <3>2. d \in devs[p]
      BY <1>3, <1>6, <2>1, <3>1
    <3>3. p \in pool /\ storage'[p] = storage[p]
      BY <1>4, <1>6, <2>1, <3>2
    <3>4. d \in Claimed(k) /\ at'[k] = at[k]
      BY <1>1, <1>6, <2>2, <3>1, <3>2, <3>3 DEF Frame, RequestFrame, Registered
    <3> QED  BY <1>1, <1>6, <2>2, <3>2, <3>3, <3>4 DEF WInv, Separate
  <2>3. CASE j # k
    <3>1. d \in Claimed(j) /\ at'[j] = at[j]
      BY <1>1, <1>6, <2>3
    <3>2. CASE d \in devs[p]
      <4>1. p \in pool /\ storage'[p] = storage[p]
        BY <1>4, <1>6, <2>1, <3>2
      <4> QED  BY <1>1, <1>6, <3>1, <3>2, <4>1 DEF WInv, Separate
    <3>3. CASE d \notin devs[p]
      <4>1. d \in Claimed(k) /\ storage'[p] = at[k]
        BY <1>3, <1>6, <2>1, <3>3
      <4>2. want[j] \cap want[k] # {}
        BY <1>1, <3>1, <4>1
      <4> QED  BY <1>1, <2>3, <3>1, <4>1, <4>2 DEF WInv, Separate
    <3> QED  BY <3>2, <3>3
  <2> QED  BY <2>2, <2>3
<1> QED  BY <1>2, <1>5, <1>6 DEF Separate

\* Units go on naming one filesystem each, where nobody has met.
LEMMA IdentifiedKept ==
    ASSUME WInv, IInv', NEW k \in Handler, Frame(k),
           \A n \in Name \ met : n = at[k] => InOrder(n)'
    PROVE  Identified'
<1> USE DEF At
<1>1. /\ met' = met /\ PathFrame(k) /\ UuidFrame(k)
      /\ \A n \in Name : unit[n] # None => unit[n] \in Uuid
      /\ \A d \in Device : disk[d] \in Filesystem => disk[d].uuid # None
      /\ \A d \in Device : disk'[d] \in Filesystem => disk'[d].uuid # None
  BY NoneAssumption DEF Frame, WInv, RInv, IInv, TypeOK, Filesystem
<1>2. ASSUME pc[k] = "unit", at[k] \in Name \ met
      PROVE  \A d \in want[k] : /\ disk[d].on = want[k]
                                /\ \A n \in Name :
                                      /\ unit[n] # disk[d].uuid
                                      /\ mount[n] # None => mount[n].uuid # disk[d].uuid
  BY <1>2 DEF WInv, Held, Own, Built, Marked
<1>3. ASSUME NEW m \in Name \ met, NEW n \in Name \ {m}, unit'[m] # None
      PROVE  unit'[n] # unit'[m] /\ (mount'[n] # None => mount'[n].uuid # unit'[m])
  <2>1. CASE m # at[k]
    <3>1. unit'[m] = unit[m] /\ unit[m] # None
      BY <1>1, <1>3, <2>1 DEF PathFrame
    <3>2. unit[n] # unit[m] /\ (mount[n] # None => mount[n].uuid # unit[m])
      BY <3>1 DEF WInv, Identified
    <3>3. unit'[n] # unit[m]
      <4>1. CASE unit'[n] \in {unit[n], None}
        BY <3>1, <3>2, <4>1
      <4>2. ASSUME n = at[k], pc[k] = "unit", NEW d \in want[k], disk[d] \in Filesystem,
                   unit'[n] = disk[d].uuid
            PROVE  unit'[n] # unit[m]
        BY <2>1, <4>2 DEF WInv, Identified, RInv, IInv, TypeOK
      <4> QED  BY <1>1, <4>1, <4>2 DEF PathFrame
    <3> QED  BY <1>1, <3>1, <3>2, <3>3 DEF PathFrame
  <2>2. CASE m = at[k]
    <3>1. unit'[n] = unit[n] /\ (mount'[n] # None =>
                                   mount[n] # None /\ mount'[n].uuid = mount[n].uuid)
      BY <1>1, <2>2 DEF PathFrame
    <3>2. CASE unit'[m] = unit[m]
      BY <1>3, <3>1, <3>2 DEF WInv, Identified
    <3>3. ASSUME pc[k] = "unit", NEW d \in want[k], unit'[m] = disk[d].uuid
          PROVE  unit[n] # unit'[m] /\ (mount[n] # None => mount[n].uuid # unit'[m])
      BY <1>2, <2>2, <3>3
    <3> QED  BY <1>1, <1>3, <3>1, <3>2, <3>3 DEF PathFrame
  <2> QED  BY <2>1, <2>2
<1>4. ASSUME NEW n \in Name \ met
      PROVE  InOrder(n)'
  <2>1. CASE n = at[k]
    BY <2>1
  <2>2. CASE n # at[k]
    BY <1>1, <2>2 DEF PathFrame, InOrder, WInv, Identified
  <2> QED  BY <2>1, <2>2
<1>5. ASSUME NEW j \in Handler, NEW d \in Device, pc'[j] = "unit", d \in want'[j],
             disk'[d] \in Filesystem, NEW m \in Name \ met, m # at'[j]
      PROVE  unit'[m] # disk'[d].uuid
  <2>1. CASE j = k
    <3>1. \A n \in Name : unit[n] # disk'[d].uuid
      BY <1>5, <2>1 DEF Frame, RequestFrame
    <3>2. m # at[k]
      BY <1>5, <2>1, NoneAssumption DEF Frame, RequestFrame
    <3> QED  BY <1>1, <3>1, <3>2 DEF PathFrame
  <2>2. CASE j # k
    <3>1. pc[j] = "unit" /\ d \in want[j] /\ m # at[j]
      BY <1>5, <2>2 DEF Frame, LocalFrame
    <3>2. disk[d] \in Filesystem => unit[m] # disk[d].uuid
      BY <3>1 DEF WInv, Identified
    <3>3. m = at[k] => d \notin want[k]
      BY <2>2, <3>1, Alone
    <3>4. unit[m] # disk'[d].uuid
      <4>1. CASE disk[d] \in Filesystem /\ disk'[d].uuid = disk[d].uuid
        BY <3>2, <4>1
      <4>2. CASE \A n \in Name : unit[n] # disk'[d].uuid
        BY <4>2
      <4>3. CASE /\ d \in want[k] /\ at[k] \in Name /\ mount[at[k]] # None
                 /\ disk'[d].uuid = mount[at[k]].uuid
        BY <1>1, <1>5, <3>3, <4>3 DEF WInv, Identified
      <4> QED  BY <1>1, <1>5, <4>1, <4>2, <4>3 DEF UuidFrame
    <3>5. ASSUME m = at[k], pc[k] = "unit", UNCHANGED disk, NEW e \in want[k],
                 disk[e] \in Filesystem
          PROVE  disk[e].uuid # disk'[d].uuid
      <4>1. disk[e].on = want[k] /\ e \in Device
        BY <1>2, <3>5 DEF WInv, RInv, IInv, TypeOK
      <4>2. disk[d] \in Filesystem /\ d \in disk[d].on
        BY <1>5, <3>5 DEF WInv, Orderly
      <4>3. disk[d] # disk[e]
        BY <3>3, <3>5, <4>1, <4>2
      <4> QED  BY <3>5, <4>1, <4>2, <4>3 DEF WInv, Orderly, Spanned
    <3> QED  BY <1>1, <1>5, <3>4, <3>5 DEF PathFrame
  <2> QED  BY <2>1, <2>2
<1> QED  BY <1>1, <1>3, <1>4, <1>5 DEF Identified

\* A handler without a name relies on nothing.
LEMMA IdleOwn ==
    ASSUME IInv', NEW j \in Handler, at'[j] = None
    PROVE  Own(j)'
<1>1. op'[j] = None
  BY NoneAssumption DEF IInv, InPlace
<1>2. pc'[j] = "idle"
  BY <1>1, OpAssumption
     DEF IInv, TypeOK, InPlace, Point, Op, Creating, Preparing, Making, Deleting
<1> QED
  BY <1>1, <1>2, OpAssumption
     DEF Own, Settled, Dealt, Down, Built, Dissolving, Dropped, Erasing, At, Deleting, Op

\* A step keeps the invariant that keeps to the frame and, if its request has met nobody,
\* leaves the request, its path and its pool in order.
LEMMA FrameWInv ==
    ASSUME WInv, RInv', NEW k \in Handler, Frame(k),
           at[k] \notin met => /\ at'[k] # None => Own(k)'
                               /\ \A n \in Name : n = at[k] => InOrder(n)'
                               /\ \A p \in sound' : \/ p \in sound /\ storage[p] # at[k]
                                                    \/ Stands(p)'
    PROVE  WInv'
<1>1. IInv' /\ met' = met /\ at'[k] \in {at[k], None}
  BY DEF RInv, Frame, RequestFrame
<1>2. Orderly' /\ Separate'
  BY <1>1, OrderlyKept, SeparateKept
<1>3. Identified'
  BY <1>1, IdentifiedKept
<1>4. ASSUME NEW j \in Handler, at'[j] \notin met
      PROVE  Own(j)'
  <2>1. CASE at'[j] = None
    BY <1>1, <2>1, IdleOwn
  <2>2. CASE j = k /\ at'[j] # None
    BY <1>1, <1>4, <2>2
  <2>3. CASE j # k /\ at'[j] # None
    <3>1. at[j] \notin met
      BY <1>4, <2>3 DEF Frame, LocalFrame
    <3> QED  BY <1>1, <2>3, <3>1, SettledKept, DealtKept, DownKept, BuiltKept DEF Own
  <2> QED  BY <2>1, <2>2, <2>3
<1>5. ASSUME NEW p \in sound', storage'[p] \notin met
      PROVE  Stands(p)'
  <2>1. p \in pool' /\ p \in Pool /\ storage'[p] # None
    BY <1>1, <1>2, <1>5 DEF Orderly, IInv, TypeOK
  <2>2. CASE p # id[k]
    <3>1. p \in sound /\ p \in pool /\ storage[p] # None
      BY <2>1, <2>2 DEF Frame, TableFrame, WInv, RInv, IInv, TypeOK
    <3>2. storage'[p] = storage[p]
      BY <2>1, <2>2, <3>1 DEF Frame, TableFrame
    <3> QED  BY <1>5, <3>1, <3>2, StandsKept
  <2>3. CASE p = id[k]
    <3>1. storage'[p] = at[k]
      BY <2>1, <2>3 DEF Frame, TableFrame, WInv, Orderly
    <3>2. storage[p] = at[k]
      BY <2>1, <2>3, <3>1 DEF Frame, TableFrame
    <3> QED  BY <1>5, <3>1, <3>2
  <2> QED  BY <2>2, <2>3
<1> QED  BY <1>1, <1>2, <1>3, <1>4, <1>5 DEF WInv, Held, Standing

-----------------------------------------------------------------------------
(* Facts that the actions share.                                           *)

\* A step that changes at most variables of its own stays in the frame.
LEMMA QuietFrame ==
    ASSUME WInv, NEW k \in Handler, LocalFrame(k), RequestFrame(k), met' = met,
           UNCHANGED <<media, boot, tables>>, sound' \subseteq sound \cup (pool \cap {id[k]})
    PROVE  Frame(k) /\ \A n \in Name \ met : InOrder(n)'
<1>1. DiskFrame(k) /\ PathFrame(k)
  BY DEF DiskFrame, PathFrame, media, boot
<1>2. UuidFrame(k)
  BY DEF UuidFrame, OneEach, Spanned, WInv, Orderly, media, boot
<1>3. TableFrame(k)
  BY DEF TableFrame, tables, WInv, Orderly
<1>4. \A n \in Name \ met : InOrder(n)'
  BY DEF WInv, Identified, InOrder, media, boot
<1> QED  BY <1>1, <1>2, <1>3, <1>4 DEF Frame

\* The end of a request keeps to the frame.
LEMMA ReturnRequest ==
    ASSUME TypeOK, NEW k \in Handler, Return(k)
    PROVE  LocalFrame(k) /\ RequestFrame(k) /\ at'[k] = None
BY ReturnLocal, OpAssumption DEF RequestFrame, Claimed, At, Op

\* So does its way to another point, but when it begins with a device.
LEMMA ProceedRequest ==
    ASSUME WInv, NEW k \in Handler, NEW point, Proceed(k, point),
           point \notin {"idle", "free", "wipe", "unit"}
             \/ (point = "wipe" /\ (op[k] \notin {"create", "replace"} \/ pc[k] = "free"))
    PROVE  LocalFrame(k) /\ RequestFrame(k)
<1>1. TypeOK /\ (at[k] = None => want[k] = {})
  BY DEF WInv, Orderly, RInv, IInv
<1> QED  BY <1>1, ProceedLocal DEF RequestFrame, Claimed, At

\* What stands goes on standing in a step that keeps the devices of the pool.
LEMMA StandsAgain ==
    ASSUME WInv, NEW k \in Handler, LocalFrame(k), ~ At(k, "record"),
           UNCHANGED <<boot, tables>>, NEW p \in sound, storage[p] \notin met,
           \A d \in devs[p] : disk'[d] = disk[d]
    PROVE  Stands(p)'
<1>1. Stands(p)
  BY DEF WInv, Standing
<1>2. CASE Stocked(storage[p], devs[p])
  BY <1>1, <1>2 DEF Stands, Stocked, Spans, Mountable, boot, tables
<1>3. ASSUME NEW h \in Handler, id[h] = p, At(h, "record")
      PROVE  id'[h] = p /\ At(h, "record")'
  BY <1>3 DEF At, LocalFrame
<1> QED  BY <1>1, <1>2, <1>3 DEF Stands, tables

\* A step that changes at most variables of its own leaves standing what stands.
LEMMA QuietStands ==
    ASSUME WInv, NEW k \in Handler, LocalFrame(k), UNCHANGED <<disk, boot, tables>>,
           sound' \subseteq sound, At(k, "record") => id[k] \notin sound', at[k] \notin met
    PROVE  \A p \in sound' : storage[p] = at[k] => Stands(p)'
<1> SUFFICES ASSUME NEW p \in sound', storage[p] = at[k]
             PROVE  Stands(p)'
  OBVIOUS
<1>1. Stands(p)
  BY DEF WInv, Standing
<1>2. CASE Stocked(storage[p], devs[p])
  BY <1>1, <1>2 DEF Stands, Stocked, Spans, Mountable, boot, tables
<1>3. ASSUME NEW h \in Handler, id[h] = p, At(h, "record")
      PROVE  id'[h] = p /\ At(h, "record")'
  BY <1>3 DEF At, LocalFrame
<1> QED  BY <1>1, <1>2, <1>3 DEF Stands, tables

\* No sound pool has the path of a request that makes a pool or takes one apart.
LEMMA NoneStands ==
    ASSUME WInv, NEW h \in Handler, at[h] \notin met,
           \/ op[h] = "create" /\ ~ At(h, "lookup") /\ ~ At(h, "addPool")
           \/ At(h, "addPool") \/ At(h, "dropStorage") \/ Dropped(h)
           \/ pc[h] \in {"disable", "removeUnit", "dropPool"}
           \/ op[h] = "erase" /\ At(h, "dismount")
           \/ op[h] = "format" /\ ~ At(h, "dismount")
    PROVE  \A p \in sound : storage[p] # at[h]
<1> USE DEF At, Dropped, Erasing
<1>1. Settled(h) /\ Down(h)
  BY DEF WInv, Held, Own
<1>2. sound \subseteq pool /\ pool \subseteq Pool /\ \A p \in pool : storage[p] # None
  BY DEF WInv, Orderly, RInv, IInv, TypeOK
<1>3. ASSUME at[h] \notin Taken
      PROVE  \A p \in sound : storage[p] # at[h]
  BY <1>2, <1>3 DEF Taken
<1>4. ASSUME id[h] \notin sound, id[h] \in Pool, storage[id[h]] = at[h]
      PROVE  \A p \in sound : storage[p] # at[h]
  BY <1>2, <1>4 DEF WInv, Orderly
<1>5. CASE (op[h] = "create" /\ ~ At(h, "lookup") /\ ~ At(h, "addPool")) \/ Dropped(h)
  BY <1>1, <1>3, <1>5 DEF Settled
<1>6. CASE At(h, "addPool") \/ At(h, "dropStorage")
  <2>1. id[h] \notin pool /\ storage[id[h]] = at[h] /\ id[h] \in Pool
    BY <1>1, <1>6, OpAssumption DEF Settled, WInv, RInv, IInv, InPlace, Deleting
  <2> QED  BY <1>2, <1>4, <2>1
<1>7. CASE \/ pc[h] \in {"disable", "removeUnit", "dropPool"}
           \/ op[h] = "erase" /\ At(h, "dismount")
           \/ op[h] = "format" /\ ~ At(h, "dismount")
  BY <1>1, <1>2, <1>4, <1>7 DEF Settled, Down, Dissolving
<1> QED  BY <1>5, <1>6, <1>7

\* A request may end at any point that leaves everything as it is.
LEMMA QuietReturnWInv ==
    ASSUME WInv, RInv', met' = met, NEW k \in Handler, Return(k),
           UNCHANGED <<media, boot, tables>>,
           sound' \subseteq sound, At(k, "record") => id[k] \notin sound'
    PROVE  WInv'
<1>1. LocalFrame(k) /\ RequestFrame(k) /\ at'[k] = None
  BY ReturnRequest DEF WInv, RInv, IInv
<1>2. at[k] \notin met => \A p \in sound' : storage[p] = at[k] => Stands(p)'
  BY <1>1, QuietStands DEF media
<1> QED  BY <1>1, <1>2, QuietFrame, FrameWInv

\* It may go on when the next point relies on nothing more.
LEMMA QuietProceedWInv ==
    ASSUME WInv, RInv', met' = met, NEW k \in Handler, LocalFrame(k), RequestFrame(k),
           UNCHANGED <<media, boot, tables, sound>>, ~ At(k, "record"),
           at[k] \notin met => Own(k)'
    PROVE  WInv'
<1>1. at[k] \notin met => \A p \in sound' : storage[p] = at[k] => Stands(p)'
  BY QuietStands DEF media
<1> QED  BY <1>1, QuietFrame, FrameWInv

\* A step that only mounts or unmounts, at its own path what the unit names, keeps to
\* the frame.
LEMMA MountFrame ==
    ASSUME WInv, NEW k \in Handler, LocalFrame(k), RequestFrame(k), met' = met,
           UNCHANGED <<disk, boot, tables>>, sound' \subseteq sound,
           Spanned' \cap Filesystem \subseteq Spanned,
           \A n \in Name : \/ mount'[n] \in {mount[n], None}
                           \/ n = at[k] /\ mount'[n].uuid = unit[n]
    PROVE  Frame(k) /\ \A n \in Name \ met : InOrder(n)'
<1>1. DiskFrame(k) /\ PathFrame(k)
  BY DEF DiskFrame, PathFrame, boot
<1>2. UuidFrame(k)
  BY DEF UuidFrame, OneEach, WInv, Orderly
<1>3. TableFrame(k)
  BY DEF TableFrame, tables, WInv, Orderly
<1>4. \A n \in Name \ met : InOrder(n)'
  BY DEF WInv, Identified, InOrder, boot
<1> QED  BY <1>1, <1>2, <1>3, <1>4 DEF Frame

\* To change the files of the filesystem at a path keeps every identity.
LEMMA RewriteFrame ==
    ASSUME WInv, NEW h \in Handler, LocalFrame(h), RequestFrame(h), met' = met,
           UNCHANGED <<boot, tables>>, sound' \subseteq sound, at[h] \in Name,
           mount[at[h]] # None, NEW b \in BOOLEAN,
           Rewrite(mount[at[h]], [mount[at[h]] EXCEPT !.data = b])
    PROVE  Frame(h) /\ \A n \in Name \ met : InOrder(n)'
<1> PICK f : f = mount[at[h]]
  OBVIOUS
<1>1. f \in Filesystem /\ f \in Spanned /\ f # None
  BY DEF WInv, RInv, IInv, TypeOK, Spanned
<1>2. PICK g \in Filesystem : Rewrite(f, g) /\ g.uuid = f.uuid /\ g.on = f.on
  <2>1. LET x == [f EXCEPT !.data = b] IN
          x \in Filesystem /\ x.uuid = f.uuid /\ x.on = f.on /\ Rewrite(f, x)
    BY <1>1 DEF Filesystem
  <2> QED  BY <2>1
<1>3. /\ \A d \in Device : disk'[d] = IF disk[d] = f THEN g ELSE disk[d]
      /\ \A n \in Name : mount'[n] = IF mount[n] = f THEN g ELSE mount[n]
  BY <1>2 DEF Rewrite
<1>4. OneEach'
  <2>1. ASSUME NEW e \in Spanned' \cap Filesystem
        PROVE  e = g \/ (e \in Spanned /\ e # f)
    BY <1>3 DEF Spanned
  <2> QED  BY <1>1, <1>2, <2>1 DEF WInv, Orderly, OneEach
<1>5. UuidFrame(h)
  BY <1>1, <1>2, <1>3, <1>4 DEF UuidFrame, WInv, Orderly
<1>6. DiskFrame(h)
  BY <1>1, <1>3 DEF DiskFrame
<1>7. PathFrame(h) /\ \A n \in Name \ met : InOrder(n)'
  BY <1>1, <1>2, <1>3 DEF PathFrame, WInv, Identified, InOrder, boot
<1>8. TableFrame(h)
  BY DEF TableFrame, tables, WInv, Orderly
<1> QED  BY <1>5, <1>6, <1>7, <1>8 DEF Frame

-----------------------------------------------------------------------------
(* Every step keeps what pools and requests rely on: one lemma an action.  *)

\* On its way to the devices a creation relies on a path that no storage has and, from
\* some point on, that has nothing mounted.
LEMMA CreatingOwn ==
    ASSUME WInv, NEW h \in Handler, at[h] \notin met, op[h] = "create",
           NEW point \in {"stale", "sweep", "available", "check"}, Proceed(h, point),
           UNCHANGED <<media, boot, tables, sound>>,
           at[h] \notin Taken, point # "stale" => mount[at[h]] = None
    PROVE  Own(h)'
<1>1. /\ pc'[h] = point /\ op'[h] = "create" /\ at'[h] = at[h] /\ want'[h] = want[h]
      /\ todo'[h] = todo[h]
  BY ProceedLocal DEF WInv, RInv, IInv
<1>2. Settled(h)'
  BY <1>1 DEF Settled, Taken, Dissolving, Dropped, Erasing, At
<1>3. Dealt(h)'
  BY <1>1 DEF WInv, Held, Own, Dealt, Registered, Dropped, Erasing, At
<1>4. Down(h)' /\ Built(h)'
  BY <1>1 DEF Down, Built, Deleting, Erasing, At
<1> QED  BY <1>2, <1>3, <1>4 DEF Own

\* generatePoolPathName: after it the path belongs to no storage, and no request that has
\* not met this one can change that.
LEMMA LookupWInv ==
    ASSUME WInv, RInv', met' = met, NEW h \in Handler, Lookup(h)
    PROVE  WInv'
<1> USE DEF Lookup, At
<1>1. op[h] = "create"
  BY DEF WInv, RInv, IInv, InPlace, Creating
<1>2. CASE at[h] \in Taken
  BY <1>2, QuietReturnWInv
<1>3. CASE at[h] \notin Taken
  <2>1. Proceed(h, "stale") /\ UNCHANGED <<media, boot, tables, sound>>
    BY <1>3
  <2>2. LocalFrame(h) /\ RequestFrame(h)
    BY <2>1, ProceedRequest
  <2>3. at[h] \notin met => Own(h)'
    BY <1>1, <1>3, <2>1, CreatingOwn
  <2> QED  BY <2>1, <2>2, <2>3, QuietProceedWInv
<1> QED  BY <1>2, <1>3

\* cleanupStaleMountPath: after its check nothing is mounted at the path.
LEMMA FindStaleWInv ==
    ASSUME WInv, RInv', met' = met, NEW h \in Handler, FindStale(h)
    PROVE  WInv'
<1> USE DEF FindStale, At
<1>1. op[h] = "create" /\ (at[h] \notin met => at[h] \notin Taken)
  BY DEF WInv, RInv, IInv, InPlace, Creating, Held, Own, Settled
<1>2. CASE mount[at[h]] # None
  BY <1>2, QuietReturnWInv
<1>3. CASE mount[at[h]] = None
  <2>1. Proceed(h, "sweep") /\ UNCHANGED <<media, boot, tables, sound>>
    BY <1>3
  <2>2. LocalFrame(h) /\ RequestFrame(h)
    BY <2>1, ProceedRequest
  <2>3. at[h] \notin met => Own(h)'
    BY <1>1, <1>3, <2>1, CreatingOwn
  <2> QED  BY <2>1, <2>2, <2>3, QuietProceedWInv
<1> QED  BY <1>2, <1>3

\* What a removal finds mounted at its path belongs to a request that this one has met.
LEMMA RemoveAllWInv ==
    ASSUME WInv, RInv', met' = met, NEW h \in Handler, pc[h] \in {"sweep", "purge"},
           mount[at[h]] # None, Return(h), UNCHANGED <<boot, tables, sound>>,
           Rewrite(mount[at[h]], [mount[at[h]] EXCEPT !.data = FALSE])
    PROVE  WInv'
<1>1. at[h] \in Name /\ at[h] \in met
  BY OpAssumption
     DEF WInv, RInv, IInv, InPlace, Creating, Deleting, Op, Held, Own, Down
<1>2. LocalFrame(h) /\ RequestFrame(h)
  BY ReturnRequest DEF WInv, RInv, IInv
<1>3. Frame(h)
  BY <1>1, <1>2, RewriteFrame
<1> QED  BY <1>1, <1>3, FrameWInv

\* Its removal finds nothing, so no filesystem of a pool is lost.
LEMMA CleanupStaleWInv ==
    ASSUME WInv, RInv', met' = met, NEW h \in Handler, CleanupStale(h)
    PROVE  WInv'
<1> USE DEF CleanupStale, RemoveAll, At
<1>1. CASE mount[at[h]] # None
  BY <1>1, RemoveAllWInv
<1>2. CASE mount[at[h]] = None
  <2>1. op[h] = "create" /\ (at[h] \notin met => at[h] \notin Taken)
    BY DEF WInv, RInv, IInv, InPlace, Creating, Held, Own, Settled
  <2>2. Proceed(h, "available") /\ UNCHANGED <<media, boot, tables, sound>>
    BY <1>2
  <2>3. LocalFrame(h) /\ RequestFrame(h)
    BY <2>2, ProceedRequest
  <2>4. at[h] \notin met => Own(h)'
    BY <1>2, <2>1, <2>2, CreatingOwn
  <2> QED  BY <2>2, <2>3, <2>4, QuietProceedWInv
<1> QED  BY <1>1, <1>2

\* ensureCreateAvailable asks again.
LEMMA EnsureAvailableWInv ==
    ASSUME WInv, RInv', met' = met, NEW h \in Handler, EnsureAvailable(h)
    PROVE  WInv'
<1> USE DEF EnsureAvailable, At
<1>1. /\ op[h] = "create"
      /\ at[h] \notin met => at[h] \notin Taken /\ mount[at[h]] = None
  BY DEF WInv, RInv, IInv, InPlace, Creating, Held, Own, Settled, Down
<1>2. CASE at[h] \in Taken
  BY <1>2, QuietReturnWInv
<1>3. CASE at[h] \notin Taken
  <2>1. Proceed(h, "check") /\ UNCHANGED <<media, boot, tables, sound>>
    BY <1>3
  <2>2. LocalFrame(h) /\ RequestFrame(h)
    BY <2>1, ProceedRequest
  <2>3. at[h] \notin met => Own(h)'
    BY <1>1, <1>3, <2>1, CreatingOwn
  <2> QED  BY <2>1, <2>2, <2>3, QuietProceedWInv
<1> QED  BY <1>2, <1>3

\* A request that fails leaves nothing that others rely on, but a replacement between
\* the disks and the records leaves a pool that does not stand.
LEMMA FailWInv ==
    ASSUME WInv, RInv', met' = met, NEW h \in Handler, Fail(h)
    PROVE  WInv'
<1>1. sound' \subseteq sound /\ (At(h, "record") => id[h] \notin sound')
  BY DEF Fail
<1> QED  BY <1>1, QuietReturnWInv DEF Fail

\* The check of the path before it is removed: nothing is mounted at it from then on.
LEMMA FindUnmountedWInv ==
    ASSUME WInv, RInv', met' = met, NEW h \in Handler, FindUnmounted(h)
    PROVE  WInv'
<1> USE DEF FindUnmounted, At
<1>1. CASE mount[at[h]] # None
  BY <1>1, QuietReturnWInv
<1>2. CASE mount[at[h]] = None
  <2>1. Proceed(h, "purge") /\ UNCHANGED <<media, boot, tables, sound>>
    BY <1>2
  <2>2. LocalFrame(h) /\ RequestFrame(h)
    BY <2>1, ProceedRequest
  <2>3. /\ pc'[h] = "purge" /\ op'[h] = op[h] /\ op[h] \in {"delete", "erase"}
        /\ at'[h] = at[h] /\ id'[h] = id[h] /\ want'[h] = want[h] /\ todo'[h] = todo[h]
    BY <2>1, ProceedLocal DEF WInv, RInv, IInv, InPlace, Deleting, Op
  <2>4. ASSUME at[h] \notin met
        PROVE  Own(h)'
    <3>1. Settled(h)'
      BY <2>1, <2>3, <2>4
         DEF WInv, Held, Own, Settled, Taken, Dissolving, Dropped, Erasing
    <3>2. Dealt(h)'
      BY <2>1, <2>3, <2>4 DEF WInv, Held, Own, Dealt, Registered, Dropped, Erasing
    <3>3. Down(h)' /\ Built(h)'
      BY <1>2, <2>1, <2>3, <2>4 DEF WInv, Held, Own, Down, Built, Deleting, Erasing
    <3> QED  BY <3>1, <3>2, <3>3 DEF Own
  <2> QED  BY <2>1, <2>2, <2>4, QuietProceedWInv
<1> QED  BY <1>1, <1>2

\* rm -rf of the path finds nothing mounted; an erasure then has all its devices to wipe.
LEMMA CleanupMountPathWInv ==
    ASSUME WInv, RInv', met' = met, NEW h \in Handler, CleanupMountPath(h)
    PROVE  WInv'
<1> USE DEF CleanupMountPath, RemoveAll, At
<1>1. CASE mount[at[h]] # None
  BY <1>1, RemoveAllWInv
<1>2. CASE mount[at[h]] = None /\ op[h] # "erase"
  BY <1>2, QuietReturnWInv
<1>3. CASE mount[at[h]] = None /\ op[h] = "erase"
  <2>1. Proceed(h, "wipe") /\ UNCHANGED <<media, boot, tables, sound>>
    BY <1>3
  <2>2. LocalFrame(h) /\ RequestFrame(h)
    BY <1>3, <2>1, ProceedRequest
  <2>3. /\ pc'[h] = "wipe" /\ op'[h] = "erase" /\ at'[h] = at[h] /\ id'[h] = id[h]
        /\ want'[h] = want[h] /\ todo'[h] = todo[h]
    BY <1>3, <2>1, ProceedLocal DEF WInv, RInv, IInv
  <2>4. ASSUME at[h] \notin met
        PROVE  Own(h)'
    <3>1. Settled(h)'
      BY <1>3, <2>1, <2>3, <2>4
         DEF WInv, Held, Own, Settled, Taken, Dissolving, Dropped, Erasing
    <3>2. Dealt(h)'
      BY <1>3, <2>1, <2>3, <2>4 DEF WInv, Held, Own, Dealt, Registered, Dropped, Erasing
    <3>3. Down(h)' /\ Built(h)'
      BY <1>3, <2>1, <2>3, <2>4 DEF WInv, Held, Own, Down, Built, Deleting, Erasing
    <3> QED  BY <3>1, <3>2, <3>3 DEF Own
  <2> QED  BY <2>1, <2>2, <2>4, QuietProceedWInv
<1> QED  BY <1>1, <1>2, <1>3

\* A request begins: it has met those that are at work on its name or its devices, and
\* nothing else changes.
LEMMA RequestWInv ==
    ASSUME WInv, RInv', NEW h \in Handler, At(h, "idle"), LocalFrame(h), Meet(h),
           UNCHANGED <<media, boot, tables, sound>>, at'[h] \in Name,
           pc'[h] \notin {"idle", "unit"}, id'[h] = id[h] \/ storage[id'[h]] = at'[h],
           Claimed(h)' = {} \/ (\E p \in pool : Claimed(h)' \subseteq devs[p]
                                               /\ at'[h] = storage[p]),
           Own(h)'
    PROVE  WInv'
<1> USE DEF At
<1>1. /\ \A k \in Handler : at[k] \in Name \cup {None} /\ (at[k] = None => want[k] = {})
      /\ at[h] = None /\ met \subseteq Name
  BY DEF WInv, Orderly, RInv, IInv, TypeOK
<1>2. /\ met \subseteq met'
      /\ \A k \in Handler \ {h} : at[k] = at'[h] \/ want[k] \cap want'[h] # {}
                                    => {at'[h], at[k]} \subseteq met'
  BY DEF Meet
<1>3. met' \subseteq Name
  <2>1. \A k \in Handler : at[k] = at'[h] \/ want[k] \cap want'[h] # {} => at[k] \in Name
    BY <1>1
  <2> QED  BY <1>1, <2>1 DEF Meet
<1>4. UNCHANGED <<disk, mount, unit, enabled, storage, pool, devs, sound>>
      /\ Taken' = Taken /\ Registered' = Registered /\ Spanned' = Spanned
  BY DEF media, boot, tables, Taken, Registered, Spanned
<1>5. ASSUME NEW j \in Handler \ {h}
      PROVE  /\ pc'[j] = pc[j] /\ op'[j] = op[j] /\ at'[j] = at[j] /\ id'[j] = id[j]
             /\ want'[j] = want[j] /\ todo'[j] = todo[j] /\ dev'[j] = dev[j]
             /\ old'[j] = old[j] /\ Claimed(j)' = Claimed(j)
  BY DEF LocalFrame, Claimed
<1>6. Orderly'
  <2>1. ASSUME NEW j \in Handler
        PROVE  /\ pc'[j] = "idle" => at'[j] = None
               /\ at'[j] = None => want'[j] = {}
               /\ id'[j] \in Pool => storage[id'[j]] \in {None, at'[j]}
    BY <1>1, <1>5, NoneAssumption DEF WInv, Orderly
  <2> QED  BY <1>3, <1>4, <2>1 DEF WInv, Orderly
<1>7. Separate'
  <2>1. ASSUME NEW j \in Handler, NEW k \in Handler, j # k,
               (at'[j] # None /\ at'[j] = at'[k]) \/ want'[j] \cap want'[k] # {}
        PROVE  at'[j] \in met'
    BY <1>2, <1>5, <2>1 DEF WInv, Separate
  <2>2. ASSUME NEW k \in Handler, NEW p \in pool, devs[p] \cap Claimed(k)' # {},
               storage[p] # at'[k]
        PROVE  {storage[p], at'[k]} \subseteq met'
    <3>1. CASE k # h
      BY <1>2, <1>5, <2>2, <3>1 DEF WInv, Separate
    <3>2. CASE k = h
      <4>1. PICK q \in pool : Claimed(h)' \subseteq devs[q] /\ at'[h] = storage[q]
        BY <2>2, <3>2
      <4>2. p # q /\ devs[p] \cap devs[q] # {} /\ pool \subseteq Pool
        BY <2>2, <3>2, <4>1 DEF WInv, RInv, IInv, TypeOK
      <4> QED  BY <1>2, <3>2, <4>1, <4>2 DEF WInv, Separate
    <3> QED  BY <3>1, <3>2
  <2> QED  BY <1>2, <1>4, <2>1, <2>2 DEF WInv, Separate
<1>8. Identified'
  <2>1. \A k \in Handler, d \in Device :
          At(k, "unit")' /\ d \in want'[k] /\ disk[d] \in Filesystem =>
            \A m \in Name \ met : m # at'[k] => unit[m] # disk[d].uuid
    BY <1>5 DEF WInv, Identified
  <2> QED  BY <1>2, <1>4, <2>1 DEF WInv, Identified, InOrder
<1>9. ASSUME NEW j \in Handler, at'[j] \notin met'
      PROVE  Own(j)'
  <2>1. CASE j # h
    <3>1. Own(j)
      BY <1>2, <1>5, <1>9, <2>1 DEF WInv, Held
    <3>2. Settled(j)' /\ Dealt(j)' /\ Down(j)'
      BY <1>4, <1>5, <2>1, <3>1 DEF Own, Settled, Dealt, Down, Dropped, Erasing
    <3>3. Built(j)'
      BY <1>4, <1>5, <2>1, <3>1 DEF Own, Built, Marked, Carries, Stocked, Spans, Mountable
    <3> QED  BY <3>2, <3>3 DEF Own
  <2> QED  BY <2>1
<1>10. ASSUME NEW p \in sound, storage[p] \notin met'
       PROVE  Stands(p)'
  <2>1. Stands(p)
    BY <1>2, <1>10 DEF WInv, Standing
  <2> QED  BY <1>4, <1>5, <2>1 DEF Stands, Stocked, Spans, Mountable
<1> QED  BY <1>4, <1>6, <1>7, <1>8, <1>9, <1>10 DEF WInv, Held, Standing

\* CreatePool relies on nothing at first, and has claimed no device.
LEMMA HandleCreatePoolWInv ==
    ASSUME WInv, RInv', NEW h \in Handler, HandleCreatePool(h), Meet(h)
    PROVE  WInv'
<1> USE DEF HandleCreatePool, Goto
<1>1. PICK n \in Name, D \in SUBSET Device :
        /\ at' = [at EXCEPT ![h] = n] /\ want' = [want EXCEPT ![h] = D]
        /\ todo' = [todo EXCEPT ![h] = D]
  OBVIOUS
<1>2. /\ LocalFrame(h) /\ at'[h] = n /\ want'[h] = D /\ todo'[h] = D
      /\ op'[h] = "create" /\ pc'[h] = "lookup" /\ id'[h] = id[h]
  BY <1>1 DEF WInv, RInv, IInv, TypeOK, LocalFrame
<1>3. Own(h)' /\ Claimed(h)' = {}
  BY <1>2
     DEF Own, Settled, Dealt, Down, Built, Dissolving, Dropped, Erasing, At, Deleting, Claimed
<1> QED  BY <1>2, <1>3, RequestWInv

\* A request that concerns a pool relies on its rows, and has its devices.
LEMMA AskWInv ==
    ASSUME WInv, RInv', NEW h \in Handler, Meet(h), NEW p \in pool, UNCHANGED old,
           \/ Ask(h, p, "format", devs[p], "dismount")
           \/ Ask(h, p, "delete", devs[p], "dismount")
           \/ Ask(h, p, "erase", devs[p], "subvolumes")
    PROVE  WInv'
<1>1. /\ LocalFrame(h) /\ id'[h] = p /\ at'[h] = storage[p] /\ want'[h] = devs[p]
      /\ todo'[h] = devs[p] /\ storage[p] \in Name
      /\ \/ pc'[h] = "dismount" /\ op'[h] \in {"format", "delete"}
         \/ pc'[h] = "subvolumes" /\ op'[h] = "erase"
  BY DEF WInv, RInv, IInv, TypeOK, Ask, Goto, LocalFrame
<1>2. At(h, "idle") /\ UNCHANGED <<media, boot, tables, sound>>
  BY DEF Ask
<1>3. Own(h)'
  BY <1>1, <1>2
     DEF Own, Settled, Dealt, Down, Built, Dissolving, Dropped, Erasing, At, Deleting,
         tables
<1>4. Claimed(h)' \subseteq devs[p]
  BY <1>1 DEF Claimed
<1> QED  BY <1>1, <1>2, <1>3, <1>4, RequestWInv

\* ReplaceDevice relies on the old device's row too; the new one is still to be checked.
LEMMA HandleReplaceDeviceWInv ==
    ASSUME WInv, RInv', NEW h \in Handler, HandleReplaceDevice(h), Meet(h)
    PROVE  WInv'
<1>1. PICK p \in pool, d \in Device \ Registered :
        /\ Ask(h, p, "replace", {d}, "check")
        /\ \E o \in devs[p] : old' = [old EXCEPT ![h] = o]
  BY DEF HandleReplaceDevice
<1>2. /\ LocalFrame(h) /\ id'[h] = p /\ at'[h] = storage[p] /\ want'[h] = {d}
      /\ todo'[h] = {d} /\ old'[h] \in devs[p] /\ pc'[h] = "check" /\ op'[h] = "replace"
      /\ storage[p] \in Name
  BY <1>1 DEF WInv, RInv, IInv, TypeOK, Ask, Goto, LocalFrame
<1>3. At(h, "idle") /\ UNCHANGED <<media, boot, tables, sound>>
  BY <1>1 DEF Ask
<1>4. Own(h)' /\ Claimed(h)' = {}
  BY <1>2, <1>3
     DEF Own, Settled, Dealt, Down, Built, Dissolving, Dropped, Erasing, At, Deleting,
         tables, Claimed
<1> QED  BY <1>2, <1>3, <1>4, RequestWInv

\* Every request begins so.
LEMMA BeginWInv ==
    ASSUME WInv, RInv', NEW h \in Handler, Request(h), Meet(h)
    PROVE  WInv'
<1>1. CASE HandleFormatPool(h) \/ HandleDeletePool(h)
  BY <1>1, AskWInv DEF HandleFormatPool, HandleDeletePool
<1> QED  BY <1>1, HandleCreatePoolWInv, HandleReplaceDeviceWInv DEF Request

\* forcePreparePoolDevices: the device that passes the check is registered with no pool,
\* and no request that has not met this one can register it.
LEMMA CheckDeviceWInv ==
    ASSUME WInv, RInv', met' = met, NEW h \in Handler, CheckDevice(h)
    PROVE  WInv'
<1> USE DEF CheckDevice, CheckOr, At
<1>1. CASE Return(h)
  BY <1>1, QuietReturnWInv
<1>2. ASSUME NEW d \in todo[h], d \notin Registered, dev' = [dev EXCEPT ![h] = d],
             Goto(h, "free"), UNCHANGED <<op, at, id, want, todo, old>>
      PROVE  WInv'
  <2>1. /\ LocalFrame(h) /\ pc'[h] = "free" /\ dev'[h] = d /\ op'[h] = op[h]
        /\ at'[h] = at[h] /\ id'[h] = id[h] /\ want'[h] = want[h] /\ todo'[h] = todo[h]
        /\ old'[h] = old[h] /\ op[h] \in {"create", "replace"} /\ d \in want[h]
        /\ at[h] # None /\ d \in Device
    BY <1>2, OpAssumption, NoneAssumption
       DEF WInv, RInv, IInv, TypeOK, InPlace, Preparing, Checked, Goto, LocalFrame, Op
  <2>2. RequestFrame(h)
    BY <1>2, <2>1 DEF RequestFrame, Claimed
  <2>3. ASSUME at[h] \notin met
        PROVE  Own(h)'
    <3>1. Settled(h)'
      BY <2>1, <2>3 DEF WInv, Held, Own, Settled, Taken, Dissolving, Dropped, Erasing, tables
    <3>2. Dealt(h)'
      BY <1>2, <2>1, <2>3 DEF WInv, Held, Own, Dealt, Registered, Dropped, Erasing, tables
    <3>3. Down(h)' /\ Built(h)'
      BY <2>1, <2>3 DEF WInv, Held, Own, Down, Built, Deleting, Erasing, media
    <3> QED  BY <3>1, <3>2, <3>3 DEF Own
  <2> QED  BY <2>1, <2>2, <2>3, QuietProceedWInv
<1> QED  BY <1>1, <1>2

\* When every device has been dealt with none of them is registered with another pool.
LEMMA PreparedWInv ==
    ASSUME WInv, RInv', met' = met, NEW h \in Handler, Prepared(h)
    PROVE  WInv'
<1> USE DEF Prepared, At
<1>1. CASE Return(h)
  BY <1>1, QuietReturnWInv
<1>2. ASSUME NEW point \in {"mkfs", "swap"}, Proceed(h, point),
             \/ At(h, "check") /\ op[h] = "create" /\ point = "mkfs"
             \/ At(h, "check") /\ op[h] = "replace" /\ point = "swap"
             \/ At(h, "wipe") /\ op[h] = "format" /\ point = "mkfs"
      PROVE  WInv'
  <2>1. /\ pc'[h] = point /\ op'[h] = op[h] /\ at'[h] = at[h] /\ id'[h] = id[h]
        /\ want'[h] = want[h] /\ todo'[h] = todo[h] /\ old'[h] = old[h]
    BY <1>2, ProceedLocal DEF WInv, RInv, IInv
  <2>2. LocalFrame(h) /\ RequestFrame(h)
    BY <1>2, ProceedRequest
  <2>3. ASSUME at[h] \notin met
        PROVE  Own(h)'
    <3>1. Settled(h)'
      BY <1>2, <2>1, <2>3
         DEF WInv, Held, Own, Settled, Taken, Dissolving, Dropped, Erasing, tables
    <3>2. Dealt(h)'
      BY <1>2, <2>1, <2>3 DEF WInv, Held, Own, Dealt, Registered, Dropped, Erasing, tables
    <3>3. Down(h)' /\ Built(h)'
      BY <1>2, <2>1, <2>3 DEF WInv, Held, Own, Down, Built, Deleting, Erasing, media
    <3> QED  BY <3>1, <3>2, <3>3 DEF Own
  <2> QED  BY <1>2, <2>2, <2>3, QuietProceedWInv
<1>3. At(h, "check") => op[h] \in {"create", "replace"}
  BY DEF WInv, RInv, IInv, InPlace, Preparing
<1> QED  BY <1>1, <1>2, <1>3

\* What is mounted from a device that is about to be wiped is unmounted.
LEMMA FreeDeviceWInv ==
    ASSUME WInv, RInv', met' = met, NEW h \in Handler, FreeDevice(h)
    PROVE  WInv'
<1> USE DEF FreeDevice, At
<1>1. /\ LocalFrame(h) /\ pc'[h] = "wipe" /\ op'[h] = op[h] /\ at'[h] = at[h]
      /\ id'[h] = id[h] /\ want'[h] = want[h] /\ todo'[h] = todo[h] /\ dev'[h] = dev[h]
      /\ old'[h] = old[h] /\ op[h] \in {"create", "replace"}
  BY ProceedLocal DEF WInv, RInv, IInv, InPlace, Preparing
<1>2. RequestFrame(h)
  BY ProceedRequest
<1>3. \A n \in Name : mount'[n] \in {mount[n], None}
  OBVIOUS
<1>4. Frame(h) /\ \A n \in Name \ met : InOrder(n)'
  <2>1. Spanned' \cap Filesystem \subseteq Spanned
    BY <1>3, RootAssumption DEF Spanned
  <2> QED  BY <1>1, <1>2, <1>3, <2>1, MountFrame
<1>5. ASSUME at[h] \notin met
      PROVE  Own(h)'
  <2>1. at[h] \in Name
    BY <1>1, OpAssumption DEF WInv, RInv, IInv, InPlace, Op
  <2>2. Settled(h)'
    BY <1>1, <1>5
       DEF WInv, Held, Own, Settled, Taken, Dissolving, Dropped, Erasing, tables
  <2>3. Dealt(h)'
    BY <1>1, <1>5 DEF WInv, Held, Own, Dealt, Registered, Dropped, Erasing, tables
  <2>4. Down(h)' /\ Built(h)'
    <3>1. op[h] # "replace" => mount[at[h]] = None
      BY <1>5 DEF WInv, Held, Own, Down
    <3>2. op[h] # "replace" => mount'[at[h]] = None
      BY <1>3, <2>1, <3>1
    <3> QED  BY <1>1, <3>2 DEF Down, Built, Deleting, Erasing
  <2> QED  BY <2>2, <2>3, <2>4 DEF Own
<1>6. at[h] \notin met => \A p \in sound' : storage[p] = at[h] => Stands(p)'
  BY <1>1, QuietStands
<1> QED  BY <1>4, <1>5, <1>6, FrameWInv

\* wipefs empties a device that the request has claimed.
LEMMA WipeFrame ==
    ASSUME WInv, met' = met, NEW h \in Handler, NEW d \in Claimed(h), NEW next,
           next \in {"check", "wipe"}, At(h, "wipe"),
           op[h] \in {"create", "replace"} => next = "check", Wipe(h, d, next)
    PROVE  /\ Frame(h) /\ \A n \in Name \ met : InOrder(n)'
           /\ pc'[h] = next /\ op'[h] = op[h] /\ at'[h] = at[h] /\ id'[h] = id[h]
           /\ want'[h] = want[h] /\ todo'[h] = todo[h] \ {d} /\ old'[h] = old[h]
<1> USE DEF Wipe, Goto, At
<1>1. /\ LocalFrame(h) /\ pc'[h] = next /\ op'[h] = op[h] /\ at'[h] = at[h]
      /\ id'[h] = id[h] /\ want'[h] = want[h] /\ todo'[h] = todo[h] \ {d}
      /\ old'[h] = old[h]
  BY DEF WInv, RInv, IInv, TypeOK, LocalFrame
<1>2. UNCHANGED <<mount, boot, tables, sound>> /\ disk' = [disk EXCEPT ![d] = None]
  OBVIOUS
<1>3. Claimed(h)' \subseteq Claimed(h)
  BY <1>1 DEF Claimed
<1>4. RequestFrame(h)
  BY <1>1, <1>3 DEF RequestFrame, WInv, Orderly
<1>5. \A e \in Device : disk'[e] = disk[e] \/ (e = d /\ disk'[e] = None)
  BY <1>2 DEF WInv, RInv, IInv, TypeOK
<1>6. DiskFrame(h) /\ PathFrame(h)
  BY <1>2, <1>5 DEF DiskFrame, PathFrame, boot
<1>7. UuidFrame(h)
  <2>1. Spanned' \cap Filesystem \subseteq Spanned
    BY <1>2, <1>5, RootAssumption DEF Spanned
  <2>2. OneEach'
    BY <2>1 DEF OneEach, WInv, Orderly
  <2>3. \A e \in Device : disk'[e] \in Filesystem => disk'[e] = disk[e]
    BY <1>5, RootAssumption
  <2> QED  BY <2>2, <2>3 DEF UuidFrame, WInv, Orderly
<1>8. TableFrame(h)
  BY <1>2 DEF TableFrame, tables, WInv, Orderly
<1>9. \A n \in Name \ met : InOrder(n)'
  BY <1>2 DEF InOrder, boot, WInv, Identified
<1> QED  BY <1>1, <1>4, <1>6, <1>7, <1>8, <1>9 DEF Frame

\* The device that a creation or a replacement wipes is registered with no pool, if
\* nobody has met the request.
LEMMA WipeCheckedWInv ==
    ASSUME WInv, RInv', met' = met, NEW h \in Handler, WipeChecked(h)
    PROVE  WInv'
<1> USE DEF WipeChecked, At
<1>1. dev[h] \in Claimed(h) /\ dev[h] \in Device /\ Wipe(h, dev[h], "check")
  BY DEF WInv, RInv, IInv, Checked, Claimed
<1>2. /\ Frame(h) /\ \A n \in Name \ met : InOrder(n)'
      /\ pc'[h] = "check" /\ op'[h] = op[h] /\ at'[h] = at[h] /\ id'[h] = id[h]
      /\ want'[h] = want[h] /\ todo'[h] = todo[h] \ {dev[h]} /\ old'[h] = old[h]
  BY <1>1, WipeFrame
<1>3. UNCHANGED <<mount, boot, tables, sound>> /\ disk' = [disk EXCEPT ![dev[h]] = None]
  BY DEF Wipe
<1>4. ASSUME at[h] \notin met
      PROVE  /\ Own(h)' /\ dev[h] \in want[h] \ Registered
  <2>1. Own(h) /\ dev[h] \in want[h] \ Registered
    BY <1>4 DEF WInv, Held, Own, Dealt
  <2>2. Settled(h)'
    BY <1>2, <1>3, <2>1 DEF Own, Settled, Taken, Dissolving, Dropped, Erasing, tables
  <2>3. Dealt(h)'
    BY <1>2, <1>3, <2>1 DEF Own, Dealt, Registered, Dropped, Erasing, tables
  <2>4. Down(h)' /\ Built(h)'
    BY <1>2, <1>3, <2>1 DEF Own, Down, Built, Deleting, Erasing
  <2> QED  BY <2>1, <2>2, <2>3, <2>4 DEF Own
<1>5. ASSUME at[h] \notin met, NEW p \in sound', storage[p] = at[h]
      PROVE  Stands(p)'
  <2>1. p \in sound /\ p \in pool /\ devs[p] \subseteq Device
    BY <1>3 DEF WInv, Orderly, RInv, IInv, TypeOK
  <2>2. \A d \in devs[p] : disk'[d] = disk[d]
    BY <1>3, <1>4, <1>5, <2>1 DEF WInv, RInv, IInv, TypeOK, Registered
  <2> QED  BY <1>2, <1>3, <1>5, <2>1, <2>2, StandsAgain DEF Frame
<1> QED  BY <1>2, <1>3, <1>4, <1>5, FrameWInv

\* A format wipes devices of its pool; an erasure those that no pool has any more.
LEMMA WipeOwnWInv ==
    ASSUME WInv, RInv', met' = met, NEW h \in Handler, WipeOwn(h)
    PROVE  WInv'
<1> USE DEF WipeOwn, At
<1>1. PICK d \in todo[h] : Wipe(h, d, "wipe")
  OBVIOUS
<1>2. d \in Claimed(h) /\ d \in Device
  BY DEF WInv, RInv, IInv, TypeOK, Checked, Claimed
<1>3. /\ Frame(h) /\ \A n \in Name \ met : InOrder(n)'
      /\ pc'[h] = "wipe" /\ op'[h] = op[h] /\ at'[h] = at[h] /\ id'[h] = id[h]
      /\ want'[h] = want[h] /\ todo'[h] = todo[h] \ {d} /\ old'[h] = old[h]
  BY <1>1, <1>2, WipeFrame
<1>4. UNCHANGED <<mount, boot, tables, sound>> /\ disk' = [disk EXCEPT ![d] = None]
  BY <1>1 DEF Wipe
<1>5. ASSUME at[h] \notin met
      PROVE  Own(h)'
  <2>1. Own(h)
    BY <1>5 DEF WInv, Held
  <2>2. Settled(h)'
    BY <1>3, <1>4, <2>1 DEF Own, Settled, Taken, Dissolving, Dropped, Erasing, tables
  <2>3. Dealt(h)'
    <3>1. \A e \in want[h] \ todo'[h] : Erasing(h) => disk'[e] = None
      BY <1>2, <1>3, <1>4, <2>1 DEF Own, Dealt, Erasing, WInv, RInv, IInv, TypeOK
    <3> QED  BY <1>3, <1>4, <2>1, <3>1 DEF Own, Dealt, Registered, Dropped, Erasing, tables
  <2>4. Down(h)' /\ Built(h)'
    BY <1>3, <1>4, <2>1 DEF Own, Down, Built, Deleting, Erasing
  <2> QED  BY <2>2, <2>3, <2>4 DEF Own
<1>6. at[h] \notin met => \A p \in sound : storage[p] # at[h]
  BY NoneStands DEF Dropped, Erasing
<1> QED  BY <1>3, <1>4, <1>5, <1>6, FrameWInv

\* mkfs.btrfs makes a filesystem with an identity of its own, which nothing names yet.
LEMMA MakeFilesystemWInv ==
    ASSUME WInv, RInv', met' = met, NEW h \in Handler, MakeFilesystem(h)
    PROVE  WInv'
<1> USE DEF MakeFilesystem, At
<1>1. PICK u \in Uuid :
        /\ Fresh(u)
        /\ disk' = [d \in Device |-> IF d \in want[h]
                      THEN [uuid |-> u, on |-> want[h], data |-> FALSE] ELSE disk[d]]
  OBVIOUS
<1>2. /\ LocalFrame(h) /\ pc'[h] = "unit" /\ op'[h] = op[h] /\ at'[h] = at[h]
      /\ id'[h] = id[h] /\ want'[h] = want[h] /\ todo'[h] = todo[h] /\ old'[h] = old[h]
      /\ op[h] \in {"create", "format"} /\ want[h] \subseteq Device
  BY ProceedLocal DEF WInv, RInv, IInv, TypeOK, InPlace, Making
<1> DEFINE g == [uuid |-> u, on |-> want[h], data |-> FALSE]
<1>3. g \in Filesystem /\ g.uuid = u /\ g.on = want[h]
  BY <1>2 DEF Filesystem
<1> HIDE DEF g
<1>4. /\ \A d \in want[h] : disk'[d] = g
      /\ \A d \in Device \ want[h] : disk'[d] = disk[d]
  BY <1>1, <1>2 DEF g
<1>5. UNCHANGED <<mount, boot, tables, sound>>
  OBVIOUS
<1>6. \A n \in Name : unit[n] # u /\ (mount[n] # None => mount[n].uuid # u)
  BY <1>1 DEF Fresh, Spanned, WInv, RInv, IInv, TypeOK
<1>7. Frame(h)
  <2>1. RequestFrame(h)
    <3>1. Claimed(h)' = Claimed(h)
      BY <1>2 DEF Claimed
    <3>2. \A d \in want[h], n \in Name : unit[n] # disk'[d].uuid
      BY <1>3, <1>4, <1>6
    <3> QED  BY <1>2, <3>1, <3>2 DEF RequestFrame, WInv, Orderly
  <2>2. DiskFrame(h)
    <3>1. want[h] \subseteq Claimed(h)
      BY <1>2 DEF Claimed, WInv, RInv, IInv, Checked, Making
    <3> QED  BY <1>4, <3>1 DEF DiskFrame
  <2>3. UuidFrame(h)
    <3>1. ASSUME NEW f \in Spanned' \cap Filesystem
          PROVE  f = g \/ (f \in Spanned /\ f.uuid # u)
      <4>1. (\E d \in Device : f = disk'[d]) \/ (\E n \in Name : f = mount[n])
        BY <1>5 DEF Spanned
      <4>2. f = g \/ f \in Spanned
        BY <1>4, <4>1 DEF Spanned
      <4> QED  BY <1>1, <4>2 DEF Fresh
    <3>2. OneEach'
      BY <1>3, <3>1 DEF OneEach, WInv, Orderly
    <3>3. \A d \in want[h] : d \in disk'[d].on /\ \A n \in Name : unit[n] # disk'[d].uuid
      BY <1>3, <1>4, <1>6
    <3> QED  BY <1>2, <1>4, <3>2, <3>3 DEF UuidFrame, WInv, Orderly
  <2>4. PathFrame(h)
    BY <1>5 DEF PathFrame, boot
  <2>5. TableFrame(h)
    BY <1>5 DEF TableFrame, tables, WInv, Orderly
  <2> QED  BY <1>2, <2>1, <2>2, <2>3, <2>4, <2>5 DEF Frame
<1>8. \A n \in Name \ met : InOrder(n)'
  BY <1>5 DEF InOrder, boot, WInv, Identified
<1>9. ASSUME at[h] \notin met
      PROVE  Own(h)'
  <2>1. Own(h)
    BY <1>9 DEF WInv, Held
  <2>2. Settled(h)'
    BY <1>2, <1>5, <2>1 DEF Own, Settled, Taken, Dissolving, Dropped, Erasing, tables
  <2>3. Dealt(h)'
    BY <1>2, <1>5, <2>1 DEF Own, Dealt, Registered, Dropped, Erasing, tables
  <2>4. Down(h)'
    BY <1>2, <1>5, <2>1 DEF Own, Down, Deleting, Erasing
  <2>5. Marked(want[h])'
    BY <1>2, <1>3, <1>4, <1>5, <1>6 DEF Marked, boot
  <2>6. Built(h)'
    BY <1>2, <2>5 DEF Built
  <2> QED  BY <2>2, <2>3, <2>4, <2>6 DEF Own
<1>10. at[h] \notin met => \A p \in sound : storage[p] # at[h]
  BY <1>2, NoneStands
<1> QED  BY <1>5, <1>7, <1>8, <1>9, <1>10, FrameWInv

\* The unit names a filesystem on a device of the request; if it has met nobody, the one
\* that it has made, which is named by no other unit.
LEMMA WriteUnitWInv ==
    ASSUME WInv, RInv', met' = met, NEW h \in Handler, WriteUnit(h)
    PROVE  WInv'
<1> USE DEF WriteUnit, At
<1>1. /\ LocalFrame(h) /\ pc'[h] = "enable" /\ op'[h] = op[h] /\ at'[h] = at[h]
      /\ id'[h] = id[h] /\ want'[h] = want[h] /\ todo'[h] = todo[h] /\ old'[h] = old[h]
      /\ op[h] \in {"create", "format"} /\ want[h] \subseteq Device
  BY ProceedLocal DEF WInv, RInv, IInv, TypeOK, InPlace, Making
<1>2. at[h] \in Name
  BY <1>1, OpAssumption DEF WInv, RInv, IInv, InPlace, Op
<1>3. PICK d \in want[h] : disk[d] \in Filesystem
                           /\ unit' = [unit EXCEPT ![at[h]] = disk[d].uuid]
  OBVIOUS
<1>4. UNCHANGED <<media, enabled, tables, sound>>
  OBVIOUS
<1>5. /\ unit'[at[h]] = disk[d].uuid
      /\ \A n \in Name : n # at[h] => unit'[n] = unit[n]
  BY <1>2, <1>3 DEF WInv, RInv, IInv, TypeOK
<1>6. Frame(h)
  <2>1. RequestFrame(h)
    BY ProceedRequest
  <2>2. DiskFrame(h) /\ PathFrame(h)
    BY <1>3, <1>4, <1>5 DEF DiskFrame, PathFrame, media
  <2>3. UuidFrame(h)
    BY <1>4 DEF UuidFrame, OneEach, Spanned, media, WInv, Orderly
  <2>4. TableFrame(h)
    BY <1>4 DEF TableFrame, tables, WInv, Orderly
  <2> QED  BY <1>1, <2>1, <2>2, <2>3, <2>4 DEF Frame
<1>7. ASSUME at[h] \notin met
      PROVE  Own(h)' /\ \A n \in Name : n = at[h] => InOrder(n)'
  <2>1. Own(h) /\ mount[at[h]] = None
    BY <1>7 DEF WInv, Held, Own, Down
  <2>2. Settled(h)'
    BY <1>1, <1>4, <2>1 DEF Own, Settled, Taken, Dissolving, Dropped, Erasing, tables
  <2>3. Dealt(h)'
    BY <1>1, <1>4, <2>1 DEF Own, Dealt, Registered, Dropped, Erasing, tables
  <2>4. Down(h)'
    BY <1>1, <1>4, <2>1 DEF Own, Down, Deleting, Erasing, media
  <2>5. disk[d].on = want[h] /\ \A e \in want[h] : disk[e] = disk[d]
    BY <1>3, <2>1 DEF Own, Built, Marked
  <2>6. Spans(disk[d], at[h], want[h])'
    BY <1>1, <1>3, <1>4, <1>5, <2>5 DEF Spans, Mountable, media
  <2>7. Carries(at[h], want[h])'
    BY <1>3, <1>4, <2>6 DEF Carries, media
  <2>8. Built(h)'
    BY <1>1, <2>7 DEF Built
  <2>9. InOrder(at[h])'
    BY <1>1, <1>3, <1>4, <1>5, <2>1, NoneAssumption DEF InOrder, media, Filesystem
  <2> QED  BY <1>1, <2>2, <2>3, <2>4, <2>8, <2>9 DEF Own
<1>8. at[h] \notin met => \A p \in sound : storage[p] # at[h]
  BY <1>1, NoneStands
<1> QED  BY <1>4, <1>6, <1>7, <1>8, FrameWInv

\* systemctl enable: the unit will be started at boot.
LEMMA EnableWInv ==
    ASSUME WInv, RInv', met' = met, NEW h \in Handler, Enable(h)
    PROVE  WInv'
<1> USE DEF Enable, At
<1>1. /\ LocalFrame(h) /\ pc'[h] = "start" /\ op'[h] = op[h] /\ at'[h] = at[h]
      /\ id'[h] = id[h] /\ want'[h] = want[h] /\ todo'[h] = todo[h] /\ old'[h] = old[h]
      /\ op[h] \in {"create", "format"}
  BY ProceedLocal DEF WInv, RInv, IInv, InPlace, Making
<1>2. at[h] \in Name
  BY <1>1, OpAssumption DEF WInv, RInv, IInv, InPlace, Op
<1>3. UNCHANGED <<media, unit, tables, sound>>
  OBVIOUS
<1>4. enabled'[at[h]] = TRUE /\ \A n \in Name : n # at[h] => enabled'[n] = enabled[n]
  BY <1>2 DEF WInv, RInv, IInv, TypeOK
<1>5. Frame(h)
  <2>1. RequestFrame(h)
    BY ProceedRequest
  <2>2. DiskFrame(h) /\ PathFrame(h)
    BY <1>3, <1>4 DEF DiskFrame, PathFrame, media
  <2>3. UuidFrame(h)
    BY <1>3 DEF UuidFrame, OneEach, Spanned, media, WInv, Orderly
  <2>4. TableFrame(h)
    BY <1>3 DEF TableFrame, tables, WInv, Orderly
  <2> QED  BY <1>1, <2>1, <2>2, <2>3, <2>4 DEF Frame
<1>6. \A n \in Name \ met : InOrder(n)'
  BY <1>3, <1>4 DEF InOrder, media, WInv, Identified
<1>7. ASSUME at[h] \notin met
      PROVE  Own(h)'
  <2>1. Own(h)
    BY <1>7 DEF WInv, Held
  <2>2. Settled(h)'
    BY <1>1, <1>3, <2>1 DEF Own, Settled, Taken, Dissolving, Dropped, Erasing, tables
  <2>3. Dealt(h)'
    BY <1>1, <1>3, <2>1 DEF Own, Dealt, Registered, Dropped, Erasing, tables
  <2>4. Down(h)'
    BY <1>1, <1>3, <2>1 DEF Own, Down, Deleting, Erasing, media
  <2>5. Carries(at[h], want[h])'
    BY <1>1, <1>3, <2>1 DEF Own, Built, Carries, Spans, Mountable, media
  <2>6. Built(h)'
    BY <1>1, <1>4, <2>5 DEF Built
  <2> QED  BY <2>2, <2>3, <2>4, <2>6 DEF Own
<1>8. at[h] \notin met => \A p \in sound : storage[p] # at[h]
  BY <1>1, NoneStands
<1> QED  BY <1>3, <1>5, <1>6, <1>7, <1>8, FrameWInv

\* --now: what is mounted at the path is what the unit names.
LEMMA StartWInv ==
    ASSUME WInv, RInv', met' = met, NEW h \in Handler, Start(h)
    PROVE  WInv'
<1> USE DEF Start, At
<1>1. /\ LocalFrame(h) /\ pc'[h] = "layout" /\ op'[h] = op[h] /\ at'[h] = at[h]
      /\ id'[h] = id[h] /\ want'[h] = want[h] /\ todo'[h] = todo[h] /\ old'[h] = old[h]
      /\ op[h] \in {"create", "format"}
  BY ProceedLocal DEF WInv, RInv, IInv, InPlace, Making
<1>2. UNCHANGED <<disk, boot, tables, sound>>
  OBVIOUS
<1>3. /\ Spanned' \cap Filesystem \subseteq Spanned
      /\ \A n \in Name : \/ mount'[n] \in {mount[n], None}
                         \/ n = at[h] /\ mount'[n].uuid = unit[n]
  <2>1. CASE mount[at[h]] # None
    BY <1>2, <2>1 DEF Spanned
  <2>2. CASE mount[at[h]] = None
    <3>1. PICK f \in Named(unit[at[h]]) : mount' = [mount EXCEPT ![at[h]] = f]
      BY <2>2
    <3>2. f \in Filesystem /\ f.uuid = unit[at[h]] /\ f \in Spanned
      BY DEF Named, Mountable, Spanned
    <3>3. \A n \in Name : mount'[n] = mount[n] \/ (n = at[h] /\ mount'[n] = f)
      BY <3>1 DEF WInv, RInv, IInv, TypeOK
    <3> QED  BY <1>2, <3>2, <3>3 DEF Spanned
  <2> QED  BY <2>1, <2>2
<1>4. Frame(h) /\ \A n \in Name \ met : InOrder(n)'
  <2>1. RequestFrame(h)
    BY ProceedRequest
  <2> QED  BY <1>1, <1>2, <1>3, <2>1, MountFrame
<1>5. ASSUME at[h] \notin met
      PROVE  Own(h)'
  <2>1. Own(h)
    BY <1>5 DEF WInv, Held
  <2>2. Settled(h)'
    BY <1>1, <1>2, <2>1 DEF Own, Settled, Taken, Dissolving, Dropped, Erasing, tables
  <2>3. Dealt(h)'
    BY <1>1, <1>2, <2>1 DEF Own, Dealt, Registered, Dropped, Erasing, tables
  <2>4. Down(h)'
    BY <1>1, <1>2, <2>1 DEF Own, Down, Deleting, Erasing, boot
  <2>5. Carries(at[h], want[h])'
    BY <1>1, <1>2, <2>1 DEF Own, Built, Carries, Spans, Mountable, boot
  <2>6. Built(h)'
    BY <1>1, <1>2, <2>1, <2>5 DEF Own, Built, boot
  <2> QED  BY <2>2, <2>3, <2>4, <2>6 DEF Own
<1>6. at[h] \notin met => \A p \in sound : storage[p] # at[h]
  BY <1>1, NoneStands
<1> QED  BY <1>2, <1>4, <1>5, <1>6, FrameWInv

\* What is mounted at a path is what its unit names on the devices, if nobody has met
\* there.
LEMMA MountedSpans ==
    ASSUME WInv, NEW n \in Name \ met, NEW D, NEW f \in Filesystem, Spans(f, n, D),
           mount[n] # None
    PROVE  mount[n] = f
<1>1. f \in Spanned /\ f.uuid = unit[n]
  BY DEF Spans, Mountable, Spanned, Filesystem
<1>2. mount[n] \in Spanned \cap Filesystem /\ mount[n].uuid = unit[n]
  BY DEF WInv, RInv, IInv, TypeOK, Identified, InOrder, Spanned
<1> QED  BY <1>1, <1>2 DEF WInv, Orderly

\* initializePoolLayout puts the data into the filesystem that the request has made.
LEMMA InitializeLayoutWInv ==
    ASSUME WInv, RInv', met' = met, NEW h \in Handler, InitializeLayout(h)
    PROVE  WInv'
<1> USE DEF InitializeLayout, At
<1> DEFINE f == mount[at[h]]
           next == IF op[h] = "create" THEN "addStorage" ELSE "refresh"
<1>1. /\ f # None /\ Rewrite(f, [f EXCEPT !.data = TRUE])
      /\ Proceed(h, next) /\ UNCHANGED <<boot, tables, sound>>
  OBVIOUS
<1>2. next \notin {"idle", "free", "wipe", "unit"}
  OBVIOUS
<1> HIDE DEF next
<1>3. /\ LocalFrame(h) /\ pc'[h] = next /\ op'[h] = op[h] /\ at'[h] = at[h]
      /\ id'[h] = id[h] /\ want'[h] = want[h] /\ todo'[h] = todo[h] /\ old'[h] = old[h]
      /\ op[h] \in {"create", "format"}
  BY <1>1, ProceedLocal DEF WInv, RInv, IInv, InPlace, Making
<1>4. at[h] \in Name
  BY <1>3, OpAssumption DEF WInv, RInv, IInv, InPlace, Op
<1>5. Frame(h) /\ \A n \in Name \ met : InOrder(n)'
  <2>1. RequestFrame(h)
    BY <1>1, <1>2, ProceedRequest
  <2> QED  BY <1>1, <1>3, <1>4, <2>1, RewriteFrame
<1>6. ASSUME at[h] \notin met
      PROVE  Own(h)'
  <2>1. Own(h)
    BY <1>6 DEF WInv, Held
  <2>2. PICK e \in Filesystem : Spans(e, at[h], want[h]) /\ enabled[at[h]]
    BY <2>1 DEF Own, Built, Carries
  <2>3. f = e
    BY <1>1, <1>4, <1>6, <2>2, MountedSpans
  <2>4. PICK g \in Filesystem : /\ g.uuid = e.uuid /\ g.on = e.on /\ g.data
                               /\ Rewrite(e, g)
    <3>1. Rewrite(e, [e EXCEPT !.data = TRUE])
      BY <1>1, <2>3
    <3>2. [e EXCEPT !.data = TRUE] \in Filesystem
      BY DataTypes
    <3>3. LET x == [e EXCEPT !.data = TRUE] IN x.uuid = e.uuid /\ x.on = e.on /\ x.data
      BY DEF Filesystem
    <3> QED  BY <3>1, <3>2, <3>3
  <2>5. Settled(h)'
    BY <1>1, <1>3, <2>1 DEF Own, Settled, Taken, Dissolving, Dropped, Erasing, next, tables
  <2>6. Dealt(h)'
    BY <1>1, <1>3, <2>1 DEF Own, Dealt, Registered, Dropped, Erasing, next, tables
  <2>7. Down(h)'
    BY <1>1, <1>3, <2>1 DEF Own, Down, Deleting, Erasing, next
  <2>8. Built(h)'
    <3>1. \A d \in e.on : disk'[d] = g /\ d \in Device
      BY <2>2, <2>4 DEF Spans, Mountable, Rewrite, Filesystem
    <3>2. Spans(g, at[h], want[h])'
      BY <1>1, <1>3, <2>2, <2>4, <3>1 DEF Spans, Mountable, boot
    <3>3. Stocked(at[h], want[h])'
      BY <1>1, <1>3, <2>2, <2>4, <3>2 DEF Stocked, boot
    <3> QED  BY <1>3, <3>3 DEF Built, next
  <2> QED  BY <2>5, <2>6, <2>7, <2>8 DEF Own
<1>7. at[h] \notin met => \A p \in sound : storage[p] # at[h]
  BY <1>3, NoneStands
<1> QED  BY <1>1, <1>5, <1>6, <1>7, FrameWInv

\* A pool that a request begins to take apart does not count as sound from then on.
LEMMA NoLongerSound ==
    ASSUME WInv, NEW h \in Handler, at[h] \in Name \ met, pc[h] \in Dissolving,
           id[h] \in Pool, sound' = sound \ {id[h]}
    PROVE  \A p \in sound' : storage[p] # at[h]
<1>1. storage[id[h]] = at[h]
  BY DEF WInv, Held, Own, Settled
<1> QED  BY <1>1, NoneAssumption DEF WInv, Orderly, RInv, IInv, TypeOK

\* Deleting the subvolumes of a pool.
LEMMA DeleteSubvolumesWInv ==
    ASSUME WInv, RInv', met' = met, NEW h \in Handler, DeleteSubvolumes(h)
    PROVE  WInv'
<1> USE DEF DeleteSubvolumes, At
<1>1. /\ LocalFrame(h) /\ pc'[h] = "dismount" /\ op'[h] = op[h] /\ at'[h] = at[h]
      /\ id'[h] = id[h] /\ want'[h] = want[h] /\ todo'[h] = todo[h] /\ old'[h] = old[h]
      /\ op[h] = "erase"
  BY ProceedLocal DEF WInv, RInv, IInv, InPlace
<1>2. at[h] \in Name /\ id[h] \in Pool
  BY <1>1, OpAssumption DEF WInv, RInv, IInv, InPlace, Op
<1>3. UNCHANGED <<boot, tables>> /\ sound' = sound \ {id[h]} /\ RequestFrame(h)
  BY ProceedRequest
<1>4. Frame(h) /\ \A n \in Name \ met : InOrder(n)'
  <2>1. CASE mount[at[h]] = None
    BY <1>1, <1>3, <2>1, QuietFrame
  <2>2. CASE mount[at[h]] # None
    <3>1. Rewrite(mount[at[h]], [mount[at[h]] EXCEPT !.data = FALSE])
      BY <2>2
    <3> QED  BY <1>1, <1>2, <1>3, <2>2, <3>1, RewriteFrame
  <2> QED  BY <2>1, <2>2
<1>5. ASSUME at[h] \notin met
      PROVE  Own(h)'
  <2>1. Own(h)
    BY <1>5 DEF WInv, Held
  <2>2. Settled(h)'
    BY <1>1, <1>3, <2>1 DEF Own, Settled, Taken, Dissolving, Dropped, Erasing, tables
  <2>3. Dealt(h)'
    BY <1>1, <1>3, <2>1 DEF Own, Dealt, Registered, Dropped, Erasing, tables
  <2>4. Down(h)' /\ Built(h)'
    BY <1>1, <1>3, <2>1 DEF Own, Down, Built, Deleting, Erasing
  <2> QED  BY <2>2, <2>3, <2>4 DEF Own
<1>6. at[h] \notin met => \A p \in sound' : storage[p] # at[h]
  BY <1>2, <1>3, NoLongerSound DEF Dissolving
<1> QED  BY <1>3, <1>4, <1>5, <1>6, FrameWInv

\* Unmounting it, for a format or a deletion.
LEMMA DismountWInv ==
    ASSUME WInv, RInv', met' = met, NEW h \in Handler, Dismount(h)
    PROVE  WInv'
<1> USE DEF Dismount, At, Unmount
<1>1. /\ LocalFrame(h) /\ pc'[h] = "disable" /\ op'[h] = op[h] /\ at'[h] = at[h]
      /\ id'[h] = id[h] /\ want'[h] = want[h] /\ todo'[h] = todo[h] /\ old'[h] = old[h]
      /\ op[h] \in {"format", "delete", "erase"}
  BY ProceedLocal DEF WInv, RInv, IInv, InPlace
<1>2. at[h] \in Name /\ id[h] \in Pool
  BY <1>1, OpAssumption DEF WInv, RInv, IInv, InPlace, Op
<1>3. UNCHANGED <<disk, boot, tables>> /\ sound' = sound \ {id[h]} /\ RequestFrame(h)
  BY ProceedRequest
<1>4. \A n \in Name : mount'[n] \in {mount[n], None}
  BY DEF WInv, RInv, IInv, TypeOK
<1>5. Frame(h) /\ \A n \in Name \ met : InOrder(n)'
  <2>1. Spanned' \cap Filesystem \subseteq Spanned
    BY <1>3, <1>4, RootAssumption DEF Spanned
  <2> QED  BY <1>1, <1>3, <1>4, <2>1, MountFrame
<1>6. ASSUME at[h] \notin met
      PROVE  Own(h)'
  <2>1. Own(h)
    BY <1>6 DEF WInv, Held
  <2>2. Settled(h)'
    BY <1>1, <1>3, <2>1 DEF Own, Settled, Taken, Dissolving, Dropped, Erasing, tables
  <2>3. Dealt(h)'
    BY <1>1, <1>3, <2>1 DEF Own, Dealt, Registered, Dropped, Erasing, tables
  <2>4. Down(h)' /\ Built(h)'
    BY <1>1, <1>3 DEF Down, Built, Deleting, Erasing
  <2> QED  BY <2>2, <2>3, <2>4 DEF Own
<1>7. at[h] \notin met => \A p \in sound' : storage[p] # at[h]
  BY <1>2, <1>3, NoLongerSound DEF Dissolving
<1> QED  BY <1>3, <1>5, <1>6, <1>7, FrameWInv

\* disable --now: afterwards nothing is mounted, and nothing will be at boot.
LEMMA DisableUnitWInv ==
    ASSUME WInv, RInv', met' = met, NEW h \in Handler, DisableUnit(h)
    PROVE  WInv'
<1> USE DEF DisableUnit, At, Unmount
<1> DEFINE next == IF unit[at[h]] # None THEN "removeUnit" ELSE AfterUnit(h)
<1>1. Proceed(h, next) /\ UNCHANGED <<disk, unit, tables, sound>>
  OBVIOUS
<1>2. /\ next \notin {"idle", "free", "unit"}
      /\ next = "wipe" => op[h] = "format"
  BY DEF AfterUnit
<1> HIDE DEF next
<1>3. /\ LocalFrame(h) /\ pc'[h] = next /\ op'[h] = op[h] /\ at'[h] = at[h]
      /\ id'[h] = id[h] /\ want'[h] = want[h] /\ todo'[h] = todo[h] /\ old'[h] = old[h]
      /\ op[h] \in {"format", "delete", "erase"}
  BY <1>1, ProceedLocal DEF WInv, RInv, IInv, InPlace
<1>4. at[h] \in Name
  BY <1>3, OpAssumption DEF WInv, RInv, IInv, InPlace, Op
<1>5. /\ mount'[at[h]] = None /\ \A n \in Name : mount'[n] \in {mount[n], None}
      /\ \A n \in Name : n # at[h] => enabled'[n] = enabled[n]
      /\ enabled'[at[h]] => unit[at[h]] = None /\ enabled[at[h]]
  BY <1>4 DEF WInv, RInv, IInv, TypeOK
<1>6. Frame(h)
  <2>1. RequestFrame(h)
    BY <1>1, <1>2, ProceedRequest
  <2>2. DiskFrame(h) /\ PathFrame(h)
    BY <1>1, <1>5 DEF DiskFrame, PathFrame
  <2>3. UuidFrame(h)
    <3>1. Spanned' \cap Filesystem \subseteq Spanned
      BY <1>1, <1>5, RootAssumption DEF Spanned
    <3> QED  BY <1>1, <3>1 DEF UuidFrame, OneEach, WInv, Orderly
  <2>4. TableFrame(h)
    BY <1>1 DEF TableFrame, tables, WInv, Orderly
  <2> QED  BY <1>3, <2>1, <2>2, <2>3, <2>4 DEF Frame
<1>7. ASSUME at[h] \notin met
      PROVE  /\ ~ enabled'[at[h]] /\ InOrder(at[h])
             /\ \A n \in Name : n = at[h] => InOrder(n)'
  BY <1>1, <1>4, <1>5, <1>7 DEF InOrder, WInv, Identified
<1>8. ASSUME at[h] \notin met
      PROVE  Own(h)'
  <2>1. Own(h)
    BY <1>8 DEF WInv, Held
  <2>2. Settled(h)'
    BY <1>1, <1>3, <2>1
       DEF Own, Settled, Taken, Dissolving, Dropped, Erasing, next, AfterUnit, tables
  <2>3. Dealt(h)'
    BY <1>1, <1>3, <2>1 DEF Own, Dealt, Registered, Dropped, Erasing, next, AfterUnit, tables
  <2>4. Down(h)' /\ Built(h)'
    BY <1>1, <1>3, <1>5, <1>7, <1>8, <2>1
       DEF Own, Down, Built, Deleting, Erasing, next, AfterUnit
  <2> QED  BY <2>2, <2>3, <2>4 DEF Own
<1>9. at[h] \notin met => \A p \in sound : storage[p] # at[h]
  BY NoneStands
<1> QED  BY <1>1, <1>6, <1>7, <1>8, <1>9, FrameWInv

\* The unit is removed after what it had mounted is gone.
LEMMA RemoveUnitWInv ==
    ASSUME WInv, RInv', met' = met, NEW h \in Handler, RemoveUnit(h)
    PROVE  WInv'
<1> USE DEF RemoveUnit, At
<1>1. /\ LocalFrame(h) /\ pc'[h] = AfterUnit(h) /\ op'[h] = op[h] /\ at'[h] = at[h]
      /\ id'[h] = id[h] /\ want'[h] = want[h] /\ todo'[h] = todo[h] /\ old'[h] = old[h]
      /\ op[h] \in {"format", "delete", "erase"}
  BY ProceedLocal DEF WInv, RInv, IInv, InPlace
<1>2. at[h] \in Name
  BY <1>1, OpAssumption DEF WInv, RInv, IInv, InPlace, Op
<1>3. UNCHANGED <<media, enabled, tables, sound>>
  OBVIOUS
<1>4. unit'[at[h]] = None /\ \A n \in Name : n # at[h] => unit'[n] = unit[n]
  BY <1>2 DEF WInv, RInv, IInv, TypeOK
<1>5. Frame(h)
  <2>1. RequestFrame(h)
    BY ProceedRequest DEF AfterUnit
  <2>2. DiskFrame(h) /\ PathFrame(h)
    BY <1>3, <1>4 DEF DiskFrame, PathFrame, media
  <2>3. UuidFrame(h)
    BY <1>3 DEF UuidFrame, OneEach, Spanned, media, WInv, Orderly
  <2>4. TableFrame(h)
    BY <1>3 DEF TableFrame, tables, WInv, Orderly
  <2> QED  BY <1>1, <2>1, <2>2, <2>3, <2>4 DEF Frame
<1>6. ASSUME at[h] \notin met
      PROVE  Own(h)' /\ \A n \in Name : n = at[h] => InOrder(n)'
  <2>1. Own(h) /\ mount[at[h]] = None /\ ~ enabled[at[h]]
    BY <1>6 DEF WInv, Held, Own, Down
  <2>2. Settled(h)'
    BY <1>1, <1>3, <2>1
       DEF Own, Settled, Taken, Dissolving, Dropped, Erasing, AfterUnit, tables
  <2>3. Dealt(h)'
    BY <1>1, <1>3, <2>1 DEF Own, Dealt, Registered, Dropped, Erasing, AfterUnit, tables
  <2>4. Down(h)' /\ Built(h)'
    BY <1>1, <1>3, <1>4, <2>1 DEF Own, Down, Built, Deleting, Erasing, AfterUnit, media
  <2>5. \A n \in Name : n = at[h] => InOrder(n)'
    BY <1>3, <2>1 DEF InOrder, media
  <2> QED  BY <2>2, <2>3, <2>4, <2>5 DEF Own
<1>7. at[h] \notin met => \A p \in sound : storage[p] # at[h]
  BY NoneStands
<1> QED  BY <1>3, <1>5, <1>6, <1>7, FrameWInv

\* The row of the storage takes a path that none has.
LEMMA AddStorageWInv ==
    ASSUME WInv, RInv', met' = met, NEW h \in Handler, AddStorage(h)
    PROVE  WInv'
<1> USE DEF AddStorage, At, Goto
<1>1. op[h] = "create" /\ todo[h] = {} /\ at[h] \notin Taken /\ at[h] \in Name
  BY OpAssumption DEF WInv, RInv, IInv, InPlace, Checked, Creating, Op
<1>2. PICK p \in Pool : /\ storage[p] = None /\ \A k \in Handler : id[k] # p
                        /\ storage' = [storage EXCEPT ![p] = at[h]]
                        /\ id' = [id EXCEPT ![h] = p]
  OBVIOUS
<1>3. /\ LocalFrame(h) /\ pc'[h] = "addPool" /\ op'[h] = op[h] /\ at'[h] = at[h]
      /\ id'[h] = p /\ want'[h] = want[h] /\ todo'[h] = todo[h] /\ dev'[h] = dev[h]
  BY <1>2 DEF WInv, RInv, IInv, TypeOK, LocalFrame
<1>4. UNCHANGED <<media, boot, pool, devs, sound>>
  OBVIOUS
<1>5. storage'[p] = at[h] /\ \A q \in Pool : q # p => storage'[q] = storage[q]
  BY <1>2 DEF WInv, RInv, IInv, TypeOK
<1>6. p \notin pool
  BY <1>2 DEF WInv, RInv, IInv, TypeOK
<1>7. Frame(h) /\ \A n \in Name \ met : InOrder(n)'
  <2>1. Claimed(h)' = Claimed(h)
    BY <1>3 DEF Claimed
  <2>2. RequestFrame(h)
    BY <1>3, <1>5, <2>1 DEF RequestFrame, WInv, Orderly
  <2>3. DiskFrame(h) /\ PathFrame(h)
    BY <1>4 DEF DiskFrame, PathFrame, media, boot
  <2>4. UuidFrame(h)
    BY <1>4 DEF UuidFrame, OneEach, Spanned, media, WInv, Orderly
  <2>5. TableFrame(h)
    BY <1>1, <1>2, <1>3, <1>4, <1>5 DEF TableFrame, WInv, Orderly
  <2>6. \A n \in Name \ met : InOrder(n)'
    BY <1>4 DEF InOrder, media, boot, WInv, Identified
  <2> QED  BY <1>3, <2>2, <2>3, <2>4, <2>5, <2>6 DEF Frame
<1>8. ASSUME at[h] \notin met
      PROVE  Own(h)'
  <2>1. Own(h)
    BY <1>8 DEF WInv, Held
  <2>2. Settled(h)'
    BY <1>1, <1>3, <1>4, <1>5, <1>6 DEF Settled, Dissolving, Dropped, Erasing
  <2>3. Dealt(h)'
    BY <1>1, <1>3, <1>4, <2>1 DEF Own, Dealt, Registered, Dropped, Erasing
  <2>4. Stocked(at[h], want[h])
    BY <2>1 DEF Own, Built
  <2>5. Stocked(at[h], want[h])'
    BY <1>3, <1>4, <2>4 DEF Stocked, Spans, Mountable, media, boot
  <2>6. Down(h)' /\ Built(h)'
    BY <1>1, <1>3, <2>5 DEF Down, Built, Deleting, Erasing
  <2> QED  BY <2>2, <2>3, <2>6 DEF Own
<1>9. ASSUME at[h] \notin met, NEW q \in sound'
      PROVE  q \in sound /\ storage[q] # at[h]
  BY <1>1, <1>4, <1>9, NoneStands
<1> QED  BY <1>7, <1>8, <1>9, FrameWInv

\* The pool is registered with the devices that the creation has built on.
LEMMA AddPoolWInv ==
    ASSUME WInv, RInv', met' = met, NEW h \in Handler, AddPool(h)
    PROVE  WInv'
<1> USE DEF AddPool, At
<1>1. /\ op[h] = "create" /\ todo[h] = {} /\ id[h] \in Pool /\ at[h] \in Name
      /\ want[h] \subseteq Device
  BY OpAssumption DEF WInv, RInv, IInv, TypeOK, InPlace, Checked, Creating, Op
<1>2. storage[id[h]] = at[h]
  BY <1>1 DEF WInv, Orderly
<1>3. /\ LocalFrame(h) /\ RequestFrame(h) /\ at'[h] = None /\ want'[h] = {}
  <2>1. want'[h] = {}
    BY DEF WInv, RInv, IInv, TypeOK, Return
  <2> QED  BY <2>1, ReturnRequest DEF WInv, RInv, IInv
<1>4. UNCHANGED <<media, boot, storage>> /\ sound' = sound \cup {id[h]}
  OBVIOUS
<1>5. /\ pool' = pool \cup {id[h]} /\ devs'[id[h]] = want[h]
      /\ \A q \in Pool : q # id[h] => devs'[q] = devs[q]
  BY <1>1 DEF WInv, RInv, IInv, TypeOK
<1>6. Claimed(h) = want[h]
  BY <1>1 DEF Claimed
<1>7. Frame(h) /\ \A n \in Name \ met : InOrder(n)'
  <2>1. DiskFrame(h) /\ PathFrame(h)
    BY <1>4 DEF DiskFrame, PathFrame, media, boot
  <2>2. UuidFrame(h)
    BY <1>4 DEF UuidFrame, OneEach, Spanned, media, WInv, Orderly
  <2>3. TableFrame(h)
    BY <1>2, <1>3, <1>4, <1>5, <1>6 DEF TableFrame
  <2>4. \A n \in Name \ met : InOrder(n)'
    BY <1>4 DEF InOrder, media, boot, WInv, Identified
  <2> QED  BY <1>3, <2>1, <2>2, <2>3, <2>4 DEF Frame
<1>8. ASSUME at[h] \notin met, NEW q \in {id[h]}
      PROVE  Stands(q)'
  <2>1. Stocked(at[h], want[h])
    BY <1>8 DEF WInv, Held, Own, Built
  <2>2. q \in pool' /\ storage'[q] = at[h] /\ devs'[q] = want[h]
    BY <1>2, <1>4, <1>5
  <2>3. Stocked(storage[q], devs[q])'
    BY <1>4, <2>1, <2>2 DEF Stocked, Spans, Mountable, media, boot
  <2> QED  BY <2>2, <2>3 DEF Stands
<1>9. at[h] \notin met => \A q \in sound : storage[q] # at[h]
  BY NoneStands
<1> QED  BY <1>3, <1>4, <1>7, <1>8, <1>9, FrameWInv

\* The end of a format finds its pool and calls it sound again.
LEMMA RefreshWInv ==
    ASSUME WInv, RInv', met' = met, NEW h \in Handler, Refresh(h)
    PROVE  WInv'
<1> USE DEF Refresh, At
<1>1. op[h] = "format" /\ sound' \subseteq sound \cup (pool \cap {id[h]})
      /\ UNCHANGED <<media, boot, tables>>
  BY DEF WInv, RInv, IInv, InPlace
<1>2. LocalFrame(h) /\ RequestFrame(h) /\ at'[h] = None
  BY ReturnRequest DEF WInv, RInv, IInv
<1>3. Frame(h) /\ \A n \in Name \ met : InOrder(n)'
  BY <1>1, <1>2, QuietFrame
<1>4. ASSUME at[h] \notin met, NEW q \in {id[h]}
      PROVE  Stands(q)'
  <2>1. /\ id[h] \in pool /\ storage[id[h]] = at[h] /\ want[h] = devs[id[h]]
        /\ Stocked(at[h], want[h])
    BY <1>1, <1>4 DEF WInv, Held, Own, Settled, Built
  <2>2. Stocked(storage[q], devs[q])'
    BY <1>1, <2>1 DEF Stocked, Spans, Mountable, media, boot, tables
  <2> QED  BY <1>1, <2>1, <2>2 DEF Stands, tables
<1>5. at[h] \notin met => \A q \in sound : storage[q] # at[h]
  BY <1>1, NoneStands
<1> QED  BY <1>1, <1>2, <1>3, <1>4, <1>5, FrameWInv

\* The row of a pool goes, with those of its devices, which no other pool has.
LEMMA DropPoolWInv ==
    ASSUME WInv, RInv', met' = met, NEW h \in Handler, DropPool(h)
    PROVE  WInv'
<1> USE DEF DropPool, DeletePoolRow, At
<1>1. /\ LocalFrame(h) /\ pc'[h] = "dropStorage" /\ op'[h] = op[h] /\ at'[h] = at[h]
      /\ id'[h] = id[h] /\ want'[h] = want[h] /\ todo'[h] = todo[h]
      /\ op[h] \in {"delete", "erase"}
  BY ProceedLocal DEF WInv, RInv, IInv, InPlace, Deleting
<1>2. id[h] \in Pool /\ at[h] \in Name
  BY <1>1, OpAssumption DEF WInv, RInv, IInv, InPlace, Op
<1>3. UNCHANGED <<media, boot, storage>> /\ sound' = sound \ {id[h]}
  OBVIOUS
<1>4. /\ pool' = pool \ {id[h]} /\ devs'[id[h]] = {}
      /\ \A q \in Pool : q # id[h] => devs'[q] = devs[q]
  BY <1>2 DEF WInv, RInv, IInv, TypeOK
<1>5. Frame(h) /\ \A n \in Name \ met : InOrder(n)'
  <2>1. RequestFrame(h)
    BY ProceedRequest
  <2>2. DiskFrame(h) /\ PathFrame(h)
    BY <1>3 DEF DiskFrame, PathFrame, media, boot
  <2>3. UuidFrame(h)
    BY <1>3 DEF UuidFrame, OneEach, Spanned, media, WInv, Orderly
  <2>4. TableFrame(h)
    BY <1>3, <1>4 DEF TableFrame
  <2>5. \A n \in Name \ met : InOrder(n)'
    BY <1>3 DEF InOrder, media, boot, WInv, Identified
  <2> QED  BY <1>1, <2>1, <2>2, <2>3, <2>4, <2>5 DEF Frame
<1>6. ASSUME at[h] \notin met
      PROVE  Own(h)'
  <2>1. Own(h) /\ storage[id[h]] = at[h] /\ want[h] = devs[id[h]]
    BY <1>6 DEF WInv, Held, Own, Settled, Dissolving
  <2>2. Settled(h)'
    BY <1>1, <1>3, <1>4, <2>1 DEF Settled, Dissolving, Dropped, Erasing
  <2>3. Dealt(h)'
    <3>1. \A q \in Pool \ {id[h]} : devs[id[h]] \cap devs[q] = {}
      BY <1>2, <1>6, <2>1 DEF WInv, Separate
    <3>2. want[h] \cap Registered' = {}
      BY <1>2, <1>4, <2>1, <3>1 DEF Registered, WInv, RInv, IInv, TypeOK
    <3> QED  BY <1>1, <2>1, <3>2 DEF Own, Dealt, Dropped, Erasing
  <2>4. Down(h)' /\ Built(h)'
    BY <1>1, <1>3, <2>1 DEF Own, Down, Built, Deleting, Erasing, boot
  <2> QED  BY <2>2, <2>3, <2>4 DEF Own
<1>7. at[h] \notin met => \A q \in sound : storage[q] # at[h]
  BY NoneStands
<1> QED  BY <1>3, <1>5, <1>6, <1>7, FrameWInv

\* The row of the storage goes, and the path is free.
LEMMA DropStorageWInv ==
    ASSUME WInv, RInv', met' = met, NEW h \in Handler, DropStorage(h)
    PROVE  WInv'
<1> USE DEF DropStorage, DeletePoolRow, At
<1>1. /\ LocalFrame(h) /\ pc'[h] = "unmounted" /\ op'[h] = op[h] /\ at'[h] = at[h]
      /\ id'[h] = id[h] /\ want'[h] = want[h] /\ todo'[h] = todo[h]
      /\ op[h] \in {"delete", "erase"}
  BY ProceedLocal DEF WInv, RInv, IInv, InPlace, Deleting
<1>2. id[h] \in Pool /\ at[h] \in Name
  BY <1>1, OpAssumption DEF WInv, RInv, IInv, InPlace, Op
<1>3. UNCHANGED <<media, boot>> /\ sound' = sound \ {id[h]}
  OBVIOUS
<1>4. /\ pool' = pool \ {id[h]} /\ devs'[id[h]] = {} /\ storage'[id[h]] = None
      /\ \A q \in Pool : q # id[h] => devs'[q] = devs[q] /\ storage'[q] = storage[q]
  BY <1>2 DEF WInv, RInv, IInv, TypeOK
<1>5. Frame(h) /\ \A n \in Name \ met : InOrder(n)'
  <2>1. RequestFrame(h)
    BY ProceedRequest
  <2>2. DiskFrame(h) /\ PathFrame(h)
    BY <1>3 DEF DiskFrame, PathFrame, media, boot
  <2>3. UuidFrame(h)
    BY <1>3 DEF UuidFrame, OneEach, Spanned, media, WInv, Orderly
  <2>4. TableFrame(h)
    BY <1>3, <1>4 DEF TableFrame
  <2>5. \A n \in Name \ met : InOrder(n)'
    BY <1>3 DEF InOrder, media, boot, WInv, Identified
  <2> QED  BY <1>1, <2>1, <2>2, <2>3, <2>4, <2>5 DEF Frame
<1>6. ASSUME at[h] \notin met
      PROVE  Own(h)'
  <2>1. Own(h) /\ storage[id[h]] = at[h]
    BY <1>6 DEF WInv, Held, Own, Settled
  <2>2. at[h] \notin Taken'
    BY <1>2, <1>4, <2>1, NoneAssumption DEF Taken, WInv, Orderly
  <2>3. Settled(h)'
    BY <1>1, <1>4, <2>2 DEF Settled, Dissolving, Dropped, Erasing
  <2>4. Dealt(h)'
    <3>1. Registered' \subseteq Registered
      BY <1>2, <1>4 DEF Registered, WInv, RInv, IInv, TypeOK
    <3> QED  BY <1>1, <2>1, <3>1 DEF Own, Dealt, Dropped, Erasing
  <2>5. Down(h)' /\ Built(h)'
    BY <1>1, <1>3, <2>1 DEF Own, Down, Built, Deleting, Erasing, boot
  <2> QED  BY <2>3, <2>4, <2>5 DEF Own
<1>7. at[h] \notin met => \A q \in sound : storage[q] # at[h]
  BY NoneStands
<1> QED  BY <1>3, <1>5, <1>6, <1>7, FrameWInv

\* btrfs replace: the filesystem mounted at the path gets the new device for the old one,
\* and is the same for whoever finds it by its uuid.
LEMMA ReplaceDeviceWInv ==
    ASSUME WInv, RInv', met' = met, NEW h \in Handler, ReplaceDevice(h)
    PROVE  WInv'
<1> USE DEF ReplaceDevice, At
<1>1. /\ LocalFrame(h) /\ pc'[h] = "record" /\ op'[h] = op[h] /\ at'[h] = at[h]
      /\ id'[h] = id[h] /\ want'[h] = want[h] /\ todo'[h] = todo[h] /\ old'[h] = old[h]
      /\ op[h] = "replace" /\ todo[h] = {}
  BY ProceedLocal DEF WInv, RInv, IInv, InPlace, Checked
<1>2. id[h] \in Pool /\ at[h] \in Name /\ want[h] \subseteq Claimed(h)
  BY <1>1, OpAssumption DEF WInv, RInv, IInv, InPlace, Op, Claimed
<1>3. UNCHANGED <<boot, tables, sound>>
  OBVIOUS
<1>4. PICK f \in {mount[at[h]]} \ {None}, d \in want[h] :
        /\ old[h] \in f.on /\ disk[old[h]] = f /\ d \notin f.on
        /\ disk' = [e \in Device |-> IF e = old[h] THEN None
                      ELSE IF e = d \/ disk[e] = f
                           THEN [f EXCEPT !.on = (@ \ {old[h]}) \cup {d}]
                      ELSE disk[e]]
        /\ mount' = [n \in Name |-> IF mount[n] = f
                        THEN [f EXCEPT !.on = (@ \ {old[h]}) \cup {d}] ELSE mount[n]]
  OBVIOUS
<1>5. f \in Filesystem /\ f = mount[at[h]] /\ d \in Device
  BY <1>2, <1>4 DEF WInv, RInv, IInv, TypeOK
<1>6. PICK g \in Filesystem :
        /\ g.uuid = f.uuid /\ g.data = f.data /\ g.on = (f.on \ {old[h]}) \cup {d}
        /\ \A e \in Device : disk'[e] = IF e = old[h] THEN None
                                      ELSE IF e = d \/ disk[e] = f THEN g ELSE disk[e]
        /\ \A n \in Name : mount'[n] = IF mount[n] = f THEN g ELSE mount[n]
  <2> DEFINE x == [f EXCEPT !.on = (@ \ {old[h]}) \cup {d}]
  <2>1. x \in Filesystem /\ x.uuid = f.uuid /\ x.data = f.data
        /\ x.on = (f.on \ {old[h]}) \cup {d}
    BY <1>5 DEF Filesystem
  <2>2. /\ disk' = [e \in Device |-> IF e = old[h] THEN None
                      ELSE IF e = d \/ disk[e] = f THEN x ELSE disk[e]]
        /\ mount' = [n \in Name |-> IF mount[n] = f THEN x ELSE mount[n]]
    BY <1>4
  <2> HIDE DEF x
  <2>3. \A e \in Device : disk'[e] = IF e = old[h] THEN None
                                  ELSE IF e = d \/ disk[e] = f THEN x ELSE disk[e]
    BY ONLY <2>2
  <2>4. \A n \in Name : mount'[n] = IF mount[n] = f THEN x ELSE mount[n]
    BY ONLY <2>2
  <2> QED  BY <2>1, <2>3, <2>4
<1>7. f \in Spanned /\ f # None
  BY <1>2, <1>5, RootAssumption DEF Spanned
<1>8. OneEach'
  <2>1. ASSUME NEW e \in Spanned' \cap Filesystem
        PROVE  e = g \/ (e \in Spanned /\ e # f)
    <3>1. CASE \E c \in Device : e = disk'[c]
      <4>1. PICK c \in Device : e = disk'[c]
        BY <3>1
      <4>2. e # None
        BY RootAssumption
      <4>3. e = g \/ (e = disk[c] /\ e # f)
        BY <1>4, <1>6, <4>1, <4>2
      <4> QED  BY <4>3 DEF Spanned
    <3>2. CASE \E n \in Name : e = mount'[n]
      BY <1>6, <3>2 DEF Spanned
    <3> QED  BY <3>1, <3>2 DEF Spanned
  <2>2. \A e \in Spanned' \cap Filesystem : e = g \/ e.uuid # g.uuid
    BY <1>5, <1>6, <1>7, <2>1 DEF WInv, Orderly
  <2> QED  BY <2>1, <2>2 DEF OneEach, WInv, Orderly
<1>9. Frame(h) /\ \A n \in Name \ met : InOrder(n)'
  <2>1. RequestFrame(h)
    BY ProceedRequest
  <2>2. DiskFrame(h)
    BY <1>2, <1>4, <1>5, <1>6, <1>7 DEF DiskFrame
  <2>3. UuidFrame(h)
    <3> SUFFICES ASSUME NEW e \in Device, disk'[e] \in Filesystem
                 PROVE  /\ e \in disk'[e].on
                        /\ \/ disk[e] \in Filesystem /\ disk'[e].uuid = disk[e].uuid
                           \/ /\ e \in want[h] /\ at[h] \in Name /\ mount[at[h]] # None
                              /\ disk'[e].uuid = mount[at[h]].uuid
      BY <1>8 DEF UuidFrame
    <3>1. e # old[h]
      BY <1>6, RootAssumption
    <3>2. CASE e = d
      BY <1>2, <1>5, <1>6, <1>7, <3>1, <3>2
    <3>3. CASE e # d /\ disk[e] = f
      <4>1. e \in f.on
        BY <1>5, <3>3 DEF WInv, Orderly
      <4> QED  BY <1>5, <1>6, <3>1, <3>3, <4>1
    <3>4. CASE e # d /\ disk[e] # f
      BY <1>6, <3>1, <3>4 DEF WInv, Orderly
    <3> QED  BY <3>2, <3>3, <3>4
  <2>4. PathFrame(h)
    BY <1>3, <1>6, <1>7 DEF PathFrame, boot
  <2>5. TableFrame(h)
    BY <1>3 DEF TableFrame, tables, WInv, Orderly
  <2>6. \A n \in Name \ met : InOrder(n)'
    BY <1>3, <1>6, <1>7 DEF InOrder, boot, WInv, Identified
  <2> QED  BY <1>1, <2>1, <2>2, <2>3, <2>4, <2>5, <2>6 DEF Frame
<1>10. ASSUME at[h] \notin met
       PROVE  Own(h) /\ id[h] \in pool /\ storage[id[h]] = at[h] /\ want[h] = {d}
  BY <1>1, <1>10 DEF WInv, Held, Own, Settled
<1>11. ASSUME at[h] \notin met, id[h] \in sound
       PROVE  Stocked(at[h], (devs[id[h]] \ {old[h]}) \cup want[h])'
  <2>1. Stocked(at[h], devs[id[h]])
    <3>1. Stands(id[h])
      BY <1>10, <1>11 DEF WInv, Standing
    <3> SUFFICES ASSUME NEW k \in Handler, id[k] = id[h], At(k, "record")
                 PROVE  FALSE
      BY <1>10, <1>11, <3>1 DEF Stands
    <3>2. storage[id[h]] = at[k] /\ k # h
      BY <1>2, <1>10, <1>11, NoneAssumption DEF WInv, Orderly
    <3> QED  BY <1>2, <1>10, <1>11, <3>2, NoneAssumption DEF WInv, Separate
  <2>2. PICK e \in Filesystem : Spans(e, at[h], devs[id[h]]) /\ e.data /\ enabled[at[h]]
    BY <2>1 DEF Stocked
  <2>3. e = f
    BY <1>2, <1>5, <1>7, <1>11, <2>2, MountedSpans
  <2>4. /\ f.on = devs[id[h]] /\ unit[at[h]] = f.uuid /\ f.data
        /\ \A c \in f.on : disk[c] = f /\ c \in Device
    BY <2>2, <2>3 DEF Spans, Mountable, Filesystem
  <2>5. Spans(g, at[h], (devs[id[h]] \ {old[h]}) \cup want[h])'
    <3>1. \A c \in g.on : disk'[c] = g
      BY <1>4, <1>5, <1>6, <2>4
    <3> QED  BY <1>1, <1>3, <1>6, <1>10, <1>11, <2>4, <3>1
             DEF Spans, Mountable, boot, tables
  <2> QED  BY <1>1, <1>3, <1>6, <2>2, <2>4, <2>5 DEF Stocked, boot
<1>12. ASSUME at[h] \notin met
       PROVE  Own(h)'
  <2>1. Settled(h)'
    BY <1>1, <1>3, <1>10, <1>12
       DEF Own, Settled, Taken, Dissolving, Dropped, Erasing, tables
  <2>2. Dealt(h)'
    BY <1>1, <1>3, <1>10, <1>12 DEF Own, Dealt, Registered, Dropped, Erasing, tables
  <2>3. Down(h)' /\ Built(h)'
    BY <1>1, <1>3, <1>11, <1>12 DEF Down, Built, Deleting, Erasing
  <2> QED  BY <2>1, <2>2, <2>3 DEF Own
<1>13. ASSUME at[h] \notin met, NEW p \in sound', storage[p] = at[h]
       PROVE  Stands(p)'
  <2>1. p \in pool /\ p \in Pool
    BY <1>3, <1>13 DEF WInv, Orderly, RInv, IInv, TypeOK
  <2>2. p = id[h]
    BY <1>2, <1>10, <1>13, <2>1, NoneAssumption DEF WInv, Orderly
  <2> QED  BY <1>1, <1>3, <2>1, <2>2 DEF Stands, tables
<1> QED  BY <1>3, <1>9, <1>12, <1>13, FrameWInv

\* UpdateDevice records what was swapped, and the pool stands again.
LEMMA UpdateDeviceWInv ==
    ASSUME WInv, RInv', met' = met, NEW h \in Handler, UpdateDevice(h)
    PROVE  WInv'
<1> USE DEF UpdateDevice, At
<1>1. op[h] = "replace" /\ todo[h] = {}
  BY DEF WInv, RInv, IInv, InPlace, Checked
<1>2. id[h] \in Pool /\ at[h] \in Name /\ Claimed(h) = want[h]
  BY <1>1, OpAssumption DEF WInv, RInv, IInv, InPlace, Op, Claimed
<1>3. LocalFrame(h) /\ RequestFrame(h) /\ at'[h] = None
  BY ReturnRequest DEF WInv, RInv, IInv
<1>4. want'[h] = {}
  BY DEF WInv, RInv, IInv, TypeOK, Return
<1>5. UNCHANGED <<media, boot, storage, pool, sound>>
  OBVIOUS
<1>6. /\ \/ /\ old[h] \in devs[id[h]]
            /\ devs'[id[h]] = (devs[id[h]] \ {old[h]}) \cup want[h]
         \/ old[h] \notin devs[id[h]] /\ devs'[id[h]] = devs[id[h]]
      /\ \A q \in Pool : q # id[h] => devs'[q] = devs[q]
  BY <1>2 DEF WInv, RInv, IInv, TypeOK
<1>7. Frame(h) /\ \A n \in Name \ met : InOrder(n)'
  <2>1. DiskFrame(h) /\ PathFrame(h)
    BY <1>5 DEF DiskFrame, PathFrame, media, boot
  <2>2. UuidFrame(h)
    BY <1>5 DEF UuidFrame, OneEach, Spanned, media, WInv, Orderly
  <2>3. old[h] \in devs[id[h]] => storage[id[h]] = at[h]
    BY <1>2 DEF WInv, Orderly, RInv, IInv, TypeOK
  <2>4. TableFrame(h)
    BY <1>2, <1>4, <1>5, <1>6, <2>3 DEF TableFrame, WInv, Orderly
  <2>5. \A n \in Name \ met : InOrder(n)'
    BY <1>5 DEF InOrder, media, boot, WInv, Identified
  <2> QED  BY <1>3, <2>1, <2>2, <2>4, <2>5 DEF Frame
<1>8. ASSUME at[h] \notin met, NEW p \in sound', storage[p] = at[h]
      PROVE  Stands(p)'
  <2>1. /\ id[h] \in pool /\ storage[id[h]] = at[h] /\ old[h] \in devs[id[h]]
        /\ Built(h)
    BY <1>1, <1>8 DEF WInv, Held, Own, Settled
  <2>2. p \in pool /\ p \in Pool
    BY <1>5, <1>8 DEF WInv, Orderly, RInv, IInv, TypeOK
  <2>3. p = id[h]
    BY <1>2, <1>8, <2>1, <2>2, NoneAssumption DEF WInv, Orderly
  <2>4. Stocked(storage[p], (devs[p] \ {old[h]}) \cup want[h])
    BY <1>5, <1>8, <2>1, <2>3 DEF Built
  <2>5. storage'[p] = storage[p] /\ devs'[p] = (devs[p] \ {old[h]}) \cup want[h]
    BY <1>5, <1>6, <2>1, <2>3
  <2>6. Stocked(storage[p], devs[p])'
    BY <1>5, <2>4, <2>5 DEF Stocked, Spans, Mountable, media, boot
  <2> QED  BY <1>5, <2>2, <2>6 DEF Stands
<1> QED  BY <1>3, <1>5, <1>7, <1>8, FrameWInv

\* When the process dies no request is left, and what stood still stands.
LEMMA DieWInv ==
    ASSUME WInv, RInv', Die, met' = met, UNCHANGED <<disk, boot, tables>>,
           Spanned' \cap Filesystem \subseteq Spanned, Identified'
    PROVE  WInv'
<1> USE DEF Die
<1>1. \A h \in Handler : /\ pc'[h] = "idle" /\ op'[h] = None /\ at'[h] = None
                         /\ id'[h] = None /\ want'[h] = {}
  OBVIOUS
<1>2. Orderly'
  <2>1. sound' \subseteq sound
    OBVIOUS
  <2> QED  BY <1>1, <2>1, NoneAssumption DEF Orderly, WInv, At, tables
<1>3. Separate'
  BY <1>1 DEF WInv, Separate, Claimed, tables
<1>4. Held'
  BY <1>1, IdleOwn DEF Held, RInv
<1>5. Standing'
  <2> SUFFICES ASSUME NEW p \in sound', storage'[p] \notin met'
               PROVE  Stands(p)'
    BY DEF Standing
  <2>1. p \in sound /\ \A h \in Handler : id[h] = p => ~ At(h, "record")
    BY DEF At
  <2>2. p \in pool /\ Stocked(storage[p], devs[p])
    BY <2>1 DEF WInv, Standing, Stands, tables
  <2>3. Stocked(storage[p], devs[p])'
    BY <2>2 DEF Stocked, Spans, Mountable, boot, tables
  <2> QED  BY <2>2, <2>3 DEF Stands, tables
<1> QED  BY <1>2, <1>3, <1>4, <1>5 DEF WInv

\* A crash leaves the media as they are.
LEMMA CrashWInv ==
    ASSUME WInv, RInv', met' = met, Crash
    PROVE  WInv'
<1>1. Identified'
  <2>1. \A k \in Handler : ~ At(k, "unit")'
    BY DEF Crash, Die, At
  <2> QED  BY <2>1 DEF Crash, WInv, Identified, InOrder, media, boot
<1> QED  BY <1>1, DieWInv DEF Crash, Spanned, media

\* A boot mounts at each path what the unit of the path names.
LEMMA RebootWInv ==
    ASSUME WInv, RInv', met' = met, Reboot
    PROVE  WInv'
<1>1. UNCHANGED <<disk, boot, tables>> /\ Die
  BY DEF Reboot
<1>2. \A n \in Name : mount'[n] # None =>
        enabled[n] /\ mount'[n].uuid = unit[n] /\ mount'[n] \in {disk[d] : d \in Device}
  BY DEF Reboot, Named
<1>3. Spanned' \cap Filesystem \subseteq Spanned
  BY <1>1, <1>2, RootAssumption DEF Spanned
<1>4. Identified'
  <2>1. \A k \in Handler : ~ At(k, "unit")'
    BY <1>1 DEF Die, At
  <2>2. \A n \in Name \ met : InOrder(n)'
    BY <1>1, <1>2 DEF InOrder, boot, WInv, Identified
  <2> QED  BY <1>1, <1>2, <2>1, <2>2 DEF Identified, InOrder, boot, WInv
<1> QED  BY <1>1, <1>3, <1>4, DieWInv

\* A step that changes nothing keeps everything.
LEMMA StutterWInv ==
    ASSUME WInv, RInv', UNCHANGED vars
    PROVE  WInv'
<1> USE DEF vars, media, boot, tables, locals
<1>1. Orderly' /\ Separate' /\ Identified'
  BY DEF WInv, Orderly, Separate, Identified, InOrder, Spanned, At, Claimed
<1>2. Held'
  <2> SUFFICES ASSUME NEW h \in Handler, at[h] \notin met
               PROVE  Own(h)'
    BY DEF Held
  <2>1. Own(h)
    BY DEF WInv, Held
  <2>2. Settled(h)' /\ Dealt(h)' /\ Down(h)'
    BY <2>1 DEF Own, Settled, Dealt, Down, Dropped, Erasing, At, Taken, Registered
  <2>3. Built(h)'
    BY <2>1 DEF Own, Built, At, Marked, Carries, Stocked, Spans, Mountable
  <2> QED  BY <2>2, <2>3 DEF Own
<1>3. Standing'
  BY DEF WInv, Standing, Stands, Stocked, Spans, Mountable, At
<1> QED  BY <1>1, <1>2, <1>3 DEF WInv

\* At the start there is nothing to rely on.
LEMMA InitWInv == Init => WInv
<1> SUFFICES ASSUME Init PROVE WInv
  OBVIOUS
<1> USE DEF Init
<1>1. RInv
  BY InitRInv
<1>2. Orderly
  BY NoneAssumption, RootAssumption DEF Orderly, Spanned
<1>3. Separate
  BY DEF Separate, Claimed
<1>4. Identified
  BY DEF Identified, InOrder, At
<1>5. Held
  BY OpAssumption
     DEF Held, Own, Settled, Dealt, Down, Built, Dissolving, Dropped, Erasing, At,
         Deleting, Op
<1>6. Standing
  BY DEF Standing
<1> QED  BY <1>1, <1>2, <1>3, <1>4, <1>5, <1>6 DEF WInv

-----------------------------------------------------------------------------
(* The theorems about the names where requests have not met.               *)

\* Every step keeps the invariant.
LEMMA NextWInv ==
    ASSUME WInv, [Next]_vars
    PROVE  WInv'
<1>1. RInv'
  BY NextRInv DEF WInv
<1>2. CASE \E h \in Handler : Request(h) /\ Meet(h)
  BY <1>1, <1>2, BeginWInv
<1>3. CASE \E h \in Handler : (Step(h) \/ Fail(h)) /\ Overtake(h)
  <2>1. PICK h \in Handler : (Step(h) \/ Fail(h)) /\ met' = met
    BY <1>3 DEF Overtake
  <2>2. CASE Step(h)
    BY <1>1, <2>1, <2>2, LookupWInv, FindStaleWInv, CleanupStaleWInv,
       EnsureAvailableWInv, CheckDeviceWInv, FreeDeviceWInv, WipeCheckedWInv,
       WipeOwnWInv, PreparedWInv, MakeFilesystemWInv, WriteUnitWInv, EnableWInv,
       StartWInv, InitializeLayoutWInv, AddStorageWInv, AddPoolWInv, RefreshWInv,
       DeleteSubvolumesWInv, DismountWInv, DisableUnitWInv, RemoveUnitWInv,
       DropPoolWInv, DropStorageWInv, FindUnmountedWInv, CleanupMountPathWInv,
       ReplaceDeviceWInv, UpdateDeviceWInv
       DEF Step
  <2> QED  BY <1>1, <2>1, <2>2, FailWInv
<1>4. CASE (Crash \/ Reboot) /\ UNCHANGED <<met, overtaken>>
  BY <1>1, <1>4, CrashWInv, RebootWInv
<1>5. CASE UNCHANGED vars
  BY <1>1, <1>5, StutterWInv
<1> QED  BY <1>2, <1>3, <1>4, <1>5 DEF Next

\* Whatever other requests do and however they meet, a request that has itself met none
\* finds the rows, devices and paths that it relies on as it has left them, also where
\* earlier ones have failed: nothing holds a lock between the statements and commands of
\* create.go, format.go, delete.go and replace.go, and this is how far that can reach.
THEOREM SeparateInvariance == Spec => []WInv
<1>1. WInv /\ [Next]_vars => WInv'
  BY NextWInv
<1> QED  BY InitWInv, <1>1, PTL DEF Spec

\* A pool whose creation or format was answered with success stays whole (create.go:136,
\* format.go:153), unless requests have met at its name or at one of its devices: what is
\* mounted at its path, if anything is, is the filesystem on its registered devices, with
\* its data, and a boot will mount the same.
THEOREM PoolsStaySound == Spec => []SoundPools
<1>1. WInv => SoundPools
  <2> SUFFICES ASSUME WInv, NEW p \in sound, storage[p] \notin met,
                      ~ \E h \in Handler : id[h] = p /\ At(h, "record")
               PROVE  Whole(p)
    BY DEF SoundPools
  <2>1. p \in pool /\ p \in Pool /\ storage[p] \in Name
    BY DEF WInv, Orderly, RInv, IInv, TypeOK
  <2>2. PICK f \in Filesystem : /\ Spans(f, storage[p], devs[p]) /\ f.data
                               /\ enabled[storage[p]]
    BY DEF WInv, Standing, Stands, Stocked
  <2>3. mount[storage[p]] \in {None, f}
    BY <2>1, <2>2, MountedSpans
  <2>4. f \in {disk[d] : d \in devs[p]}
    BY <2>2 DEF Spans, Mountable
  <2> QED  BY <2>1, <2>2, <2>3, <2>4 DEF Whole, Spans
<1> QED  BY SeparateInvariance, <1>1, PTL

\* A deletion that has come to the path of the pool (delete.go:82) and has met no other
\* request leaves no unit, no mount and no row there, and the devices that it has wiped
\* stay so.
THEOREM DeletionsAreClean == Spec => []DeletedClean
<1>1. WInv => DeletedClean
  <2> SUFFICES ASSUME WInv, NEW h \in Handler, At(h, "purge") \/ Erasing(h), at[h] \notin met
               PROVE  /\ unit[at[h]] = None /\ ~ enabled[at[h]] /\ mount[at[h]] = None
                      /\ at[h] \notin Taken /\ id[h] \notin pool
                      /\ At(h, "wipe") => \A d \in want[h] \ todo[h] : disk[d] = None
    BY DEF DeletedClean, Erasing
  <2>1. op[h] \in {"delete", "erase"} /\ at[h] \in Name /\ id[h] \in Pool
    BY OpAssumption DEF WInv, RInv, IInv, InPlace, Deleting, Op, At, Erasing
  <2>2. Dropped(h) /\ Own(h)
    BY DEF Dropped, At, WInv, Held
  <2>3. storage[id[h]] = None /\ at[h] \notin Taken
    BY <2>2 DEF Own, Settled
  <2>4. unit[at[h]] = None /\ mount[at[h]] = None
    BY <2>1, <2>2 DEF Own, Down, Deleting, At, Erasing
  <2>5. ~ enabled[at[h]]
    BY <2>1, <2>4 DEF WInv, Identified, InOrder
  <2>6. id[h] \notin pool
    BY <2>3 DEF WInv, RInv, IInv, TypeOK
  <2>7. At(h, "wipe") => \A d \in want[h] \ todo[h] : disk[d] = None
    BY <2>2 DEF Own, Dealt, Erasing, At
  <2> QED  BY <2>3, <2>4, <2>5, <2>6, <2>7
<1> QED  BY SeparateInvariance, <1>1, PTL
=============================================================================
