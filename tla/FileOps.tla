------------------------------- MODULE FileOps -------------------------------
(***************************************************************************)
(* What requests do to the tree of files of a storage                      *)
(* (internal/files/operations.go, folders.go, trash.go, store.go, and the  *)
(* end of an upload in uploads.go).                                        *)
(*                                                                         *)
(* A request looks whether its target is free, removes what is there when  *)
(* it is asked to, and moves or copies; a deletion renames into the trash, *)
(* writes a row, and renames back when it cannot.  A path is resolved anew *)
(* at each step, nothing is locked, and every step may fail.               *)
(*                                                                         *)
(* Files and folders have an identity: place tells in which folder, under  *)
(* which name an item is.  Paths are at most two names long.  The stats of *)
(* a source and of a parent, which only refuse early what fails later, are *)
(* left out, and so are the name, type and size in a row of the trash, the *)
(* files in a copied folder, and favourites, which nothing adds.           *)
(*                                                                         *)
(* A definition named Slip... is a plausible fault of the definition after *)
(* it, substituted to see that a property notices.                         *)
(***************************************************************************)
EXTENDS Naturals

CONSTANTS Request,      \* requests at a time
          File, Folder, \* items, stored or not
          Name,         \* of items in a folder
          Root, Bin,    \* the root of the storage, its folder .trash
          None

Item == File \cup Folder
Path == ({Root} \cup Name) \X Name  \* a name in the root, or in a folder of it
Spot == ({Root} \cup Folder) \X Name

ASSUME KindAssumption == File \cap Folder = {}
ASSUME RootAssumption == Root \notin Name \cup Item
ASSUME NoneAssumption == None \notin Item \cup {Root}
ASSUME BinAssumption == Bin # None /\ Bin \notin Spot /\ None \notin Spot

VARIABLES
    place,              \* of each item: a spot, the trash, or none
    recorded,           \* the items that recycle_bin has a row of
    pc, source, target, \* of each request: where it stands and on which paths,
    op, what,           \* whether it moves or copies, what it has put in the trash
    safe,               \* history: the items that it found, was not asked to
                        \* overwrite, and nobody has moved since
    stranded            \* history: items left in the trash without a row

tree == <<place, recorded, stranded>>
req  == <<source, target, op, what>>
vars == <<tree, pc, req, safe>>

Init ==
    /\ place \in [Item -> {None} \cup ({Root} \X Name)]
    /\ \A i, j \in Item : place[i] = place[j] => i = j \/ place[i] = None
    /\ recorded = {} /\ stranded = {}
    /\ pc = [r \in Request |-> "idle"]
    /\ source = [r \in Request |-> None] /\ target = [r \in Request |-> None]
    /\ op = [r \in Request |-> "move"] /\ what = [r \in Request |-> None]
    /\ safe = [r \in Request |-> {}]

-----------------------------------------------------------------------------
(* Paths and the tree.                                                     *)

At(r, point) == pc[r] = point
Goto(r, point) == pc' = [pc EXCEPT ![r] = point]

Stored == {i \in Item : place[i] # None}
Parent(i) == IF place[i] \in {None, Bin} THEN None ELSE place[i][1]
Empty(i) == \A j \in Item : Parent(j) # i
\* An item and what is below it: the smallest set with both.
Below(i) ==
    {j \in Item : \A S \in SUBSET Item :
        i \in S /\ (\A k \in Item : Parent(k) \in S => k \in S) => j \in S}

\* What a path leads to; isPathWithinRoot of two paths.
Dirs(p) == IF p[1] = Root THEN {Root}
                          ELSE {d \in Folder : place[d] = <<Root, p[1]>>}
Found(p) == {i \in Item : \E d \in Dirs(p) : place[i] = <<d, p[2]>>}
Within(p, q) == q = p \/ (p[1] = Root /\ q[1] = p[2])

SameKind(i, j) == i \in File <=> j \in File

\* An item comes to a spot, and replaces there a file, or an empty folder, of its
\* own kind: rename(2).
Yields(i, spot) ==
    /\ spot[1] \notin Below(i)
    /\ \A j \in Item : place[j] = spot => j # i /\ SameKind(i, j) /\ Empty(j)
Arrive(i, spot) ==
    place' = [j \in Item |-> IF j = i THEN spot
                             ELSE IF place[j] = spot THEN None ELSE place[j]]
\* Where rename, or mv and cp, which go into a folder, put an item named base.
Spots(p, base) ==
    {<<d, p[2]>> : d \in Dirs(p)} \cup {<<o, base>> : o \in Found(p) \cap Folder}

\* Everybody forgets that the items of M were where they are.
Touch(M) == safe' = [r \in Request |-> safe[r] \ M]
\* A request ends.
EndReq(r) ==
    /\ Goto(r, "idle")
    /\ source' = [source EXCEPT ![r] = None] /\ target' = [target EXCEPT ![r] = None]
    /\ op' = [op EXCEPT ![r] = "move"] /\ what' = [what EXCEPT ![r] = None]
EndTouch(r, M) ==
    /\ EndReq(r)
    /\ safe' = [q \in Request |-> IF q = r THEN {} ELSE safe[q] \ M]
Fail(r) == EndTouch(r, {}) /\ UNCHANGED tree

-----------------------------------------------------------------------------
(* Rename, move and copy.                                                  *)

\* What the request goes on with: the target, and whether it is to be removed.
Proceed(r, o, s, t, point, asked) ==
    /\ s # t /\ ~ Within(s, t)
    /\ Goto(r, point)
    /\ source' = [source EXCEPT ![r] = s] /\ target' = [target EXCEPT ![r] = t]
    /\ op' = [op EXCEPT ![r] = o]
    /\ safe' = [safe EXCEPT ![r] = Stored \ asked]
    /\ UNCHANGED <<tree, what>>
Swept(p) == UNION {Below(i) : i \in Found(p)}

\* resolveConflictTarget, nextAvailablePath
Check(r, o, s, t, policy) ==
    \/ Found(t) = {} /\ Proceed(r, o, s, t, o, {})
    \/ /\ Found(t) # {} /\ policy = "overwrite"
       /\ Proceed(r, o, s, t, "remove", Swept(t))
    \/ /\ Found(t) # {} /\ policy = "rename" /\ s # t
       /\ \E n \in Name :
             Found(<<t[1], n>>) = {} /\ Proceed(r, o, s, <<t[1], n>>, o, {})

HandleRename(r) ==
    /\ At(r, "idle")
    /\ \E s, t \in Path : s[1] = t[1] /\ Check(r, "move", s, t, "error")
HandleMove(r) ==
    /\ At(r, "idle")
    /\ \E s, t \in Path, policy \in {"error", "overwrite", "rename"} :
          Check(r, "move", s, t, policy)
HandleCopy(r) ==
    /\ At(r, "idle")
    /\ \E s, t \in Path, policy \in {"error", "overwrite", "rename"} :
          Check(r, "copy", s, t, policy)

\* removePath: what is at the target, with what is below it, or only a part.
Remove(gone) == place' = [i \in Item |-> IF i \in gone THEN None ELSE place[i]]
removePath(r) ==
    /\ At(r, "remove")
    /\ \E gone \in SUBSET Swept(target[r]) :
          /\ \A i \in gone, j \in Item : Parent(j) = i => j \in gone
          /\ Remove(gone)
          /\ IF gone = Swept(target[r])
               THEN Goto(r, op[r]) /\ Touch(gone) /\ UNCHANGED req
               ELSE EndTouch(r, gone)
    /\ UNCHANGED <<recorded, stranded>>

\* movePath: rename, or mv when that is not permitted.
movePath(r) ==
    /\ At(r, "move")
    /\ \/ /\ \E i \in Found(source[r]), spot \in Spots(target[r], source[r][2]) :
                /\ Yields(i, spot) /\ Arrive(i, spot)
                /\ EndTouch(r, Below(i) \cup {j \in Item : place[j] = spot})
          /\ UNCHANGED <<recorded, stranded>>
       \/ Fail(r)

\* An item that is not stored comes to be.
Appear(i, spot) == place[i] = None /\ Yields(i, spot) /\ Arrive(i, spot)
\* copyPath: cp -a.
copyPath(r) ==
    /\ At(r, "copy")
    /\ \/ /\ \E i \in Found(source[r]), j \in Item,
                spot \in Spots(target[r], source[r][2]) :
                /\ SameKind(i, j) /\ Appear(j, spot)
                /\ EndTouch(r, {j} \cup {k \in Item : place[k] = spot})
          /\ UNCHANGED <<recorded, stranded>>
       \/ Fail(r)

-----------------------------------------------------------------------------
(* The trash.                                                              *)

\* HandleDelete: a new name in the trash.
HandleDelete(r) ==
    /\ At(r, "idle")
    /\ \E p \in Path : \E i \in Found(p) :
          /\ place' = [place EXCEPT ![i] = Bin]
          /\ source' = [source EXCEPT ![r] = p] /\ what' = [what EXCEPT ![r] = i]
          /\ safe' = [q \in Request |->
                        (IF q = r THEN Stored ELSE safe[q]) \ Below(i)]
    /\ Goto(r, "record") /\ UNCHANGED <<recorded, stranded, target, op>>

SlipAddRecycleBinItem(r) ==
    /\ At(r, "record")
    /\ \/ recorded' = recorded \cup {what[r]} \/ UNCHANGED recorded
    /\ EndTouch(r, {}) /\ UNCHANGED <<place, stranded>>
SlipDeleteFavorite(r) ==
    /\ At(r, "record")
    /\ \/ recorded' = recorded \cup {what[r]} \/ UNCHANGED recorded
    /\ Goto(r, "back") /\ UNCHANGED <<place, stranded, req, safe>>
AddRecycleBinItem(r) ==
    /\ At(r, "record")
    /\ \/ /\ recorded' = recorded \cup {what[r]}
          /\ EndTouch(r, {}) /\ UNCHANGED <<place, stranded>>
       \/ Goto(r, "back") /\ UNCHANGED <<tree, req, safe>>

\* The rename back, its error ignored.
RollBack(r) ==
    /\ At(r, "back")
    /\ \/ /\ \E d \in Dirs(source[r]) : LET spot == <<d, source[r][2]>> IN
                /\ Yields(what[r], spot) /\ Arrive(what[r], spot)
                /\ EndTouch(r, Below(what[r]) \cup {j \in Item : place[j] = spot})
          /\ UNCHANGED <<recorded, stranded>>
       \/ /\ stranded' = stranded \cup {what[r]}
          /\ EndTouch(r, {}) /\ UNCHANGED <<place, recorded>>

-----------------------------------------------------------------------------
(* New folders and files.                                                  *)

\* mkdir
HandleCreateFolder ==
    /\ \E p \in Path, i \in Folder : \E d \in Dirs(p) :
          /\ Found(p) = {} /\ Appear(i, <<d, p[2]>>) /\ Touch({i})
    /\ UNCHANGED <<recorded, stranded, pc, req>>

\* The end of an upload: createFolderAll, the check of the target, and the move of
\* the temporary file.
Upload(r) ==
    /\ At(r, "idle")
    /\ \E t \in Path :
          /\ target' = [target EXCEPT ![r] = t]
          /\ \/ Dirs(t) # {} /\ UNCHANGED <<place, safe>>
             \/ /\ Dirs(t) = {}
                /\ \E d \in Folder : LET spot == <<Root, t[1]>> IN
                      /\ \A i \in Item : place[i] # spot
                      /\ Appear(d, spot) /\ Touch({d})
    /\ Goto(r, "stat") /\ UNCHANGED <<recorded, stranded, source, op, what>>
SlipStatTarget(r) ==
    /\ At(r, "stat")
    /\ safe' = [safe EXCEPT ![r] = Stored]
    /\ Goto(r, "persist") /\ UNCHANGED <<tree, req>>
StatTarget(r) ==
    /\ At(r, "stat")
    /\ \/ /\ Found(target[r]) = {}
          /\ safe' = [safe EXCEPT ![r] = Stored]
          /\ Goto(r, "persist") /\ UNCHANGED <<tree, req>>
       \/ Fail(r)
persistUploadedFile(r) ==
    /\ At(r, "persist")
    /\ \/ /\ \E i \in File, n \in Name : \E spot \in Spots(target[r], n) :
                /\ Appear(i, spot)
                /\ EndTouch(r, {i} \cup {j \in Item : place[j] = spot})
          /\ UNCHANGED <<recorded, stranded>>
       \/ Fail(r)

-----------------------------------------------------------------------------
\* The process dies.
Crash ==
    /\ \E r \in Request : ~ At(r, "idle")
    /\ stranded' = stranded \cup
         {what[r] : r \in {q \in Request : At(q, "record") \/ At(q, "back")}}
    /\ pc' = [r \in Request |-> "idle"]
    /\ source' = [r \in Request |-> None] /\ target' = [r \in Request |-> None]
    /\ op' = [r \in Request |-> "move"] /\ what' = [r \in Request |-> None]
    /\ safe' = [r \in Request |-> {}]
    /\ UNCHANGED <<place, recorded>>

Step(r) ==
    \/ HandleRename(r) \/ HandleMove(r) \/ HandleCopy(r)
    \/ removePath(r) \/ movePath(r) \/ copyPath(r)
    \/ HandleDelete(r) \/ AddRecycleBinItem(r) \/ RollBack(r)
    \/ Upload(r) \/ StatTarget(r) \/ persistUploadedFile(r)
Next == (\E r \in Request : Step(r)) \/ HandleCreateFolder \/ Crash

Spec == Init /\ [][Next]_vars
-----------------------------------------------------------------------------
Point == {"idle", "remove", "move", "copy", "record", "back", "stat", "persist"}
TypeOK ==
    /\ place \in [Item -> Spot \cup {Bin, None}]
    /\ recorded \subseteq Item /\ stranded \subseteq Item
    /\ pc \in [Request -> Point]
    /\ source \in [Request -> Path \cup {None}]
    /\ target \in [Request -> Path \cup {None}]
    /\ op \in [Request -> {"move", "copy"}]
    /\ what \in [Request -> Item \cup {None}]
    /\ safe \in [Request -> SUBSET Item]

\* Whatever happens between the check of a request and its end, it destroys no item
\* that it found and was not asked to overwrite: only what has come to its target
\* since, by a step of somebody else (resolveConflictTarget, HandleTusPatch, the
\* rename back of HandleDelete).
OnlyNewcomersLost ==
    [][\A r \in Request, i \in Item :
         pc'[r] # pc[r] /\ place[i] # None /\ place'[i] = None => i \notin safe[r]]_vars

\* What the trash lists is in it: no request takes a file from under its row.
RecordedInTrash == \A i \in recorded : place[i] = Bin

\* What is in the trash is listed, unless the process died or the rename back failed
\* before its row was written: a deletion that fails has not hidden its file.
NothingStranded ==
    \A i \in Item : place[i] = Bin =>
       \/ i \in recorded \cup stranded
       \/ \E r \in Request : (At(r, "record") \/ At(r, "back")) /\ what[r] = i

\* What each request relies on: it is aimed at nothing that it would not destroy, and
\* of what it keeps safe it also keeps the folders.
Aim(r) == IF pc[r] \in {"record", "back"} THEN source[r] ELSE target[r]
Ready(r) ==
    /\ pc[r] \in {"remove", "move", "copy", "record", "back"} => source[r] \in Path
    /\ pc[r] \in {"remove", "move", "copy", "stat", "persist"} => target[r] \in Path
    /\ pc[r] \in {"record", "back"} =>
          what[r] \in Item /\ place[what[r]] = Bin /\ what[r] \notin recorded
    /\ pc[r] \in {"idle", "stat"} => safe[r] = {}
Clear(r) == pc[r] \notin {"idle", "stat"} => Found(Aim(r)) \cap safe[r] = {}
Kept(r) ==
    \A i \in safe[r] : place[i] # None /\ Parent(i) \in {None, Root} \cup safe[r]
Good(r) == Ready(r) /\ Clear(r) /\ Kept(r)
Apart ==
    \A q, r \in Request :
       {pc[q], pc[r]} \subseteq {"record", "back"} /\ what[q] = what[r] => q = r
Rooted == \A i \in Item : Parent(i) \in Folder => place[Parent(i)] # None
Alone == \A i, j \in Item : place[i] = place[j] /\ place[i] \in Spot => i = j
Sound == Rooted /\ Alone
IInv ==
    /\ TypeOK /\ Sound /\ Apart /\ RecordedInTrash /\ NothingStranded
    /\ \A r \in Request : Good(r)
=============================================================================
