---------------------------- MODULE FileOpsProofs ----------------------------
(***************************************************************************)
(* Proofs about the operations on files, for any requests, files, folders  *)
(* and names.                                                              *)
(*                                                                         *)
(* A step changes the places of a set of items that is closed under what   *)
(* is below it; whoever else relied on the tree forgets that set, and what *)
(* is left of it keeps its path.                                           *)
(***************************************************************************)
EXTENDS FileOps, TLAPS

Closed(M) == \A k \in Item : Parent(k) \in M => k \in M
Change(M) ==
    /\ M \in SUBSET Item /\ Closed(M)
    /\ \A i \in Item \ M : place'[i] = place[i]

-----------------------------------------------------------------------------
(* The tree.                                                               *)

LEMMA BelowSelf == ASSUME NEW i \in Item PROVE i \in Below(i) /\ Below(i) \subseteq Item
BY DEF Below

LEMMA BelowClosed == ASSUME NEW i \in Item PROVE Closed(Below(i))
BY DEF Below, Closed

\* A closed set that has an item has what is below it.
LEMMA BelowLeast ==
    ASSUME NEW S \in SUBSET Item, Closed(S), NEW i \in S
    PROVE  Below(i) \subseteq S
BY DEF Below, Closed

LEMMA Parents ==
    ASSUME TypeOK, NEW i \in Item
    PROVE  /\ place[i] \in Spot => Parent(i) = place[i][1] /\ Parent(i) \in {Root} \cup Folder
           /\ place[i] \in {None, Bin} => Parent(i) = None
           /\ Parent(i) \in {None, Root} \cup Folder
BY BinAssumption DEF TypeOK, Parent, Spot

LEMMA Members ==
    ASSUME NEW p \in Path, NEW i \in Found(p)
    PROVE  /\ i \in Item /\ place[i][1] \in Dirs(p) /\ place[i] \in Spot
           /\ place[i] # None /\ place[i] # Bin
<1>1. PICK d \in Dirs(p) : place[i] = <<d, p[2]>> BY DEF Found
<1>2. d \in {Root} \cup Folder /\ p[2] \in Name BY DEF Dirs, Path
<1>3. place[i] \in Spot BY <1>1, <1>2 DEF Spot
<1>4. QED BY <1>1, <1>3, BinAssumption DEF Found

\* What is put somewhere is put into the root or into a folder that is stored.
LEMMA SpotsStored ==
    ASSUME TypeOK, NEW p \in Path, NEW base \in Name, NEW spot \in Spots(p, base)
    PROVE  /\ spot \in Spot /\ spot[1] \in {Root} \cup Folder
           /\ spot[1] # Root => place[spot[1]] # None
<1>1. CASE \E d \in Dirs(p) : spot = <<d, p[2]>>
  <2>1. PICK d \in Dirs(p) : spot = <<d, p[2]>> BY <1>1
  <2>2. d = Root \/ (d \in Folder /\ place[d] = <<Root, p[1]>>) BY DEF Dirs
  <2>3. p[2] \in Name /\ p[1] \in {Root} \cup Name BY DEF Path
  <2>4. d = Root \/ place[d] # None
    <3>1. CASE d = Root BY <3>1
    <3>2. CASE d # Root
      <4>1. p[1] # Root BY <3>2 DEF Dirs
      <4>2. place[d] \in Spot BY <2>2, <2>3, <3>2, <4>1 DEF Spot
      <4>3. QED BY <4>2, BinAssumption
    <3>3. QED BY <3>1, <3>2
  <2>5. spot \in Spot BY <2>1, <2>2, <2>3 DEF Spot
  <2>6. QED BY <2>1, <2>2, <2>4, <2>5
<1>2. CASE \E o \in Found(p) \cap Folder : spot = <<o, base>>
  <2>1. PICK o \in Found(p) \cap Folder : spot = <<o, base>> BY <1>2
  <2>2. place[o] # None BY Members
  <2>3. QED BY <2>1, <2>2 DEF Spot
<1>3. QED BY <1>1, <1>2 DEF Spots

\* An item that comes to a spot changes what is below it and what it replaces.
LEMMA ArriveChange ==
    ASSUME TypeOK, NEW i \in Item, NEW spot \in Spot, Yields(i, spot), Arrive(i, spot),
           NEW B \in SUBSET Item, Closed(B), i \in B
    PROVE  Change(B \cup {j \in Item : place[j] = spot})
<1>1. Closed(B \cup {j \in Item : place[j] = spot})
  BY DEF Closed, Yields, Empty
<1>2. QED BY <1>1 DEF Change, Arrive

\* No tree grows out of an item that is not stored.
LEMMA ArriveSound ==
    ASSUME TypeOK, Sound, NEW i \in Item, NEW spot \in Spot,
           spot[1] # Root => place[spot[1]] # None,
           Yields(i, spot), Arrive(i, spot)
    PROVE  Sound' /\ place' \in [Item -> Spot \cup {Bin, None}]
<1>1. place' \in [Item -> Spot \cup {Bin, None}] BY DEF TypeOK, Arrive
<1>a. Alone' BY BinAssumption DEF Sound, Alone, Arrive
<1>2. SUFFICES ASSUME NEW k \in Item, Parent(k)' \in Folder
               PROVE  place'[Parent(k)'] # None
  BY <1>1, <1>a DEF Sound, Rooted
<1> DEFINE d == Parent(k)'
<1>3. d \in Item /\ d # None /\ d # Root
  BY <1>2, RootAssumption, NoneAssumption DEF Item
<1>4. place'[k] \in Spot /\ d = place'[k][1]
  BY <1>1, <1>2, <1>3 DEF Parent
<1>5. CASE k = i
  <2>1. d = spot[1] BY <1>4, <1>5 DEF Arrive
  <2>2. place[d] # None /\ d # i BY <2>1, <1>3, BelowSelf DEF Yields
  <2>3. place[d] # spot
    <3>1. SUFFICES ASSUME place[d] = spot PROVE FALSE OBVIOUS
    <3>2. Parent(d) = d BY <3>1, <2>1, <1>3, Parents
    <3>3. QED BY <3>1, <3>2, <1>3 DEF Yields, Empty
  <2>4. QED BY <2>2, <2>3, <1>3 DEF Arrive
<1>6. CASE k # i
  <2>1. place'[k] = place[k] BY <1>4, <1>6, BinAssumption DEF Arrive
  <2>2. Parent(k) = d BY <2>1, <1>4, Parents
  <2>3. place[d] # None BY <2>2, <1>2 DEF Sound, Rooted
  <2>4. d = i \/ place[d] # spot BY <2>2, <1>3 DEF Yields, Empty
  <2>5. QED BY <2>3, <2>4, <1>3, BinAssumption DEF Arrive
<1>7. QED BY <1>5, <1>6

-----------------------------------------------------------------------------
(* What requests rely on.                                                  *)

\* What is kept safe from a change keeps its path.
LEMMA KeepsPaths ==
    ASSUME TypeOK, NEW M, Change(M), NEW T \in SUBSET Item, NEW p \in Path,
           \A i \in T : place[i] # None /\ Parent(i) \in {None, Root} \cup T,
           Found(p) \cap T = {}, place' \in [Item -> Spot \cup {Bin, None}]
    PROVE  Found(p)' \cap (T \ M) = {}
<1>1. SUFFICES ASSUME NEW i \in T, i \notin M, i \in Found(p)' PROVE FALSE
  OBVIOUS
<1>2. place'[i] = place[i] BY <1>1 DEF Change
<1>3. PICK d \in Dirs(p)' : place'[i] = <<d, p[2]>> BY <1>1 DEF Found
<1>4. d = Root \/ (d \in Folder /\ p[1] # Root /\ place'[d] = <<Root, p[1]>>)
  BY <1>3 DEF Dirs
<1>5. p[1] = Root => d = Root BY <1>3 DEF Dirs
<1>6. CASE p[1] = Root
  <2>1. d \in Dirs(p) BY <1>5, <1>6 DEF Dirs
  <2>2. QED BY <2>1, <1>2, <1>3 DEF Found
<1>7. CASE p[1] # Root
  <2>1. d \in Folder /\ place'[d] = <<Root, p[1]>> BY <1>3, <1>7 DEF Dirs
  <2>2. place[i] \in Spot /\ Parent(i) = d
    <3>1. p[2] \in Name BY DEF Path
    <3>2. place[i] = <<d, p[2]>> BY <1>2, <1>3
    <3>3. <<d, p[2]>> \in Spot BY <2>1, <3>1 DEF Spot
    <3>4. place[i] \in Spot BY <3>2, <3>3
    <3>5. QED BY <3>2, <3>4, Parents
  <2>3. d \in T BY <2>1, <2>2, RootAssumption, NoneAssumption DEF Item
  <2>4. d \notin M BY <2>2, <1>1 DEF Change, Closed
  <2>5. place[d] = <<Root, p[1]>> BY <2>1, <2>3, <2>4 DEF Change
  <2>6. QED BY <1>2, <1>3, <1>7, <2>1, <2>5 DEF Found, Dirs
<1>8. QED BY <1>6, <1>7

LEMMA KeepsParents ==
    ASSUME TypeOK, NEW M, Change(M), NEW T \in SUBSET Item,
           \A i \in T : place[i] # None /\ Parent(i) \in {None, Root} \cup T
    PROVE  \A i \in T \ M :
              place'[i] # None /\ Parent(i)' \in {None, Root} \cup (T \ M)
<1>1. SUFFICES ASSUME NEW i \in T \ M
               PROVE  place'[i] # None /\ Parent(i)' \in {None, Root} \cup (T \ M)
  OBVIOUS
<1>2. place'[i] = place[i] BY DEF Change
<1>3. Parent(i)' = Parent(i) BY <1>2 DEF Parent
<1>4. Parent(i) \notin M BY DEF Change, Closed
<1>5. QED BY <1>2, <1>3, <1>4

\* A request that does nothing while others change the tree: what it has in the
\* trash stays there, and it forgets what has changed.
LEMMA OthersGood ==
    ASSUME TypeOK, place' \in [Item -> Spot \cup {Bin, None}],
           NEW M, Change(M), NEW q \in Request, Good(q),
           pc'[q] = pc[q], source'[q] = source[q], target'[q] = target[q],
           what'[q] = what[q], safe'[q] = safe[q] \ M,
           pc[q] \in {"record", "back"} =>
              place'[what[q]] = place[what[q]] /\ what[q] \notin recorded' \ recorded
    PROVE  Good(q)'
<1>1. safe[q] \in SUBSET Item BY DEF TypeOK
<1>2. Ready(q)' BY DEF Good, Ready
<1>3. Clear(q)'
  <2>1. CASE pc[q] \in {"idle", "stat"} BY <2>1 DEF Clear
  <2>2. CASE pc[q] \notin {"idle", "stat"}
    <3>1. Aim(q) \in Path /\ Aim(q)' = Aim(q)
      BY <2>2 DEF TypeOK, Point, Good, Ready, Aim
    <3>2. Found(Aim(q)) \cap safe[q] = {} BY <2>2 DEF Good, Clear
    <3>3. PICK a \in Path : a = Aim(q) BY <3>1
    <3>4. Found(a)' \cap (safe[q] \ M) = {}
      BY <1>1, <3>2, <3>3, KeepsPaths DEF Good, Kept
    <3>5. Found(Aim(q))' = Found(a)' BY <3>1, <3>3 DEF Found, Dirs
    <3>6. QED BY <3>4, <3>5 DEF Clear
  <2>3. QED BY <2>1, <2>2
<1>4. Kept(q)' BY <1>1, KeepsParents DEF Good, Kept
<1>5. QED BY <1>2, <1>3, <1>4 DEF Good

LEMMA EndTypes ==
    ASSUME TypeOK, NEW r \in Request, NEW M, EndTouch(r, M)
    PROVE  /\ pc' \in [Request -> Point] /\ source' \in [Request -> Path \cup {None}]
           /\ target' \in [Request -> Path \cup {None}]
           /\ op' \in [Request -> {"move", "copy"}]
           /\ what' \in [Request -> Item \cup {None}]
           /\ safe' \in [Request -> SUBSET Item]
           /\ pc'[r] = "idle" /\ safe'[r] = {}
           /\ \A q \in Request \ {r} :
                 /\ pc'[q] = pc[q] /\ source'[q] = source[q] /\ target'[q] = target[q]
                 /\ what'[q] = what[q] /\ safe'[q] = safe[q] \ M
<1> USE DEF TypeOK, EndTouch, EndReq, Goto
<1>1. pc' \in [Request -> Point] /\ op' \in [Request -> {"move", "copy"}] BY DEF Point
<1>2. /\ source' \in [Request -> Path \cup {None}]
      /\ target' \in [Request -> Path \cup {None}]
      /\ what' \in [Request -> Item \cup {None}]
  OBVIOUS
<1>3. safe' \in [Request -> SUBSET Item] OBVIOUS
<1>4. pc'[r] = "idle" /\ safe'[r] = {} OBVIOUS
<1>5. \A q \in Request \ {r} :
         /\ pc'[q] = pc[q] /\ source'[q] = source[q] /\ target'[q] = target[q]
         /\ what'[q] = what[q] /\ safe'[q] = safe[q] \ M
  OBVIOUS
<1>6. QED BY <1>1, <1>2, <1>3, <1>4, <1>5

-----------------------------------------------------------------------------
(* Every step keeps the invariant.                                         *)

SameBin == \A j \in Item : place'[j] = Bin <=> place[j] = Bin

LEMMA ArriveSameBin ==
    ASSUME TypeOK, NEW i \in Item, place[i] # Bin, NEW spot \in Spot, Arrive(i, spot)
    PROVE  SameBin
BY BinAssumption DEF TypeOK, Arrive, SameBin

LEMMA NoChange == ASSUME TypeOK, place' = place PROVE Change({}) /\ SameBin
BY DEF Change, Closed, SameBin

\* A request that has nothing in the trash ends.
LEMMA EndIInv ==
    ASSUME IInv, NEW r \in Request, NEW M, EndTouch(r, M), Change(M),
           place' \in [Item -> Spot \cup {Bin, None}], Sound', SameBin,
           recorded' = recorded, stranded' = stranded, pc[r] \notin {"record", "back"}
    PROVE  IInv'
<1> USE DEF IInv
<1>1. TypeOK' BY EndTypes DEF TypeOK
<1>2. ASSUME NEW q \in Request PROVE Good(q)'
  <2>1. CASE q = r BY <2>1, EndTypes DEF Good, Ready, Clear, Kept
  <2>2. CASE q # r
    <3>1. pc[q] \in {"record", "back"} =>
             place'[what[q]] = place[what[q]] /\ what[q] \notin recorded' \ recorded
      BY DEF Good, Ready, SameBin
    <3>2. QED BY <2>2, <3>1, EndTypes, OthersGood
  <2>3. QED BY <2>1, <2>2
<1>3. Apart' BY EndTypes DEF Apart
<1>4. RecordedInTrash' BY DEF RecordedInTrash, SameBin, TypeOK
<1>5. NothingStranded' BY EndTypes DEF NothingStranded, SameBin, At
<1>6. QED BY <1>1, <1>2, <1>3, <1>4, <1>5

LEMMA FailIInv ==
    ASSUME IInv, NEW r \in Request, Fail(r), pc[r] \notin {"record", "back"}
    PROVE  IInv'
<1>1. UNCHANGED <<place, recorded, stranded>> /\ EndTouch(r, {}) BY DEF Fail, tree
<1>2. Change({}) /\ SameBin BY <1>1, NoChange DEF IInv
<1>3. Sound' BY <1>1 DEF IInv, Sound, Rooted, Alone, Parent
<1>4. QED BY <1>1, <1>2, <1>3, EndIInv DEF IInv, TypeOK

\* What a request finds when it looks is not below what it is asked to overwrite,
\* unless it is to go with it.
LEMMA StoredKept ==
    ASSUME TypeOK, Sound, NEW asked \in SUBSET Item, Closed(asked)
    PROVE  \A i \in Stored \ asked :
              /\ place[i] # None
              /\ Parent(i) \in {None, Root} \cup (Stored \ asked)
BY Parents, NoneAssumption DEF Stored, Closed, Sound, Rooted, Item

LEMMA SweptClosed ==
    ASSUME TypeOK, NEW p \in Path
    PROVE  /\ Swept(p) \in SUBSET Item /\ Closed(Swept(p)) /\ Found(p) \subseteq Swept(p)
BY BelowSelf, BelowClosed, Members DEF Swept, Closed

LEMMA ProceedIInv ==
    ASSUME IInv, NEW r \in Request, At(r, "idle"), NEW o \in {"move", "copy"},
           NEW s \in Path, NEW t \in Path, NEW point \in {"remove", "move", "copy"},
           NEW asked \in SUBSET Item, Closed(asked), Found(t) \subseteq asked,
           Proceed(r, o, s, t, point, asked)
    PROVE  IInv'
<1> USE DEF IInv, Proceed, Goto, tree
<1>1. TypeOK' BY DEF TypeOK, Point, Stored
<1>2. ASSUME NEW q \in Request PROVE Good(q)'
  <2>1. CASE q = r
    <3>1. pc'[r] = point /\ source'[r] = s /\ target'[r] = t /\ safe'[r] = Stored \ asked
      BY DEF TypeOK
    <3>2. Ready(r)' BY <3>1 DEF Ready
    <3>3. Aim(r)' = t BY <3>1 DEF Aim
    <3>4. Found(t)' = Found(t) BY DEF Found, Dirs
    <3>5. Found(Aim(r))' = Found(t)' BY <3>3 DEF Found, Dirs
    <3>6. Clear(r)' BY <3>1, <3>4, <3>5 DEF Clear
    <3>7. Kept(r)'
      <4>1. \A i \in Stored \ asked : Parent(i)' = Parent(i) /\ place'[i] = place[i]
        BY DEF Parent
      <4>2. QED BY <3>1, <4>1, StoredKept DEF Kept
    <3>8. QED BY <2>1, <3>2, <3>6, <3>7 DEF Good
  <2>2. CASE q # r
    <3>1. /\ pc'[q] = pc[q] /\ source'[q] = source[q] /\ target'[q] = target[q]
          /\ what'[q] = what[q] /\ safe'[q] = safe[q] \ {}
      BY <2>2 DEF TypeOK
    <3>2. place' \in [Item -> Spot \cup {Bin, None}] BY DEF TypeOK
    <3>3. QED BY <3>1, <3>2, NoChange, OthersGood
  <2>3. QED BY <2>1, <2>2
<1>3. Apart' BY DEF Apart, TypeOK
<1>4. Sound' /\ RecordedInTrash' BY DEF Sound, Rooted, Alone, Parent, RecordedInTrash
<1>5. NothingStranded'
  <2>1. \A q \in Request : pc[q] \in {"record", "back"} => pc'[q] = pc[q] /\ what'[q] = what[q]
    BY DEF At, TypeOK
  <2>2. QED BY <2>1 DEF NothingStranded, At
<1>6. QED BY <1>1, <1>2, <1>3, <1>4, <1>5

LEMMA CheckIInv ==
    ASSUME IInv, NEW r \in Request, At(r, "idle"), NEW o \in {"move", "copy"},
           NEW s \in Path, NEW t \in Path, NEW policy, Check(r, o, s, t, policy)
    PROVE  IInv'
<1>1. Closed({}) BY DEF Closed
<1>2. CASE Found(t) = {} /\ Proceed(r, o, s, t, o, {}) BY <1>1, <1>2, ProceedIInv
<1>3. CASE Proceed(r, o, s, t, "remove", Swept(t))
  BY <1>3, SweptClosed, ProceedIInv DEF IInv
<1>4. CASE \E n \in Name :
              Found(<<t[1], n>>) = {} /\ Proceed(r, o, s, <<t[1], n>>, o, {})
  <2>1. PICK n \in Name :
           Found(<<t[1], n>>) = {} /\ Proceed(r, o, s, <<t[1], n>>, o, {})
    BY <1>4
  <2>2. <<t[1], n>> \in Path BY DEF Path
  <2>3. QED BY <1>1, <2>1, <2>2, ProceedIInv
<1>5. QED BY <1>2, <1>3, <1>4 DEF Check

LEMMA AskIInv ==
    ASSUME IInv, NEW r \in Request, HandleRename(r) \/ HandleMove(r) \/ HandleCopy(r)
    PROVE  IInv'
<1>1. CASE HandleRename(r) BY <1>1, CheckIInv DEF HandleRename
<1>2. CASE HandleMove(r) BY <1>2, CheckIInv DEF HandleMove
<1>3. CASE HandleCopy(r) BY <1>3, CheckIInv DEF HandleCopy
<1>4. QED BY <1>1, <1>2, <1>3

\* What is removed is safe for nobody who looked for it, and nothing grows out of it.
LEMMA RemoveChange ==
    ASSUME TypeOK, Sound, NEW p \in Path, NEW gone \in SUBSET Swept(p),
           \A i \in gone, j \in Item : Parent(j) = i => j \in gone, Remove(gone)
    PROVE  /\ Change(gone) /\ SameBin /\ Sound'
           /\ place' \in [Item -> Spot \cup {Bin, None}]
<1>1. gone \in SUBSET Item BY SweptClosed
<1>2. Change(gone) BY <1>1 DEF Change, Closed, Remove
<1>3. \A i \in gone : place[i] # Bin
  <2>1. SUFFICES ASSUME NEW o \in Found(p), NEW i \in Below(o), place[i] = Bin
                 PROVE  FALSE
    BY DEF Swept
  <2>2. o \in Item /\ i \in Item /\ o # i BY <2>1, Members, BelowSelf
  <2>3. Closed(Item \ {i})
    <3>1. Parent(i) = None BY <2>1, <2>2, Parents
    <3>2. QED BY <3>1, NoneAssumption DEF Closed
  <2>4. Below(o) \subseteq Item \ {i} BY <2>2, <2>3, BelowLeast
  <2>5. QED BY <2>1, <2>4
<1>4. SameBin BY <1>1, <1>3, BinAssumption DEF SameBin, Remove
<1>5. place' \in [Item -> Spot \cup {Bin, None}] BY DEF TypeOK, Remove
<1>a. Alone' BY BinAssumption DEF Sound, Alone, Remove
<1>6. Sound'
  <2>1. SUFFICES ASSUME NEW k \in Item, Parent(k)' \in Folder
                 PROVE  place'[Parent(k)'] # None
    BY <1>a DEF Sound, Rooted
  <2>2. k \notin gone BY <2>1, NoneAssumption DEF Parent, Remove, Item
  <2>3. Parent(k)' = Parent(k) BY <2>2 DEF Parent, Remove
  <2>4. Parent(k) \in Item BY <2>1, <2>3 DEF Item
  <2>5. Parent(k) \notin gone BY <2>2
  <2>6. QED BY <2>1, <2>3, <2>4, <2>5 DEF Sound, Rooted, Remove
<1>7. QED BY <1>2, <1>4, <1>5, <1>6

LEMMA RemovePathIInv ==
    ASSUME IInv, NEW r \in Request, removePath(r)
    PROVE  IInv'
<1> USE DEF IInv
<1>1. pc[r] = "remove" /\ recorded' = recorded /\ stranded' = stranded
  BY DEF removePath, At
<1>2. target[r] \in Path /\ source[r] \in Path BY <1>1 DEF Good, Ready
<1>3. PICK gone \in SUBSET Swept(target[r]) :
         /\ \A i \in gone, j \in Item : Parent(j) = i => j \in gone
         /\ Remove(gone)
         /\ IF gone = Swept(target[r])
              THEN Goto(r, op[r]) /\ Touch(gone) /\ UNCHANGED req
              ELSE EndTouch(r, gone)
  BY DEF removePath
<1>4. /\ Change(gone) /\ SameBin /\ Sound'
      /\ place' \in [Item -> Spot \cup {Bin, None}]
  BY <1>2, <1>3, RemoveChange
<1>5. CASE EndTouch(r, gone) BY <1>1, <1>4, <1>5, EndIInv
<1>6. CASE Goto(r, op[r]) /\ Touch(gone) /\ UNCHANGED req
  <2> USE <1>6 DEF Goto, Touch, req
  <2>1. TypeOK' BY <1>1, <1>4 DEF TypeOK, Point
  <2>2. op[r] \in {"move", "copy"} /\ pc'[r] = op[r] BY DEF TypeOK
  <2>3. ASSUME NEW q \in Request PROVE Good(q)'
    <3>1. CASE q = r
      <4>1. safe[r] \in SUBSET Item /\ safe'[r] = safe[r] \ gone BY DEF TypeOK
      <4>2. Ready(r)' BY <1>2, <2>2 DEF Ready
      <4>3. Aim(r) = target[r] /\ Aim(r)' = target[r] BY <1>1, <2>2 DEF Aim
      <4>4. Found(target[r]) \cap safe[r] = {} BY <1>1, <4>3 DEF Good, Clear
      <4>5. PICK a \in Path : a = target[r] BY <1>2
      <4>6. Found(a)' \cap (safe[r] \ gone) = {}
        BY <1>4, <4>1, <4>4, <4>5, KeepsPaths DEF Good, Kept
      <4>7. Found(Aim(r))' = Found(a)' BY <4>3, <4>5 DEF Found, Dirs
      <4>8. Clear(r)' BY <4>1, <4>6, <4>7 DEF Clear
      <4>9. Kept(r)'
        <5>1. \A i \in safe[r] : place[i] # None /\ Parent(i) \in {None, Root} \cup safe[r]
          BY DEF Good, Kept
        <5>2. \A i \in safe[r] \ gone :
                 place'[i] # None /\ Parent(i)' \in {None, Root} \cup (safe[r] \ gone)
          BY <1>4, <4>1, <5>1, KeepsParents
        <5>3. QED BY <4>1, <5>2 DEF Kept
      <4>10. QED BY <3>1, <4>2, <4>8, <4>9 DEF Good
    <3>2. CASE q # r
      <4>1. /\ pc'[q] = pc[q] /\ source'[q] = source[q] /\ target'[q] = target[q]
            /\ what'[q] = what[q] /\ safe'[q] = safe[q] \ gone
        BY <3>2 DEF TypeOK
      <4>2. pc[q] \in {"record", "back"} =>
               place'[what[q]] = place[what[q]] /\ what[q] \notin recorded' \ recorded
        BY <1>1, <1>4 DEF Good, Ready, SameBin
      <4>3. QED BY <1>4, <4>1, <4>2, OthersGood
    <3>3. QED BY <3>1, <3>2
  <2>4. Apart' BY <1>1, <2>2 DEF Apart, TypeOK
  <2>5. RecordedInTrash' BY <1>1, <1>4 DEF RecordedInTrash, SameBin, TypeOK
  <2>6. NothingStranded'
    <3>1. \A q \in Request : pc[q] \in {"record", "back"} => pc'[q] = pc[q]
      BY <1>1 DEF TypeOK
    <3>2. QED BY <1>1, <1>4, <3>1 DEF NothingStranded, SameBin, At
  <2>7. QED BY <1>4, <2>1, <2>3, <2>4, <2>5, <2>6
<1>7. QED BY <1>3, <1>5, <1>6

LEMMA MovePathIInv ==
    ASSUME IInv, NEW r \in Request, movePath(r)
    PROVE  IInv'
<1> USE DEF IInv
<1>1. pc[r] = "move" BY DEF movePath, At
<1>2. CASE Fail(r) BY <1>1, <1>2, FailIInv
<1>3. CASE ~ Fail(r)
  <2>1. target[r] \in Path /\ source[r] \in Path /\ source[r][2] \in Name
    BY <1>1 DEF Good, Ready, Path
  <2>2. PICK i \in Found(source[r]), spot \in Spots(target[r], source[r][2]) :
           /\ Yields(i, spot) /\ Arrive(i, spot)
           /\ EndTouch(r, Below(i) \cup {j \in Item : place[j] = spot})
    BY <1>3 DEF movePath
  <2>3. recorded' = recorded /\ stranded' = stranded BY <1>3 DEF movePath
  <2>4. i \in Item /\ place[i] # Bin BY <2>1, Members
  <2>5. spot \in Spot /\ (spot[1] # Root => place[spot[1]] # None)
    BY <2>1, SpotsStored
  <2>6. Change(Below(i) \cup {j \in Item : place[j] = spot})
    BY <2>2, <2>4, <2>5, BelowSelf, BelowClosed, ArriveChange
  <2>7. Sound' /\ place' \in [Item -> Spot \cup {Bin, None}]
    BY <2>2, <2>4, <2>5, ArriveSound
  <2>8. SameBin BY <2>2, <2>4, <2>5, ArriveSameBin
  <2>9. QED BY <1>1, <2>2, <2>3, <2>6, <2>7, <2>8, EndIInv
<1>4. QED BY <1>2, <1>3

\* What was not stored comes alone.
LEMMA AppearChange ==
    ASSUME TypeOK, Sound, NEW i \in Item, NEW spot \in Spot, Appear(i, spot),
           spot[1] # Root => place[spot[1]] # None
    PROVE  /\ Change({i} \cup {j \in Item : place[j] = spot}) /\ SameBin
           /\ Sound' /\ place' \in [Item -> Spot \cup {Bin, None}]
<1>1. place[i] = None /\ Yields(i, spot) /\ Arrive(i, spot) BY DEF Appear
<1>2. Closed({i})
  <2>1. ASSUME NEW k \in Item, Parent(k) = i PROVE FALSE
    <3>1. Parent(k) \in Folder BY <2>1, Parents, NoneAssumption, RootAssumption
            DEF Yields, Item, Empty
    <3>2. QED BY <1>1, <2>1, <3>1 DEF Sound, Rooted
  <2>2. QED BY <2>1 DEF Closed
<1>3. QED BY <1>1, <1>2, ArriveChange, ArriveSound, ArriveSameBin, BinAssumption

LEMMA CopyPathIInv ==
    ASSUME IInv, NEW r \in Request, copyPath(r)
    PROVE  IInv'
<1> USE DEF IInv
<1>1. pc[r] = "copy" BY DEF copyPath, At
<1>2. CASE Fail(r) BY <1>1, <1>2, FailIInv
<1>3. CASE ~ Fail(r)
  <2>1. target[r] \in Path /\ source[r] \in Path /\ source[r][2] \in Name
    BY <1>1 DEF Good, Ready, Path
  <2>2. PICK i \in Found(source[r]), j \in Item,
             spot \in Spots(target[r], source[r][2]) :
           /\ SameKind(i, j) /\ Appear(j, spot)
           /\ EndTouch(r, {j} \cup {k \in Item : place[k] = spot})
    BY <1>3 DEF copyPath
  <2>3. recorded' = recorded /\ stranded' = stranded BY <1>3 DEF copyPath
  <2>4. spot \in Spot /\ (spot[1] # Root => place[spot[1]] # None)
    BY <2>1, SpotsStored
  <2>5. /\ Change({j} \cup {k \in Item : place[k] = spot}) /\ SameBin
        /\ Sound' /\ place' \in [Item -> Spot \cup {Bin, None}]
    BY <2>2, <2>4, AppearChange
  <2>6. QED BY <1>1, <2>2, <2>3, <2>5, EndIInv
<1>4. QED BY <1>2, <1>3

LEMMA PersistIInv ==
    ASSUME IInv, NEW r \in Request, persistUploadedFile(r)
    PROVE  IInv'
<1> USE DEF IInv
<1>1. pc[r] = "persist" BY DEF persistUploadedFile, At
<1>2. CASE Fail(r) BY <1>1, <1>2, FailIInv
<1>3. CASE ~ Fail(r)
  <2>1. target[r] \in Path BY <1>1 DEF Good, Ready
  <2>2. PICK i \in File, n \in Name : \E spot \in Spots(target[r], n) :
           /\ Appear(i, spot)
           /\ EndTouch(r, {i} \cup {k \in Item : place[k] = spot})
    BY <1>3 DEF persistUploadedFile
  <2>3. PICK spot \in Spots(target[r], n) :
           /\ Appear(i, spot)
           /\ EndTouch(r, {i} \cup {k \in Item : place[k] = spot})
    BY <2>2
  <2>4. recorded' = recorded /\ stranded' = stranded BY <1>3 DEF persistUploadedFile
  <2>5. spot \in Spot /\ (spot[1] # Root => place[spot[1]] # None)
    BY <2>1, SpotsStored
  <2>6. i \in Item BY DEF Item
  <2>7. /\ Change({i} \cup {k \in Item : place[k] = spot}) /\ SameBin
        /\ Sound' /\ place' \in [Item -> Spot \cup {Bin, None}]
    BY <2>3, <2>5, <2>6, AppearChange
  <2>8. QED BY <1>1, <2>3, <2>4, <2>7, EndIInv
<1>4. QED BY <1>2, <1>3

\* A request goes on while the places of M change, and the trash does not.
LEMMA GoOnIInv ==
    ASSUME IInv, NEW r \in Request, NEW M, Change(M), SameBin, Sound', TypeOK',
           recorded' = recorded, stranded' = stranded, Good(r)',
           pc[r] \notin {"record", "back"}, pc'[r] \notin {"record", "back"},
           \A q \in Request \ {r} :
              /\ pc'[q] = pc[q] /\ source'[q] = source[q] /\ target'[q] = target[q]
              /\ what'[q] = what[q] /\ safe'[q] = safe[q] \ M
    PROVE  IInv'
<1> USE DEF IInv
<1>1. ASSUME NEW q \in Request PROVE Good(q)'
  <2>1. CASE q = r BY <2>1
  <2>2. CASE q # r
    <3>1. pc[q] \in {"record", "back"} =>
             place'[what[q]] = place[what[q]] /\ what[q] \notin recorded' \ recorded
      BY DEF Good, Ready, SameBin
    <3>2. place' \in [Item -> Spot \cup {Bin, None}] BY DEF TypeOK
    <3>3. QED BY <2>2, <3>1, <3>2, OthersGood
  <2>3. QED BY <2>1, <2>2
<1>2. Apart' BY DEF Apart
<1>3. RecordedInTrash' BY DEF RecordedInTrash, SameBin, TypeOK
<1>4. NothingStranded'
  <2>1. \A q \in Request : pc[q] \in {"record", "back"} => pc'[q] = pc[q] /\ what'[q] = what[q]
    OBVIOUS
  <2>2. QED BY <2>1 DEF NothingStranded, SameBin, At
<1>5. QED BY <1>1, <1>2, <1>3, <1>4

LEMMA UploadIInv ==
    ASSUME IInv, NEW r \in Request, Upload(r)
    PROVE  IInv'
<1> USE DEF IInv
<1>1. PICK t \in Path :
         /\ target' = [target EXCEPT ![r] = t]
         /\ \/ Dirs(t) # {} /\ UNCHANGED <<place, safe>>
            \/ /\ Dirs(t) = {}
               /\ \E d \in Folder : LET spot == <<Root, t[1]>> IN
                     /\ \A i \in Item : place[i] # spot
                     /\ Appear(d, spot) /\ Touch({d})
  BY DEF Upload
<1>2. /\ pc[r] = "idle" /\ Goto(r, "stat")
      /\ UNCHANGED <<recorded, stranded, source, op, what>>
  BY DEF Upload, At
<1>3. safe[r] = {} BY <1>2 DEF Good, Ready
<1>4. pc' \in [Request -> Point] /\ target' \in [Request -> Path \cup {None}]
  BY <1>1, <1>2 DEF Goto, TypeOK, Point
<1>5. pc'[r] = "stat" /\ target'[r] = t BY <1>1, <1>2 DEF Goto, TypeOK
<1>6. \A q \in Request \ {r} : pc'[q] = pc[q] /\ target'[q] = target[q]
  BY <1>1, <1>2 DEF Goto, TypeOK
<1>7. CASE UNCHANGED <<place, safe>>
  <2>1. TypeOK' BY <1>2, <1>4, <1>7 DEF TypeOK
  <2>2. Good(r)' BY <1>3, <1>5, <1>7 DEF Good, Ready, Clear, Kept
  <2>3. Change({}) /\ SameBin BY <1>7, NoChange
  <2>4. Sound' BY <1>7 DEF Sound, Rooted, Alone, Parent
  <2>5. QED BY <1>2, <1>5, <1>6, <1>7, <2>1, <2>2, <2>3, <2>4, GoOnIInv
<1>8. CASE \E d \in Folder : /\ \A i \in Item : place[i] # <<Root, t[1]>>
                             /\ Appear(d, <<Root, t[1]>>) /\ Touch({d}) /\ Dirs(t) = {}
  <2>1. PICK d \in Folder : /\ \A i \in Item : place[i] # <<Root, t[1]>>
                            /\ Appear(d, <<Root, t[1]>>) /\ Touch({d})
                            /\ Dirs(t) = {}
    BY <1>8
  <2>2. <<Root, t[1]>> \in Spot BY <2>1 DEF Dirs, Path, Spot
  <2>3. d \in Item BY DEF Item
  <2>4. {d} \cup {j \in Item : place[j] = <<Root, t[1]>>} = {d} BY <2>1
  <2>5. Change({d}) /\ SameBin /\ Sound' /\ place' \in [Item -> Spot \cup {Bin, None}]
    BY <2>1, <2>2, <2>3, <2>4, AppearChange
  <2>6. /\ safe' \in [Request -> SUBSET Item] /\ safe'[r] = {}
        /\ \A q \in Request : safe'[q] = safe[q] \ {d}
    BY <1>3, <2>1 DEF Touch, TypeOK
  <2>7. TypeOK' BY <1>2, <1>4, <2>5, <2>6 DEF TypeOK
  <2>8. Good(r)' BY <1>5, <2>6 DEF Good, Ready, Clear, Kept
  <2>9. QED BY <1>2, <1>5, <1>6, <2>5, <2>6, <2>7, <2>8, GoOnIInv
<1>9. QED BY <1>1, <1>7, <1>8

LEMMA StatTargetIInv ==
    ASSUME IInv, NEW r \in Request, StatTarget(r)
    PROVE  IInv'
<1> USE DEF IInv
<1>1. pc[r] = "stat" BY DEF StatTarget, At
<1>2. CASE Fail(r) BY <1>1, <1>2, FailIInv
<1>3. CASE ~ Fail(r)
  <2>1. /\ Found(target[r]) = {} /\ safe' = [safe EXCEPT ![r] = Stored]
        /\ Goto(r, "persist") /\ UNCHANGED <<tree, req>>
    BY <1>3 DEF StatTarget
  <2> USE DEF tree, req
  <2>2. TypeOK' BY <2>1 DEF TypeOK, Goto, Point, Stored
  <2>3. pc'[r] = "persist" /\ safe'[r] = Stored BY <2>1 DEF TypeOK, Goto
  <2>4. Ready(r)' BY <1>1, <2>1, <2>3 DEF Good, Ready
  <2>5. Clear(r)'
    <3>1. Aim(r)' = target[r] BY <2>1, <2>3 DEF Aim
    <3>2. Found(Aim(r))' = Found(target[r]) BY <2>1, <3>1 DEF Found, Dirs
    <3>3. QED BY <2>1, <3>2 DEF Clear
  <2>6. Kept(r)'
    <3>1. \A i \in Stored \ {} : place[i] # None /\ Parent(i) \in {None, Root} \cup (Stored \ {})
      BY StoredKept DEF Closed
    <3>2. \A i \in Stored : Parent(i)' = Parent(i) /\ place'[i] = place[i]
      BY <2>1 DEF Parent
    <3>3. QED BY <2>3, <3>1, <3>2 DEF Kept
  <2>7. Change({}) /\ SameBin BY <2>1, NoChange
  <2>8. Sound' BY <2>1 DEF Sound, Rooted, Alone, Parent
  <2>9. \A q \in Request \ {r} :
           /\ pc'[q] = pc[q] /\ source'[q] = source[q] /\ target'[q] = target[q]
           /\ what'[q] = what[q] /\ safe'[q] = safe[q] \ {}
    BY <2>1 DEF Goto, TypeOK
  <2>10. QED BY <1>1, <2>1, <2>2, <2>3, <2>4, <2>5, <2>6, <2>7, <2>8, <2>9, GoOnIInv
           DEF Good
<1>4. QED BY <1>2, <1>3

LEMMA CreateFolderIInv ==
    ASSUME IInv, HandleCreateFolder
    PROVE  IInv'
<1> USE DEF IInv
<1>1. PICK p \in Path, i \in Folder : \E d \in Dirs(p) :
         /\ Found(p) = {} /\ Appear(i, <<d, p[2]>>) /\ Touch({i})
  BY DEF HandleCreateFolder
<1>2. PICK d \in Dirs(p) : Found(p) = {} /\ Appear(i, <<d, p[2]>>) /\ Touch({i})
  BY <1>1
<1> DEFINE spot == <<d, p[2]>>
<1>3. i \in Item /\ UNCHANGED <<recorded, stranded, pc, req>>
  BY DEF HandleCreateFolder, Item
<1>4. spot \in Spots(p, p[2]) BY DEF Spots
<1>5. p[2] \in Name BY DEF Path
<1>6. spot \in Spot /\ (spot[1] # Root => place[spot[1]] # None)
  BY <1>4, <1>5, SpotsStored
<1>7. {i} \cup {j \in Item : place[j] = spot} = {i} BY <1>2 DEF Found
<1>8. Change({i}) /\ SameBin /\ Sound' /\ place' \in [Item -> Spot \cup {Bin, None}]
  <2>1. Appear(i, spot) BY <1>2
  <2> HIDE DEF spot
  <2>2. QED BY <1>3, <1>6, <1>7, <2>1, AppearChange
<1>9. /\ safe' \in [Request -> SUBSET Item]
      /\ \A q \in Request : safe'[q] = safe[q] \ {i}
  BY <1>2 DEF Touch, TypeOK
<1>10. TypeOK' BY <1>3, <1>8, <1>9 DEF TypeOK, req
<1>11. ASSUME NEW q \in Request PROVE Good(q)'
  <2>1. pc[q] \in {"record", "back"} =>
           place'[what[q]] = place[what[q]] /\ what[q] \notin recorded' \ recorded
    BY <1>3, <1>8 DEF Good, Ready, SameBin
  <2>2. QED BY <1>3, <1>8, <1>9, <2>1, OthersGood DEF req
<1>12. Apart' BY <1>3 DEF Apart, req
<1>13. RecordedInTrash' BY <1>3, <1>8 DEF RecordedInTrash, SameBin, TypeOK
<1>14. NothingStranded' BY <1>3, <1>8 DEF NothingStranded, SameBin, At, req
<1>15. QED BY <1>8, <1>10, <1>11, <1>12, <1>13, <1>14

LEMMA DeleteIInv ==
    ASSUME IInv, NEW r \in Request, HandleDelete(r)
    PROVE  IInv'
<1> USE DEF IInv
<1>1. /\ pc[r] = "idle" /\ Goto(r, "record")
      /\ UNCHANGED <<recorded, stranded, target, op>>
  BY DEF HandleDelete, At
<1>a. PICK p \in Path : \E i \in Found(p) :
         /\ place' = [place EXCEPT ![i] = Bin]
         /\ source' = [source EXCEPT ![r] = p] /\ what' = [what EXCEPT ![r] = i]
         /\ safe' = [q \in Request |->
                       (IF q = r THEN Stored ELSE safe[q]) \ Below(i)]
  BY DEF HandleDelete
<1>2. PICK i \in Found(p) :
         /\ place' = [place EXCEPT ![i] = Bin]
         /\ source' = [source EXCEPT ![r] = p] /\ what' = [what EXCEPT ![r] = i]
         /\ safe' = [q \in Request |->
                       (IF q = r THEN Stored ELSE safe[q]) \ Below(i)]
  BY <1>a
<1>3. i \in Item /\ place[i] \in Spot /\ place[i] # Bin /\ place[i] # None BY Members
<1>4. place' \in [Item -> Spot \cup {Bin, None}] /\ place'[i] = Bin
  BY <1>2, <1>3 DEF TypeOK
<1>5. Change(Below(i)) BY <1>2, <1>3, BelowSelf, BelowClosed DEF Change, TypeOK
<1>6. /\ pc' \in [Request -> Point] /\ source' \in [Request -> Path \cup {None}]
      /\ what' \in [Request -> Item \cup {None}] /\ safe' \in [Request -> SUBSET Item]
  BY <1>1, <1>2, <1>3 DEF TypeOK, Goto, Point, Stored
<1>7. pc'[r] = "record" /\ source'[r] = p /\ what'[r] = i /\ safe'[r] = Stored \ Below(i)
  BY <1>1, <1>2 DEF TypeOK, Goto
<1>8. \A q \in Request \ {r} :
         /\ pc'[q] = pc[q] /\ source'[q] = source[q] /\ target'[q] = target[q]
         /\ what'[q] = what[q] /\ safe'[q] = safe[q] \ Below(i)
  BY <1>1, <1>2 DEF TypeOK, Goto
<1>9. TypeOK' BY <1>1, <1>4, <1>6 DEF TypeOK
<1>10. i \notin recorded BY <1>3 DEF RecordedInTrash
<1>11. ASSUME NEW q \in Request PROVE Good(q)'
  <2>1. CASE q = r
    <3>1. Ready(r)' BY <1>1, <1>3, <1>4, <1>7, <1>10 DEF Ready
    <3>2. Aim(r)' = p BY <1>7 DEF Aim
    <3>3. \A j \in Stored \ {} :
             place[j] # None /\ Parent(j) \in {None, Root} \cup (Stored \ {})
      BY StoredKept DEF Closed
    <3>4. Stored \in SUBSET Item BY DEF Stored
    <3>5. Found(p)' \cap (Stored \ Below(i)) = {}
      <4>1. SUFFICES ASSUME NEW j \in Found(p)', j \notin Below(i) PROVE FALSE
        OBVIOUS
      <4>2. j \in Item /\ place'[j] = place[j] /\ i \in Below(i)
        BY <1>3, <1>5, <4>1, BelowSelf DEF Found, Change
      <4>3. PICK d \in Dirs(p)' : place'[j] = <<d, p[2]>> BY <4>1 DEF Found
      <4>4. PICK e \in Dirs(p) : place[i] = <<e, p[2]>> BY DEF Found
      <4>5. d = e
        <5>1. CASE p[1] = Root BY <4>3, <4>4, <5>1 DEF Dirs
        <5>2. CASE p[1] # Root
          <6>1. d \in Folder /\ place'[d] = <<Root, p[1]>> BY <4>3, <5>2 DEF Dirs
          <6>2. e \in Folder /\ place[e] = <<Root, p[1]>> BY <5>2 DEF Dirs
          <6>3. <<Root, p[1]>> \in Spot BY <5>2 DEF Path, Spot
          <6>4. d # i BY <1>4, <6>1, <6>3, BinAssumption
          <6>5. place[d] = place'[d] BY <1>2, <6>1, <6>4 DEF TypeOK, Item
          <6>6. QED BY <6>1, <6>2, <6>3, <6>5 DEF Sound, Alone, Item
        <5>3. QED BY <5>1, <5>2
      <4>6. j = i BY <1>3, <4>2, <4>3, <4>4, <4>5 DEF Sound, Alone
      <4>7. QED BY <4>1, <4>2, <4>6
    <3>6. Found(Aim(r))' = Found(p)' BY <3>2 DEF Found, Dirs
    <3>7. Clear(r)' BY <1>7, <3>5, <3>6 DEF Clear
    <3>8. \A j \in Stored \ Below(i) :
             place'[j] # None /\ Parent(j)' \in {None, Root} \cup (Stored \ Below(i))
      BY <1>5, <3>3, <3>4, KeepsParents
    <3>9. Kept(r)' BY <1>7, <3>8 DEF Kept
    <3>10. QED BY <2>1, <3>1, <3>7, <3>9 DEF Good
  <2>2. CASE q # r
    <3>1. pc[q] \in {"record", "back"} =>
             place'[what[q]] = place[what[q]] /\ what[q] \notin recorded' \ recorded
      BY <1>1, <1>2, <1>3 DEF Good, Ready, TypeOK
    <3>2. QED BY <1>4, <1>5, <1>8, <2>2, <3>1, OthersGood
  <2>3. QED BY <2>1, <2>2
<1>12. Apart' BY <1>3, <1>7, <1>8 DEF Apart, Good, Ready
<1>b. Alone' BY <1>2, <1>3, BinAssumption DEF Sound, Alone, TypeOK
<1>13. Sound'
  <2>1. SUFFICES ASSUME NEW k \in Item, Parent(k)' \in Folder
                 PROVE  place'[Parent(k)'] # None
    BY <1>b DEF Sound, Rooted
  <2>2. k # i
    <3>1. Parent(i)' = None BY <1>4 DEF Parent
    <3>2. QED BY <2>1, <3>1, NoneAssumption DEF Item
  <2>3. place'[k] = place[k] BY <1>2, <1>3, <2>2 DEF TypeOK
  <2>4. Parent(k)' = Parent(k) BY <2>3 DEF Parent
  <2>5. Parent(k) \in Item /\ place[Parent(k)] # None BY <2>1, <2>4 DEF Sound, Rooted, Item
  <2>6. QED BY <1>2, <1>3, <2>4, <2>5, BinAssumption DEF TypeOK
<1>14. RecordedInTrash' BY <1>1, <1>2, <1>3, <1>10 DEF RecordedInTrash, TypeOK
<1>15. NothingStranded'
  <2>1. SUFFICES ASSUME NEW j \in Item, place'[j] = Bin, j \notin recorded \cup stranded
                 PROVE  \E q \in Request : pc'[q] \in {"record", "back"} /\ what'[q] = j
    BY <1>1 DEF NothingStranded, At
  <2>2. CASE j = i BY <1>7, <2>2
  <2>3. CASE j # i
    <3>1. place[j] = Bin BY <1>2, <2>1, <2>3 DEF TypeOK
    <3>2. PICK q \in Request : pc[q] \in {"record", "back"} /\ what[q] = j
      BY <2>1, <3>1 DEF NothingStranded, At
    <3>3. q # r BY <1>1, <3>2
    <3>4. QED BY <1>8, <3>2, <3>3
  <2>4. QED BY <2>2, <2>3
<1>16. QED BY <1>9, <1>11, <1>12, <1>13, <1>14, <1>15

LEMMA RecordIInv ==
    ASSUME IInv, NEW r \in Request, AddRecycleBinItem(r)
    PROVE  IInv'
<1> USE DEF IInv
<1>1. pc[r] = "record" BY DEF AddRecycleBinItem, At
<1>2. what[r] \in Item /\ place[what[r]] = Bin BY <1>1 DEF Good, Ready
<1>3. place' = place /\ stranded' = stranded BY DEF AddRecycleBinItem, tree
<1>4. Change({}) /\ Sound' /\ place' \in [Item -> Spot \cup {Bin, None}]
  BY <1>3, NoChange DEF Sound, Rooted, Alone, Parent, TypeOK
<1>5. CASE recorded' = recorded \cup {what[r]} /\ EndTouch(r, {})
  <2>1. TypeOK' BY <1>2, <1>3, <1>4, <1>5, EndTypes DEF TypeOK
  <2>2. ASSUME NEW q \in Request PROVE Good(q)'
    <3>1. CASE q = r BY <1>5, <3>1, EndTypes DEF Good, Ready, Clear, Kept
    <3>2. CASE q # r
      <4>1. pc[q] \in {"record", "back"} =>
               place'[what[q]] = place[what[q]] /\ what[q] \notin recorded' \ recorded
        BY <1>1, <1>3, <1>5, <3>2 DEF Apart
      <4>2. QED BY <1>4, <1>5, <3>2, <4>1, EndTypes, OthersGood
    <3>3. QED BY <3>1, <3>2
  <2>3. Apart' BY <1>5, EndTypes DEF Apart
  <2>4. RecordedInTrash' BY <1>2, <1>3, <1>5 DEF RecordedInTrash
  <2>5. NothingStranded'
    <3>1. \A q \in Request \ {r} : pc'[q] = pc[q] /\ what'[q] = what[q]
      BY <1>5, EndTypes
    <3>2. QED BY <1>3, <1>5, <3>1 DEF NothingStranded, At
  <2>6. QED BY <1>4, <2>1, <2>2, <2>3, <2>4, <2>5
<1>6. CASE Goto(r, "back") /\ UNCHANGED <<tree, req, safe>>
  <2> USE <1>6 DEF tree, req, Goto
  <2>1. TypeOK' BY DEF TypeOK, Point
  <2>2. /\ pc'[r] = "back" /\ \A q \in Request \ {r} : pc'[q] = pc[q] BY DEF TypeOK
  <2>3. ASSUME NEW q \in Request PROVE Good(q)'
    <3>1. Ready(q)' BY <1>1, <2>2 DEF Good, Ready
    <3>2. Aim(q)' = Aim(q) BY <1>1, <2>2 DEF Aim
    <3>3. Found(Aim(q))' = Found(Aim(q)) BY <3>2 DEF Found, Dirs
    <3>4. Clear(q)' BY <1>1, <2>2, <3>3 DEF Good, Clear
    <3>5. Kept(q)' BY DEF Good, Kept, Parent
    <3>6. QED BY <3>1, <3>4, <3>5 DEF Good
  <2>4. Apart' BY <1>1, <2>2 DEF Apart
  <2>5. RecordedInTrash' BY DEF RecordedInTrash
  <2>6. NothingStranded' BY <1>1, <2>2 DEF NothingStranded, At
  <2>7. QED BY <1>4, <2>1, <2>3, <2>4, <2>5, <2>6
<1>7. QED BY <1>5, <1>6 DEF AddRecycleBinItem

LEMMA RollBackIInv ==
    ASSUME IInv, NEW r \in Request, RollBack(r)
    PROVE  IInv'
<1> USE DEF IInv
<1>1. pc[r] = "back" BY DEF RollBack, At
<1>2. /\ what[r] \in Item /\ place[what[r]] = Bin /\ what[r] \notin recorded
      /\ source[r] \in Path
  BY <1>1 DEF Good, Ready
<1>3. CASE \E d \in Dirs(source[r]) :
             /\ Yields(what[r], <<d, source[r][2]>>)
             /\ Arrive(what[r], <<d, source[r][2]>>)
             /\ EndTouch(r, Below(what[r]) \cup
                              {j \in Item : place[j] = <<d, source[r][2]>>})
             /\ UNCHANGED <<recorded, stranded>>
  <2>1. PICK d \in Dirs(source[r]) :
             /\ Yields(what[r], <<d, source[r][2]>>)
             /\ Arrive(what[r], <<d, source[r][2]>>)
             /\ EndTouch(r, Below(what[r]) \cup
                              {j \in Item : place[j] = <<d, source[r][2]>>})
             /\ UNCHANGED <<recorded, stranded>>
    BY <1>3
  <2>2. PICK spot : spot = <<d, source[r][2]>> OBVIOUS
  <2>3. spot \in Spots(source[r], source[r][2]) BY <2>2 DEF Spots
  <2>4. source[r][2] \in Name BY <1>2 DEF Path
  <2>5. spot \in Spot /\ (spot[1] # Root => place[spot[1]] # None)
    BY <1>2, <2>3, <2>4, SpotsStored
  <2> DEFINE M == Below(what[r]) \cup {j \in Item : place[j] = spot}
  <2>6. Change(M)
    BY <1>2, <2>1, <2>2, <2>5, BelowSelf, BelowClosed, ArriveChange
  <2>7. Sound' /\ place' \in [Item -> Spot \cup {Bin, None}]
    BY <1>2, <2>1, <2>2, <2>5, ArriveSound
  <2>8. \A j \in Item \ {what[r]} : place'[j] = Bin <=> place[j] = Bin
    BY <2>1, <2>2, <2>5, BinAssumption DEF Arrive
  <2>9. place'[what[r]] # Bin
    BY <1>2, <2>1, <2>2, <2>5, BinAssumption DEF Arrive
  <2>10. EndTouch(r, M) BY <2>1, <2>2
  <2> HIDE DEF M
  <2>11. TypeOK' BY <2>1, <2>7, <2>10, EndTypes DEF TypeOK
  <2>12. ASSUME NEW q \in Request PROVE Good(q)'
    <3>1. CASE q = r BY <2>10, <3>1, EndTypes DEF Good, Ready, Clear, Kept
    <3>2. CASE q # r
      <4>1. pc[q] \in {"record", "back"} =>
               place'[what[q]] = place[what[q]] /\ what[q] \notin recorded' \ recorded
        BY <1>1, <2>1, <2>8, <3>2 DEF Apart, Good, Ready
      <4>2. QED BY <2>6, <2>7, <2>10, <3>2, <4>1, EndTypes, OthersGood
    <3>3. QED BY <3>1, <3>2
  <2>13. Apart' BY <2>10, EndTypes DEF Apart
  <2>14. RecordedInTrash' BY <1>2, <2>1, <2>8 DEF RecordedInTrash, TypeOK
  <2>15. NothingStranded'
    <3>1. \A q \in Request \ {r} : pc'[q] = pc[q] /\ what'[q] = what[q]
      BY <2>10, EndTypes
    <3>2. QED BY <2>1, <2>8, <2>9, <3>1 DEF NothingStranded, At
  <2>16. QED BY <2>7, <2>11, <2>12, <2>13, <2>14, <2>15
<1>4. CASE /\ stranded' = stranded \cup {what[r]}
           /\ EndTouch(r, {}) /\ UNCHANGED <<place, recorded>>
  <2>1. Change({}) /\ Sound' /\ place' \in [Item -> Spot \cup {Bin, None}]
    BY <1>4, NoChange DEF Sound, Rooted, Alone, Parent, TypeOK
  <2>2. TypeOK' BY <1>2, <1>4, <2>1, EndTypes DEF TypeOK
  <2>3. ASSUME NEW q \in Request PROVE Good(q)'
    <3>1. CASE q = r BY <1>4, <3>1, EndTypes DEF Good, Ready, Clear, Kept
    <3>2. CASE q # r BY <1>4, <2>1, <3>2, EndTypes, OthersGood
    <3>3. QED BY <3>1, <3>2
  <2>4. Apart' BY <1>4, EndTypes DEF Apart
  <2>5. RecordedInTrash' BY <1>4 DEF RecordedInTrash
  <2>6. NothingStranded'
    <3>1. \A q \in Request \ {r} : pc'[q] = pc[q] /\ what'[q] = what[q]
      BY <1>4, EndTypes
    <3>2. QED BY <1>4, <3>1 DEF NothingStranded, At
  <2>7. QED BY <2>1, <2>2, <2>3, <2>4, <2>5, <2>6
<1>5. QED BY <1>3, <1>4 DEF RollBack

LEMMA CrashIInv ==
    ASSUME IInv, Crash
    PROVE  IInv'
<1> USE DEF IInv
<1>1. /\ place' = place /\ recorded' = recorded
      /\ pc' = [r \in Request |-> "idle"] /\ safe' = [r \in Request |-> {}]
      /\ stranded' = stranded \cup
           {what[r] : r \in {q \in Request : At(q, "record") \/ At(q, "back")}}
  BY DEF Crash
<1>2. \A r \in Request : pc[r] \in {"record", "back"} => what[r] \in Item
  BY DEF Good, Ready
<1>3. TypeOK'
  <2>1. stranded' \subseteq Item BY <1>1, <1>2 DEF TypeOK, At
  <2>2. /\ source' \in [Request -> Path \cup {None}]
        /\ target' \in [Request -> Path \cup {None}]
        /\ op' \in [Request -> {"move", "copy"}]
        /\ what' \in [Request -> Item \cup {None}]
    BY DEF Crash
  <2>3. pc' \in [Request -> Point] /\ safe' \in [Request -> SUBSET Item]
    BY <1>1 DEF Point
  <2>4. QED BY <1>1, <2>1, <2>2, <2>3 DEF TypeOK
<1>4. \A r \in Request : Good(r)' BY <1>1 DEF Good, Ready, Clear, Kept
<1>5. Apart' BY <1>1 DEF Apart
<1>6. Sound' /\ RecordedInTrash'
  BY <1>1 DEF Sound, Rooted, Alone, Parent, RecordedInTrash
<1>7. NothingStranded' BY <1>1 DEF NothingStranded, At
<1>8. QED BY <1>3, <1>4, <1>5, <1>6, <1>7

-----------------------------------------------------------------------------
(* The theorems.                                                           *)

LEMMA InitIInv == Init => IInv
<1>1. SUFFICES ASSUME Init PROVE IInv OBVIOUS
<1> USE <1>1
<1>2. place \in [Item -> {None} \cup ({Root} \X Name)] BY DEF Init
<1>3. \A i \in Item : place[i] = None \/ place[i] \in {Root} \X Name BY <1>2
<1>4. {Root} \X Name \subseteq Spot BY DEF Spot
<1>5. TypeOK
  <2>1. place \in [Item -> Spot \cup {Bin, None}] BY <1>2, <1>4
  <2>2. QED BY <2>1 DEF Init, TypeOK, Point
<1>6. \A i \in Item : Parent(i) \in {None, Root}
  BY <1>3, <1>4, BinAssumption DEF Parent
<1>7. Rooted BY <1>6, RootAssumption, NoneAssumption DEF Rooted, Item
<1>8. Alone BY BinAssumption DEF Init, Alone
<1>9. \A i \in Item : place[i] # Bin BY <1>3, <1>4, BinAssumption
<1>10. Apart /\ RecordedInTrash /\ NothingStranded
  BY <1>9 DEF Init, Apart, RecordedInTrash, NothingStranded
<1>11. \A r \in Request : Good(r) BY DEF Init, Good, Ready, Clear, Kept
<1>12. QED BY <1>5, <1>7, <1>8, <1>10, <1>11 DEF IInv, Sound

LEMMA NextIInv == IInv /\ [Next]_vars => IInv'
<1>1. SUFFICES ASSUME IInv, [Next]_vars PROVE IInv' OBVIOUS
<1> USE <1>1
<1>2. CASE UNCHANGED vars
  BY <1>2 DEF vars, tree, req, IInv, TypeOK, Sound, Rooted, Alone, Apart,
              RecordedInTrash, NothingStranded, Good, Ready, Clear, Kept, Aim, Found,
              Dirs, Parent, At
<1>3. ASSUME NEW r \in Request, Step(r) PROVE IInv'
  BY <1>3, AskIInv, RemovePathIInv, MovePathIInv, CopyPathIInv, DeleteIInv, RecordIInv,
     RollBackIInv, UploadIInv, StatTargetIInv, PersistIInv
  DEF Step
<1>4. QED BY <1>2, <1>3, CreateFolderIInv, CrashIInv DEF Next

\* Whatever requests, uploads, failures and crashes do, the invariant of the
\* operations holds (operations.go, trash.go, folders.go).
THEOREM Invariance == Spec => []IInv
BY InitIInv, NextIInv, PTL DEF Spec

\* Every variable keeps its type.
THEOREM TypeCorrect == Spec => []TypeOK
<1>1. IInv => TypeOK BY DEF IInv
<1>2. QED BY <1>1, Invariance, PTL

\* No request takes a file from under its row in the trash (HandleDelete and the
\* operations that refuse the trash).
THEOREM RecordedStay == Spec => []RecordedInTrash
<1>1. IInv => RecordedInTrash BY DEF IInv
<1>2. QED BY <1>1, Invariance, PTL

\* A deletion that fails has not hidden its file (HandleDelete's rename back).
THEOREM NothingIsStranded == Spec => []NothingStranded
<1>1. IInv => NothingStranded BY DEF IInv
<1>2. QED BY <1>1, Invariance, PTL

-----------------------------------------------------------------------------
(* What is lost.                                                           *)

Lost == {i \in Item : place[i] # None /\ place'[i] = None}

\* What an arrival replaces at a path, or in a folder at that path, is not safe.
LEMMA ArriveLoses ==
    ASSUME TypeOK, NEW r \in Request, Kept(r), NEW p \in Path, NEW base \in Name,
           Found(p) \cap safe[r] = {}, NEW spot \in Spots(p, base), NEW i \in Item,
           Arrive(i, spot)
    PROVE  Lost \cap safe[r] = {}
<1>1. spot \in Spot BY SpotsStored
<1>2. SUFFICES ASSUME NEW j \in Item, place[j] = spot, j \in safe[r] PROVE FALSE
  BY <1>1, BinAssumption DEF Lost, Arrive
<1>3. CASE \E d \in Dirs(p) : spot = <<d, p[2]>> BY <1>2, <1>3 DEF Found
<1>4. CASE \E o \in Found(p) \cap Folder : spot = <<o, base>>
  <2>1. PICK o \in Found(p) \cap Folder : spot = <<o, base>> BY <1>4
  <2>2. Parent(j) = o BY <1>1, <1>2, <2>1, Parents
  <2>3. o \in safe[r]
    BY <1>2, <2>1, <2>2, NoneAssumption, RootAssumption DEF Kept, Item
  <2>4. QED BY <2>1, <2>3
<1>5. QED BY <1>3, <1>4 DEF Spots

LEMMA StepLoses ==
    ASSUME IInv, NEW r \in Request, Step(r)
    PROVE  Lost \cap safe[r] = {}
<1> USE DEF IInv
<1>1. Good(r) /\ Kept(r) /\ safe[r] \in SUBSET Item BY DEF Good, TypeOK
<1>2. CASE place' = place BY <1>2 DEF Lost
<1>3. CASE removePath(r)
  <2>1. pc[r] = "remove" /\ target[r] \in Path BY <1>1, <1>3 DEF removePath, At, Good, Ready
  <2>2. PICK gone \in SUBSET Swept(target[r]) : Remove(gone) BY <1>3 DEF removePath
  <2>3. Found(target[r]) \cap safe[r] = {} BY <1>1, <2>1 DEF Good, Clear, Aim
  <2>4. Closed(Item \ safe[r])
    BY <1>1, Parents, NoneAssumption, RootAssumption DEF Closed, Kept, Item
  <2>5. \A o \in Found(target[r]) : Below(o) \subseteq Item \ safe[r]
    BY <2>1, <2>3, <2>4, Members, BelowLeast
  <2>6. Swept(target[r]) \cap safe[r] = {} BY <2>5 DEF Swept
  <2>7. QED BY <2>2, <2>6 DEF Lost, Remove
<1>4. CASE movePath(r) /\ place' # place
  <2>1. pc[r] = "move" /\ target[r] \in Path /\ source[r] \in Path
    BY <1>1, <1>4 DEF movePath, At, Good, Ready
  <2>2. PICK i \in Found(source[r]), spot \in Spots(target[r], source[r][2]) :
           Arrive(i, spot)
    BY <1>4 DEF movePath, Fail, tree
  <2>3. Found(target[r]) \cap safe[r] = {} BY <1>1, <2>1 DEF Good, Clear, Aim
  <2>4. i \in Item /\ source[r][2] \in Name BY <2>1, Members DEF Path
  <2>5. QED BY <1>1, <2>1, <2>2, <2>3, <2>4, ArriveLoses
<1>5. CASE copyPath(r) /\ place' # place
  <2>1. pc[r] = "copy" /\ target[r] \in Path /\ source[r] \in Path
    BY <1>1, <1>5 DEF copyPath, At, Good, Ready
  <2>2. PICK i \in Found(source[r]), j \in Item,
             spot \in Spots(target[r], source[r][2]) : Arrive(j, spot)
    BY <1>5 DEF copyPath, Fail, tree, Appear
  <2>3. Found(target[r]) \cap safe[r] = {} BY <1>1, <2>1 DEF Good, Clear, Aim
  <2>4. source[r][2] \in Name BY <2>1 DEF Path
  <2>5. QED BY <1>1, <2>1, <2>2, <2>3, <2>4, ArriveLoses
<1>6. CASE persistUploadedFile(r) /\ place' # place
  <2>1. pc[r] = "persist" /\ target[r] \in Path
    BY <1>1, <1>6 DEF persistUploadedFile, At, Good, Ready
  <2>2. PICK i \in File, n \in Name : \E spot \in Spots(target[r], n) : Arrive(i, spot)
    BY <1>6 DEF persistUploadedFile, Fail, tree, Appear
  <2>3. PICK spot \in Spots(target[r], n) : Arrive(i, spot) BY <2>2
  <2>4. Found(target[r]) \cap safe[r] = {} BY <1>1, <2>1 DEF Good, Clear, Aim
  <2>5. i \in Item BY DEF Item
  <2>6. QED BY <1>1, <2>1, <2>3, <2>4, <2>5, ArriveLoses
<1>7. CASE HandleDelete(r)
  <2>1. pc[r] = "idle" BY <1>7 DEF HandleDelete, At
  <2>2. QED BY <1>1, <2>1 DEF Good, Ready
<1>8. CASE Upload(r)
  <2>1. pc[r] = "idle" BY <1>8 DEF Upload, At
  <2>2. QED BY <1>1, <2>1 DEF Good, Ready
<1>9. CASE RollBack(r) /\ place' # place
  <2>1. pc[r] = "back" /\ source[r] \in Path /\ what[r] \in Item
    BY <1>1, <1>9 DEF RollBack, At, Good, Ready
  <2>2. PICK d \in Dirs(source[r]) : Arrive(what[r], <<d, source[r][2]>>)
    BY <1>9 DEF RollBack
  <2>3. <<d, source[r][2]>> \in Spots(source[r], source[r][2]) BY DEF Spots
  <2>4. Found(source[r]) \cap safe[r] = {} BY <1>1, <2>1 DEF Good, Clear, Aim
  <2>5. source[r][2] \in Name BY <2>1 DEF Path
  <2>6. QED BY <1>1, <2>1, <2>2, <2>3, <2>4, <2>5, ArriveLoses
<1>10. CASE HandleRename(r) \/ HandleMove(r) \/ HandleCopy(r)
  BY <1>2, <1>10 DEF HandleRename, HandleMove, HandleCopy, Check, Proceed, tree
<1>11. CASE AddRecycleBinItem(r) BY <1>2, <1>11 DEF AddRecycleBinItem, tree
<1>12. CASE StatTarget(r) BY <1>2, <1>12 DEF StatTarget, Fail, tree
<1>13. QED BY <1>2, <1>3, <1>4, <1>5, <1>6, <1>7, <1>8, <1>9, <1>10, <1>11, <1>12 DEF Step

LEMMA StepAlone ==
    ASSUME TypeOK, NEW r \in Request, Step(r), NEW q \in Request \ {r}
    PROVE  pc'[q] = pc[q]
<1>1. CASE \E M : EndTouch(r, M) BY <1>1, EndTypes
<1>2. CASE \E point : Goto(r, point) BY <1>2 DEF Goto, TypeOK
<1>3. QED
  BY <1>1, <1>2 DEF Step, HandleRename, HandleMove, HandleCopy, Check, Proceed,
     removePath, movePath, copyPath, HandleDelete, AddRecycleBinItem, RollBack,
     Upload, StatTarget, persistUploadedFile, Fail

\* A request destroys only what has come to its target since it looked, by a step of
\* somebody else, or what it was asked to overwrite.
THEOREM OthersAreKept == Spec => OnlyNewcomersLost
<1> DEFINE Keeps == \A r \in Request, i \in Item :
              pc'[r] # pc[r] /\ place[i] # None /\ place'[i] = None => i \notin safe[r]
<1>1. IInv /\ [Next]_vars => [Keeps]_vars
  <2>1. SUFFICES ASSUME IInv, Next, NEW r \in Request, NEW i \in Item, pc'[r] # pc[r],
                        place[i] # None, place'[i] = None
                 PROVE  i \notin safe[r]
    OBVIOUS
  <2>2. CASE \E q \in Request : Step(q)
    <3>1. PICK q \in Request : Step(q) BY <2>2
    <3>2. q = r BY <2>1, <3>1, StepAlone DEF IInv
    <3>3. QED BY <2>1, <3>1, <3>2, StepLoses DEF Lost
  <2>3. CASE HandleCreateFolder BY <2>1, <2>3 DEF HandleCreateFolder
  <2>4. CASE Crash BY <2>1, <2>4 DEF Crash
  <2>5. QED BY <2>1, <2>2, <2>3, <2>4 DEF Next
<1>2. QED BY <1>1, Invariance, PTL DEF OnlyNewcomersLost, Spec

=============================================================================
