---------------------------- MODULE AccountsProofs ----------------------------
(***************************************************************************)
(* Theorems about Accounts, for any sets of users, groups and sessions and *)
(* any number of concurrent requests and crashes.                          *)
(***************************************************************************)
EXTENDS Accounts, TLAPS

USE DefaultAssumption, NoneAssumption, NewAssumption, EditAssumption
USE DEF Point, Life, Leave, Updating, UserPoint, Goto, At, tables, db, locals, hist

-----------------------------------------------------------------------------
(* Types.                                                                  *)

LEMMA ConstantTypes == Blank \in Account /\ First \in Account
  BY DEF Account, Blank, First

LEMMA MergeType ==
    ASSUME NEW e \in Edit \cup {NoEdit}, NEW row \in Account
    PROVE  Merge(e, row) \in Account
  BY DEF Merge, Account, NoEdit

\* The part of TypeOK about the variables of handlers.
LocalsOK ==
    /\ pc \in [Handler -> Point] /\ who \in [Handler -> User \cup {None}]
    /\ which \in [Handler -> Group \cup {None}]
    /\ token \in [Handler -> Session \cup {None}]
    /\ want \in [Handler -> (SUBSET Group) \cup {Leave}]
    /\ todo \in [Handler -> SUBSET Group]
    /\ item \in [Handler -> Account] /\ edit \in [Handler -> Edit \cup {NoEdit}]

LEMMA ReturnTypes ==
    ASSUME TypeOK, NEW h \in Handler, Return(h)
    PROVE  LocalsOK'
  BY ConstantTypes DEF TypeOK, LocalsOK, Return

LEMMA ProceedTypes ==
    ASSUME TypeOK, NEW h \in Handler, NEW point \in Point, Proceed(h, point)
    PROVE  LocalsOK'
  BY DEF TypeOK, LocalsOK, Proceed

-----------------------------------------------------------------------------
(* Every step keeps the invariant.                                         *)

\* A handler that is not in a transaction and not updating moves, and nothing
\* else does.
Elsewhere(h) ==
    /\ UNCHANGED <<tables, db, late>>
    /\ pc[h] \notin {"fill"} \cup Updating /\ pc'[h] \notin {"fill"} \cup Updating
    /\ \A k \in Handler \ {h} :
         /\ pc'[k] = pc[k] /\ who'[k] = who[k] /\ item'[k] = item[k]
         /\ want'[k] = want[k] /\ todo'[k] = todo[k]

LEMMA ElsewhereIInv ==
    ASSUME IInv, NEW h \in Handler, Elsewhere(h), TypeOK', InPlace'
    PROVE  IInv'
<1> USE DEF Elsewhere
<1>1. RowsOwned' /\ Blanks'
  BY DEF IInv, RowsOwned, Blanks
<1>2. InTransaction'
  <2>1. \A k \in Handler : pc'[k] = "fill" <=> pc[k] = "fill"
    OBVIOUS
  <2>2. conn # None => conn \in Handler \ {h} /\ who'[conn] = who[conn]
                       /\ want'[conn] = want[conn] /\ todo'[conn] = todo[conn]
    BY DEF IInv, TypeOK, InTransaction
  <2> QED  BY <2>1, <2>2 DEF IInv, InTransaction, Here, GroupsOf
<1>3. Copies'
  BY DEF IInv, Copies
<1> QED  BY <1>1, <1>2, <1>3 DEF IInv

LEMMA LoginIInv ==
    ASSUME IInv, NEW h \in Handler, Login(h)
    PROVE  IInv'
<1> USE DEF Login, Here
<1>1. TypeOK'
  BY DEF IInv, TypeOK
<1>2. InPlace'
  BY DEF IInv, TypeOK, InPlace
<1>3. Elsewhere(h)
  BY DEF IInv, Elsewhere
<1> QED  BY <1>1, <1>2, <1>3, ElsewhereIInv

LEMMA HandleLogoutIInv ==
    ASSUME IInv, NEW h \in Handler, HandleLogout(h)
    PROVE  IInv'
<1> USE DEF HandleLogout
<1>1. TypeOK'
  BY DEF IInv, TypeOK
<1>2. InPlace'
  BY DEF IInv, TypeOK, InPlace, Admitted
<1>3. Elsewhere(h)
  BY DEF IInv, Elsewhere
<1> QED  BY <1>1, <1>2, <1>3, ElsewhereIInv

LEMMA HandleUpdateMyPasswordIInv ==
    ASSUME IInv, NEW h \in Handler, HandleUpdateMyPassword(h)
    PROVE  IInv'
<1> USE DEF HandleUpdateMyPassword
<1>1. TypeOK'
  BY DEF IInv, TypeOK
<1>2. InPlace'
  BY DEF IInv, TypeOK, InPlace, RowsOwned, Admitted, Here
<1>3. Elsewhere(h)
  BY DEF IInv, Elsewhere
<1> QED  BY <1>1, <1>2, <1>3, ElsewhereIInv

LEMMA HandleCreateIInv ==
    ASSUME IInv, NEW h \in Handler, HandleCreate(h)
    PROVE  IInv'
<1> USE DEF HandleCreate, Validate, AdminAsks
<1>1. TypeOK'
  BY DEF IInv, TypeOK
<1>2. InPlace'
  BY DEF IInv, TypeOK, InPlace
<1>3. Elsewhere(h)
  BY DEF IInv, Elsewhere
<1> QED  BY <1>1, <1>2, <1>3, ElsewhereIInv

LEMMA HandleUpdateIInv ==
    ASSUME IInv, NEW h \in Handler, HandleUpdate(h)
    PROVE  IInv'
<1> USE DEF HandleUpdate, AdminAsks
<1>1. TypeOK'
  BY DEF IInv, TypeOK
<1>2. InPlace'
  BY DEF IInv, TypeOK, InPlace
<1>3. Elsewhere(h)
  BY DEF IInv, Elsewhere
<1> QED  BY <1>1, <1>2, <1>3, ElsewhereIInv

LEMMA HandleDeleteIInv ==
    ASSUME IInv, NEW h \in Handler, HandleDelete(h)
    PROVE  IInv'
<1> USE DEF HandleDelete, AdminAsks
<1>1. TypeOK'
  BY DEF IInv, TypeOK
<1>2. InPlace'
  BY DEF IInv, TypeOK, InPlace
<1>3. Elsewhere(h)
  BY DEF IInv, Elsewhere
<1> QED  BY <1>1, <1>2, <1>3, ElsewhereIInv

LEMMA HandleCreateGroupIInv ==
    ASSUME IInv, NEW h \in Handler, HandleCreateGroup(h)
    PROVE  IInv'
<1> USE DEF HandleCreateGroup, AdminAsks
<1>1. TypeOK'
  BY DEF IInv, TypeOK
<1>2. InPlace'
  BY DEF IInv, InPlace
<1>3. Elsewhere(h)
  BY DEF IInv, Elsewhere
<1> QED  BY <1>1, <1>2, <1>3, ElsewhereIInv

LEMMA HandleDeleteGroupIInv ==
    ASSUME IInv, NEW h \in Handler, HandleDeleteGroup(h)
    PROVE  IInv'
<1> USE DEF HandleDeleteGroup, AdminAsks
<1>1. TypeOK'
  BY DEF IInv, TypeOK
<1>2. InPlace'
  BY DEF IInv, TypeOK, InPlace
<1>3. Elsewhere(h)
  BY DEF IInv, Elsewhere
<1> QED  BY <1>1, <1>2, <1>3, ElsewhereIInv

LEMMA CreateSessionIInv ==
    ASSUME IInv, NEW h \in Handler, CreateSession(h)
    PROVE  IInv'
<1> USE DEF CreateSession, NewSession
<1>1. TypeOK'
  <2>1. LocalsOK'
    BY ReturnTypes DEF IInv
  <2> QED  BY <2>1 DEF IInv, TypeOK, InPlace, LocalsOK
<1>2. InPlace'
  BY DEF IInv, TypeOK, InPlace, Return
<1>3. RowsOwned'
  BY DEF IInv, TypeOK, InPlace, RowsOwned, Here
<1>4. Blanks'
  BY DEF IInv, Blanks
<1>5. InTransaction'
  BY DEF IInv, InTransaction, Return
<1>6. Copies'
  BY DEF IInv, Copies, Return
<1> QED  BY <1>1, <1>2, <1>3, <1>4, <1>5, <1>6 DEF IInv

LEMMA RelookIInv ==
    ASSUME IInv, NEW h \in Handler, Relook(h)
    PROVE  IInv'
<1> USE DEF Relook
<1>1. TypeOK'
  <2>1. LocalsOK'
    BY ReturnTypes, ProceedTypes DEF IInv
  <2> QED  BY <2>1 DEF IInv, TypeOK, LocalsOK
<1>2. InPlace'
  BY DEF IInv, TypeOK, InPlace, Return, Proceed
<1>3. Elsewhere(h)
  BY DEF IInv, TypeOK, Elsewhere, Return, Proceed
<1> QED  BY <1>1, <1>2, <1>3, ElsewhereIInv

LEMMA RevokeSessionIInv ==
    ASSUME IInv, NEW h \in Handler, RevokeSession(h)
    PROVE  IInv'
<1> USE DEF RevokeSession
<1>1. TypeOK'
  <2>1. LocalsOK'
    BY ReturnTypes DEF IInv
  <2> QED  BY <2>1 DEF IInv, TypeOK, LocalsOK
<1>2. InPlace'
  BY DEF IInv, TypeOK, InPlace, Return
<1>3. RowsOwned'
  BY DEF IInv, TypeOK, InPlace, RowsOwned
<1>4. Blanks'
  BY DEF IInv, Blanks
<1>5. InTransaction'
  BY DEF IInv, InTransaction, Return
<1>6. Copies'
  BY DEF IInv, Copies, Return
<1> QED  BY <1>1, <1>2, <1>3, <1>4, <1>5, <1>6 DEF IInv

LEMMA ReadOwnIInv ==
    ASSUME IInv, NEW h \in Handler, ReadOwn(h)
    PROVE  IInv'
<1> USE DEF ReadOwn
<1>1. TypeOK'
  <2>1. LocalsOK'
    BY ReturnTypes, ProceedTypes DEF IInv
  <2> QED  BY <2>1 DEF IInv, TypeOK, LocalsOK
<1>2. InPlace'
  BY DEF IInv, TypeOK, InPlace, Return, Proceed
<1>3. Elsewhere(h)
  BY DEF IInv, TypeOK, Elsewhere, Return, Proceed
<1> QED  BY <1>1, <1>2, <1>3, ElsewhereIInv

LEMMA WriteOwnIInv ==
    ASSUME IInv, NEW h \in Handler, WriteOwn(h)
    PROVE  IInv'
<1> USE DEF WriteOwn, UpdateUser, Overtake
<1>1. TypeOK'
  <2>1. LocalsOK'
    BY ReturnTypes DEF IInv
  <2>2. ASSUME NEW p \in Password
        PROVE  [account[who[h]] EXCEPT !.pass = p] \in Account
    <3>1. who[h] \in User
      BY DEF IInv, TypeOK, InPlace
    <3>2. account[who[h]] \in Account
      BY <3>1 DEF IInv, TypeOK
    <3> HIDE DEF WriteOwn, UpdateUser, Overtake
    <3> QED  BY <3>2 DEF Account
  <2>3. account' \in [User -> Account] /\ late' \subseteq Handler
    <3>1. PICK p \in Password : UpdateUser(h, who[h], [account[who[h]] EXCEPT !.pass = p])
      OBVIOUS
    <3>2. account' = account
             \/ account' = [account EXCEPT ![who[h]] = [account[who[h]] EXCEPT !.pass = p]]
      BY <3>1
    <3>3. late' \subseteq Handler
      BY <3>1 DEF IInv, TypeOK
    <3>4. account \in [User -> Account]
      BY DEF IInv, TypeOK
    <3> HIDE DEF WriteOwn, UpdateUser, Overtake
    <3> QED  BY <2>2, <3>1, <3>2, <3>3, <3>4
  <2> QED  BY <2>1, <2>3 DEF IInv, TypeOK, LocalsOK
<1>2. InPlace'
  BY DEF IInv, TypeOK, InPlace, Return
<1>3. RowsOwned'
  BY DEF IInv, RowsOwned
<1>4. Blanks'
  BY DEF IInv, Blanks
<1>5. InTransaction'
  BY DEF IInv, InTransaction, Return
<1>6. Copies'
  BY DEF IInv, Copies, Return
<1> QED  BY <1>1, <1>2, <1>3, <1>4, <1>5, <1>6 DEF IInv

LEMMA InsertIInv ==
    ASSUME IInv, NEW h \in Handler, Insert(h)
    PROVE  IInv'
<1> USE DEF Insert
<1>1. TypeOK'
  <2>1. CASE Return(h) /\ UNCHANGED <<user, account>>
    <3>1. LocalsOK'
      BY <2>1, ReturnTypes DEF IInv
    <3> QED  BY <2>1, <3>1 DEF IInv, TypeOK, LocalsOK
  <2>2. CASE ~(Return(h) /\ UNCHANGED <<user, account>>)
    BY <2>2 DEF IInv, TypeOK
  <2> QED  BY <2>1, <2>2
<1>2. InPlace'
  BY DEF IInv, TypeOK, InPlace, Return
<1>3. RowsOwned'
  BY DEF IInv, RowsOwned, Here
<1>4. Blanks'
  BY DEF IInv, TypeOK, Blanks
<1>5. InTransaction'
  BY DEF IInv, TypeOK, InTransaction, Return
<1>6. Copies'
  BY DEF IInv, TypeOK, InPlace, Copies, Here, Return
<1> QED  BY <1>1, <1>2, <1>3, <1>4, <1>5, <1>6 DEF IInv

LEMMA LoadIInv ==
    ASSUME IInv, NEW h \in Handler, Load(h)
    PROVE  IInv'
<1> USE DEF Load, Read, ReadAs, Validate
<1>1. TypeOK'
  <2>1. CASE Read(h)
    <3>1. PICK e \in Edit, requested \in (SUBSET Group) \cup {Leave} :
            /\ edit' = [edit EXCEPT ![h] = e]
            /\ Validate(h, requested, "recheck", "write")
      BY <2>1
    <3>2. /\ want' \in [Handler -> (SUBSET Group) \cup {Leave}]
          /\ todo' \in [Handler -> SUBSET Group] /\ pc' \in [Handler -> Point]
      BY <3>1 DEF IInv, TypeOK
    <3>3. item' \in [Handler -> Account] /\ edit' \in [Handler -> Edit \cup {NoEdit}]
      BY <2>1, <3>1 DEF IInv, TypeOK, InPlace
    <3>4. UNCHANGED <<tables, db, who, which, token>> /\ late' \subseteq Handler
      BY <2>1 DEF IInv, TypeOK
    <3> HIDE DEF Load, Read, ReadAs, Validate
    <3> QED  BY <3>2, <3>3, <3>4 DEF IInv, TypeOK
  <2>2. CASE Return(h) /\ UNCHANGED late
    <3>1. LocalsOK'
      BY <2>2, ReturnTypes DEF IInv
    <3> QED  BY <2>2, <3>1 DEF IInv, TypeOK, LocalsOK
  <2> QED  BY <2>1, <2>2
<1>2. InPlace'
  BY DEF IInv, TypeOK, InPlace, Return
<1>3. RowsOwned'
  BY DEF IInv, RowsOwned
<1>4. Blanks'
  BY DEF IInv, Blanks
<1>5. InTransaction'
  BY DEF IInv, TypeOK, InTransaction, Return
<1>6. Copies'
  BY DEF IInv, TypeOK, Copies, Return
<1> QED  BY <1>1, <1>2, <1>3, <1>4, <1>5, <1>6 DEF IInv

LEMMA WriteIInv ==
    ASSUME IInv, NEW h \in Handler, Write(h)
    PROVE  IInv'
<1> USE DEF Write, UpdateUser, Overtake
<1>1. TypeOK'
  <2>1. LocalsOK'
    <3>1. CASE want[h] = Leave
      BY <3>1, ReturnTypes DEF IInv
    <3>2. CASE want[h] # Leave
      BY <3>2, ConstantTypes DEF IInv, TypeOK, LocalsOK
    <3> QED  BY <3>1, <3>2
  <2>2. Merge(edit[h], item[h]) \in Account
    BY MergeType DEF IInv, TypeOK
  <2> QED  BY <2>1, <2>2 DEF IInv, TypeOK, LocalsOK
<1>2. InPlace'
  BY DEF IInv, TypeOK, InPlace, Return
<1>3. RowsOwned'
  BY DEF IInv, RowsOwned
<1>4. Blanks'
  BY DEF IInv, Blanks
<1>5. InTransaction'
  BY DEF IInv, TypeOK, InTransaction, Return
<1>6. Copies'
  BY DEF IInv, TypeOK, Copies, Return, Merge
<1> QED  BY <1>1, <1>2, <1>3, <1>4, <1>5, <1>6 DEF IInv

LEMMA BeginIInv ==
    ASSUME IInv, NEW h \in Handler, Begin(h)
    PROVE  IInv'
<1> USE DEF Begin
<1>1. TypeOK'
  BY DEF IInv, TypeOK, InPlace
<1>2. InPlace'
  BY DEF IInv, InPlace
<1>3. RowsOwned'
  BY DEF IInv, RowsOwned
<1>4. Blanks'
  BY DEF IInv, Blanks
<1>5. InTransaction'
  BY DEF IInv, TypeOK, RowsOwned, InTransaction, GroupsOf
<1>6. Copies'
  BY DEF IInv, Copies
<1> QED  BY <1>1, <1>2, <1>3, <1>4, <1>5, <1>6 DEF IInv

LEMMA FillIInv ==
    ASSUME IInv, NEW h \in Handler, Fill(h)
    PROVE  IInv'
<1> USE DEF Fill, FillNext
<1>1. TypeOK'
  <2>1. PICK g \in todo[h] :
          IF group[g] = "here" /\ user[who[h]] = "here"
            THEN /\ draft' = draft \cup {<<who[h], g>>}
                 /\ todo' = [todo EXCEPT ![h] = @ \ {g}]
                 /\ UNCHANGED <<conn, pc, who, which, token, want, item, edit>>
            ELSE conn' = None /\ draft' = {} /\ Return(h)
    OBVIOUS
  <2>2. CASE group[g] = "here" /\ user[who[h]] = "here"
    BY <2>1, <2>2 DEF IInv, TypeOK, InPlace
  <2>3. CASE ~(group[g] = "here" /\ user[who[h]] = "here")
    <3>1. LocalsOK'
      BY <2>1, <2>3, ReturnTypes DEF IInv
    <3> QED  BY <2>1, <2>3, <3>1 DEF IInv, TypeOK, LocalsOK
  <2> QED  BY <2>2, <2>3
<1>2. InPlace'
  BY DEF IInv, TypeOK, InPlace, Return
<1>3. RowsOwned'
  BY DEF IInv, RowsOwned
<1>4. Blanks'
  BY DEF IInv, Blanks
<1>5. InTransaction'
  BY DEF IInv, TypeOK, InPlace, InTransaction, Here, GroupsOf, Return
<1>6. Copies'
  BY DEF IInv, TypeOK, Copies, Return
<1> QED  BY <1>1, <1>2, <1>3, <1>4, <1>5, <1>6 DEF IInv

LEMMA CommitIInv ==
    ASSUME IInv, NEW h \in Handler, Commit(h)
    PROVE  IInv'
<1> USE DEF Commit
<1>1. TypeOK'
  <2>1. LocalsOK'
    BY ReturnTypes DEF IInv
  <2> QED  BY <2>1 DEF IInv, TypeOK, LocalsOK
<1>2. InPlace'
  BY DEF IInv, TypeOK, InPlace, Return
<1>3. RowsOwned'
  BY DEF IInv, RowsOwned, InTransaction
<1>4. Blanks'
  BY DEF IInv, Blanks
<1>5. InTransaction'
  BY DEF IInv, TypeOK, InTransaction, Return
<1>6. Copies'
  BY DEF IInv, Copies, Return
<1> QED  BY <1>1, <1>2, <1>3, <1>4, <1>5, <1>6 DEF IInv

LEMMA FindIInv ==
    ASSUME IInv, NEW h \in Handler, Find(h)
    PROVE  IInv'
<1> USE DEF Find
<1>1. TypeOK'
  <2>1. LocalsOK'
    BY ReturnTypes, ProceedTypes DEF IInv
  <2> QED  BY <2>1 DEF IInv, TypeOK, LocalsOK
<1>2. InPlace'
  BY DEF IInv, TypeOK, InPlace, Return, Proceed
<1>3. Elsewhere(h)
  BY DEF IInv, TypeOK, Elsewhere, Return, Proceed
<1> QED  BY <1>1, <1>2, <1>3, ElsewhereIInv

LEMMA CountAdminsIInv ==
    ASSUME IInv, NEW h \in Handler, CountAdmins(h)
    PROVE  IInv'
<1> USE DEF CountAdmins
<1>1. TypeOK'
  <2>1. LocalsOK'
    BY ReturnTypes, ProceedTypes DEF IInv
  <2> QED  BY <2>1 DEF IInv, TypeOK, LocalsOK
<1>2. InPlace'
  BY DEF IInv, TypeOK, InPlace, Return, Proceed
<1>3. Elsewhere(h)
  BY DEF IInv, TypeOK, Elsewhere, Return, Proceed
<1> QED  BY <1>1, <1>2, <1>3, ElsewhereIInv

LEMMA RemoveIInv ==
    ASSUME IInv, NEW h \in Handler, Remove(h)
    PROVE  IInv'
<1> USE DEF Remove, DeleteUser
<1>1. TypeOK'
  <2>1. LocalsOK'
    BY ReturnTypes DEF IInv
  <2>2. who[h] \in User
    BY DEF IInv, InPlace
  <2>3. user' \in [User -> Life] /\ account' \in [User -> Account]
    BY <2>2, ConstantTypes DEF IInv, TypeOK
  <2>4. /\ status' \in [Session -> {"new", "active", "closed", "gone"}]
        /\ owner' \in [Session -> User \cup {None}]
    BY DEF IInv, TypeOK
  <2>5. member' \subseteq User \X Group /\ UNCHANGED <<group, db, hist>>
    BY DEF IInv, TypeOK
  <2> HIDE DEF Remove, DeleteUser
  <2> QED  BY <2>1, <2>3, <2>4, <2>5 DEF IInv, TypeOK, LocalsOK
<1>2. InPlace'
  BY DEF IInv, TypeOK, InPlace, Return
<1>3. RowsOwned'
  BY DEF IInv, TypeOK, RowsOwned, Here
<1>4. Blanks'
  BY DEF IInv, TypeOK, Blanks
<1>5. InTransaction'
  BY DEF IInv, InTransaction, Return
<1>6. Copies'
  BY DEF IInv, TypeOK, Copies, Here, Return
<1> QED  BY <1>1, <1>2, <1>3, <1>4, <1>5, <1>6 DEF IInv

LEMMA AddGroupIInv ==
    ASSUME IInv, NEW h \in Handler, AddGroup(h)
    PROVE  IInv'
<1> USE DEF AddGroup
<1>1. TypeOK'
  <2>1. LocalsOK'
    BY ReturnTypes DEF IInv
  <2> QED  BY <2>1 DEF IInv, TypeOK, LocalsOK
<1>2. InPlace'
  BY DEF IInv, TypeOK, InPlace, Return
<1>3. RowsOwned'
  BY DEF IInv, RowsOwned, Here
<1>4. Blanks'
  BY DEF IInv, Blanks
<1>5. InTransaction'
  BY DEF IInv, InTransaction, Return
<1>6. Copies'
  BY DEF IInv, Copies, Return
<1> QED  BY <1>1, <1>2, <1>3, <1>4, <1>5, <1>6 DEF IInv

LEMMA FindGroupIInv ==
    ASSUME IInv, NEW h \in Handler, FindGroup(h)
    PROVE  IInv'
<1> USE DEF FindGroup
<1>1. TypeOK'
  <2>1. LocalsOK'
    BY ReturnTypes, ProceedTypes DEF IInv
  <2> QED  BY <2>1 DEF IInv, TypeOK, LocalsOK
<1>2. InPlace'
  BY DEF IInv, TypeOK, InPlace, Return, Proceed
<1>3. Elsewhere(h)
  BY DEF IInv, TypeOK, Elsewhere, Return, Proceed
<1> QED  BY <1>1, <1>2, <1>3, ElsewhereIInv

LEMMA DropGroupIInv ==
    ASSUME IInv, NEW h \in Handler, DropGroup(h)
    PROVE  IInv'
<1> USE DEF DropGroup
<1>1. TypeOK'
  <2>1. LocalsOK'
    BY ReturnTypes DEF IInv
  <2> QED  BY <2>1 DEF IInv, TypeOK, LocalsOK
<1>2. InPlace'
  BY DEF IInv, TypeOK, InPlace, Return
<1>3. RowsOwned'
  BY DEF IInv, TypeOK, RowsOwned, Here
<1>4. Blanks'
  BY DEF IInv, Blanks
<1>5. InTransaction'
  BY DEF IInv, InTransaction, Return
<1>6. Copies'
  BY DEF IInv, Copies, Return
<1> QED  BY <1>1, <1>2, <1>3, <1>4, <1>5, <1>6 DEF IInv

LEMMA StatementFailsIInv ==
    ASSUME IInv, NEW h \in Handler, StatementFails(h)
    PROVE  IInv'
<1> USE DEF StatementFails
<1>1. TypeOK'
  <2>1. LocalsOK'
    BY ReturnTypes DEF IInv
  <2> QED  BY <2>1 DEF IInv, TypeOK, LocalsOK
<1>2. InPlace'
  BY DEF IInv, TypeOK, InPlace, Return
<1>3. RowsOwned'
  BY DEF IInv, RowsOwned
<1>4. Blanks'
  BY DEF IInv, Blanks
<1>5. InTransaction'
  BY DEF IInv, TypeOK, InTransaction, Return
<1>6. Copies'
  BY DEF IInv, TypeOK, Copies, Return
<1> QED  BY <1>1, <1>2, <1>3, <1>4, <1>5, <1>6 DEF IInv

LEMMA CheckIInv ==
    ASSUME IInv, NEW h \in Handler, NEW point \in {"check", "recheck"}, NEW after \in {"insert", "write"},
           point = "check" <=> after = "insert", Check(h, point, after)
    PROVE  IInv'
<1> USE DEF Check
<1>1. TypeOK'
  <2>1. PICK g \in todo[h] :
          IF group[g] = "here"
            THEN /\ todo' = [todo EXCEPT ![h] = @ \ {g}]
                 /\ pc' = [pc EXCEPT ![h] = IF todo[h] = {g} THEN after ELSE point]
                 /\ UNCHANGED <<who, which, token, want, item, edit>>
            ELSE Return(h)
    OBVIOUS
  <2>2. CASE group[g] = "here"
    BY <2>1, <2>2 DEF IInv, TypeOK
  <2>3. CASE group[g] # "here"
    <3>1. LocalsOK'
      BY <2>1, <2>3, ReturnTypes DEF IInv
    <3> QED  BY <2>1, <2>3, <3>1 DEF IInv, TypeOK, LocalsOK
  <2> QED  BY <2>2, <2>3
<1>2. InPlace'
  BY DEF IInv, TypeOK, InPlace, Return
<1>3. RowsOwned'
  BY DEF IInv, RowsOwned
<1>4. Blanks'
  BY DEF IInv, Blanks
<1>5. InTransaction'
  BY DEF IInv, TypeOK, InTransaction, Return
<1>6. Copies'
  BY DEF IInv, TypeOK, Copies, Return
<1> QED  BY <1>1, <1>2, <1>3, <1>4, <1>5, <1>6 DEF IInv

LEMMA ExpireIInv ==
    ASSUME IInv, NEW s \in Session, Expire(s)
    PROVE  IInv'
<1> USE DEF Expire
<1>1. TypeOK'
  BY DEF IInv, TypeOK
<1>2. RowsOwned'
  BY DEF IInv, RowsOwned
<1>3. InPlace' /\ Blanks' /\ InTransaction' /\ Copies'
  BY DEF IInv, InPlace, Blanks, InTransaction, Copies
<1> QED  BY <1>1, <1>2, <1>3 DEF IInv

LEMMA CrashIInv ==
    ASSUME IInv, Crash
    PROVE  IInv'
<1> USE DEF Crash
<1>1. TypeOK'
  BY ConstantTypes DEF IInv, TypeOK
<1>2. InPlace'
  BY DEF InPlace
<1>3. RowsOwned'
  BY DEF IInv, RowsOwned
<1>4. Blanks'
  BY DEF IInv, TypeOK, Blanks
<1>5. InTransaction' /\ Copies'
  BY DEF IInv, InTransaction, Copies
<1> QED  BY <1>1, <1>2, <1>3, <1>4, <1>5 DEF IInv

LEMMA InitIInv ==
    ASSUME Init
    PROVE  IInv
<1> USE DEF Init
<1>1. TypeOK
  BY DEF TypeOK, Account, Blank, First
<1>2. InPlace /\ RowsOwned /\ Blanks /\ InTransaction /\ Copies
  BY DEF InPlace, RowsOwned, Blanks, InTransaction, Copies
<1> QED  BY <1>1, <1>2 DEF IInv

LEMMA StutterIInv ==
    ASSUME IInv, UNCHANGED vars
    PROVE  IInv'
  BY DEF vars, IInv, TypeOK, InPlace, RowsOwned, Blanks, InTransaction, Copies

LEMMA NextIInv ==
    ASSUME IInv, Next
    PROVE  IInv'
<1>1. ASSUME NEW h \in Handler, Ask(h)
      PROVE  IInv'
  BY <1>1, LoginIInv, HandleLogoutIInv, HandleUpdateMyPasswordIInv, HandleCreateIInv, HandleUpdateIInv, HandleDeleteIInv, HandleCreateGroupIInv, HandleDeleteGroupIInv DEF Ask
<1>2. ASSUME NEW h \in Handler, Serve(h)
      PROVE  IInv'
  BY <1>2, CreateSessionIInv, RelookIInv, RevokeSessionIInv, ReadOwnIInv, WriteOwnIInv, InsertIInv, LoadIInv, WriteIInv, BeginIInv, FillIInv, CommitIInv, FindIInv, CountAdminsIInv, RemoveIInv, AddGroupIInv, FindGroupIInv, DropGroupIInv, CheckIInv DEF Serve
<1>3. ASSUME NEW h \in Handler, StatementFails(h)
      PROVE  IInv'
  BY <1>3, StatementFailsIInv
<1>4. ASSUME NEW s \in Session, Expire(s)
      PROVE  IInv'
  BY <1>4, ExpireIInv
<1> QED  BY <1>1, <1>2, <1>3, <1>4, CrashIInv DEF Next

-----------------------------------------------------------------------------
(* The theorems about states.                                              *)

\* The invariant is inductive, through every interleaving of the statements of
\* store.go, handler.go and auth.go, failures and restarts.
THEOREM Invariance == Spec => []IInv
<1>1. Init => IInv
  BY InitIInv
<1>2. IInv /\ [Next]_vars => IInv'
  BY NextIInv, StutterIInv
<1> QED  BY <1>1, <1>2, PTL DEF Spec

\* Every variable keeps its type: the rows of init.sql's tables are well formed.
THEOREM TypeCorrect == Spec => []TypeOK
<1>1. IInv => TypeOK
  BY DEF IInv
<1> QED  BY <1>1, Invariance, PTL

\* No session and no membership outlives its user or its group, whenever
\* CreateSession and ReplaceUserGroups write theirs.
THEOREM RowsAreOwned == Spec => []RowsOwned
<1>1. IInv => RowsOwned
  BY DEF IInv
<1> QED  BY <1>1, Invariance, PTL

\* Whoever waits for the connection (db.go:38) waits for a transaction of
\* ReplaceUserGroups that can go on: it has the connection that its statements
\* need, and validation never loops over no group.
THEOREM NobodyWaitsInVain == Spec => []OneIsWaitedFor
<1>1. IInv => OneIsWaitedFor
  <2> SUFFICES ASSUME IInv, NEW h \in Handler, pc[h] # "idle", ~Ready(h)
               PROVE  conn \in Handler \ {h} /\ Ready(conn)
    BY DEF OneIsWaitedFor
  <2>1. conn \notin {None, h}
    BY DEF IInv, InPlace, InTransaction, Ready
  <2> QED  BY <2>1 DEF IInv, TypeOK, InTransaction, Ready
<1> QED  BY <1>1, Invariance, PTL

-----------------------------------------------------------------------------
(* The theorems about steps.                                               *)

\* The steps that write a table.
Writes ==
    \/ \E h \in Handler :
          \/ CreateSession(h) \/ RevokeSession(h) \/ WriteOwn(h) \/ Insert(h) \/ Write(h)
          \/ Commit(h) \/ Remove(h) \/ AddGroup(h) \/ DropGroup(h)
    \/ \E s \in Session : Expire(s)
    \/ Crash

LEMMA OthersRead ==
    ASSUME [Next]_vars
    PROVE  Writes \/ UNCHANGED tables
<1>1. ASSUME NEW h \in Handler, Ask(h)
      PROVE  UNCHANGED tables
  BY <1>1 DEF Ask, Login, HandleLogout, HandleUpdateMyPassword, HandleCreate,
              HandleUpdate, HandleDelete, HandleCreateGroup, HandleDeleteGroup
<1>2. ASSUME NEW h \in Handler, Serve(h)
      PROVE  Writes \/ UNCHANGED tables
  BY <1>2 DEF Serve, Writes, Relook, ReadOwn, Check, Load, Begin, Fill, FillNext, Find,
              CountAdmins, FindGroup
<1>3. ASSUME NEW h \in Handler, StatementFails(h)
      PROVE  UNCHANGED tables
  BY <1>3 DEF StatementFails
<1>4. CASE UNCHANGED vars
  BY <1>4 DEF vars
<1> QED  BY <1>1, <1>2, <1>3, <1>4 DEF Next, Writes

\* A user, a group or a session that is gone or closed stays so, whatever a
\* request that read it before writes.
THEOREM GoneIsGone == Spec => GoneStaysGone
<1> DEFINE StaysGone ==
      /\ \A u \in User : user[u] = "gone" => user'[u] = "gone" /\ account'[u] = Blank
      /\ \A g \in Group : group[g] = "gone" => group'[g] = "gone"
      /\ \A s \in Session : status[s] \in {"closed", "gone"}
                              => status'[s] \in {"closed", "gone"}
<1>1. IInv /\ [Next]_vars => [StaysGone]_vars
  <2> SUFFICES ASSUME IInv, [Next]_vars PROVE StaysGone
    OBVIOUS
  <2>1. CASE UNCHANGED tables
    BY <2>1 DEF IInv, Blanks
  <2>2. ASSUME NEW h \in Handler, CreateSession(h) \/ RevokeSession(h)
        PROVE  StaysGone
    BY <2>2 DEF CreateSession, NewSession, RevokeSession, IInv, TypeOK, Blanks
  <2>3. ASSUME NEW h \in Handler, WriteOwn(h) \/ Write(h)
        PROVE  StaysGone
    BY <2>3 DEF WriteOwn, Write, UpdateUser, IInv, TypeOK, Blanks
  <2>4. ASSUME NEW h \in Handler, Insert(h) \/ Commit(h)
        PROVE  StaysGone
    BY <2>4 DEF Insert, Commit, IInv, TypeOK, Blanks
  <2>5. ASSUME NEW h \in Handler, Remove(h)
        PROVE  StaysGone
    BY <2>5 DEF Remove, DeleteUser, IInv, TypeOK, Blanks
  <2>6. ASSUME NEW h \in Handler, AddGroup(h) \/ DropGroup(h)
        PROVE  StaysGone
    BY <2>6 DEF AddGroup, DropGroup, IInv, TypeOK, Blanks
  <2>7. ASSUME NEW s \in Session, Expire(s)
        PROVE  StaysGone
    BY <2>7 DEF Expire, IInv, Blanks
  <2>8. CASE Crash
    BY <2>8 DEF Crash, IInv, TypeOK, Blanks
  <2> QED  BY <2>1, <2>2, <2>3, <2>4, <2>5, <2>6, <2>7, <2>8, OthersRead DEF Writes
<1> HIDE DEF StaysGone
<1>2. Spec => [][StaysGone]_vars
  BY <1>1, Invariance, PTL DEF Spec
<1> QED  BY <1>2 DEF GoneStaysGone, StaysGone

\* ReplaceUserGroups is all or nothing, whatever fails and whatever happens to
\* its groups and its user meanwhile.
THEOREM GroupsAreWhole == Spec => GroupsWhole
<1> DEFINE Whole ==
      \A u \in User :
         \/ GroupsOf(u, member') = GroupsOf(u, member) \cap Here(group')
         \/ u \notin Here(user')
         \/ \E h \in Handler : who[h] = u /\ pc[h] = "fill"
                                /\ GroupsOf(u, member') = want[h]
<1>1. IInv /\ [Next]_vars => [Whole]_vars
  <2> SUFFICES ASSUME IInv, [Next]_vars, NEW u \in User
               PROVE  \/ GroupsOf(u, member') = GroupsOf(u, member) \cap Here(group')
                      \/ u \notin Here(user')
                      \/ \E h \in Handler : who[h] = u /\ pc[h] = "fill"
                                             /\ GroupsOf(u, member') = want[h]
    OBVIOUS
  <2>0. GroupsOf(u, member) \subseteq Here(group)
    BY DEF IInv, RowsOwned, GroupsOf
  <2>1. CASE UNCHANGED <<member, group>>
    BY <2>0, <2>1
  <2>2. ASSUME NEW h \in Handler, Commit(h)
        PROVE  \/ GroupsOf(u, member') = GroupsOf(u, member) \cap Here(group')
               \/ who[h] = u /\ pc[h] = "fill" /\ GroupsOf(u, member') = want[h]
    <3>1. CASE who[h] = u
      BY <2>2, <3>1 DEF Commit, IInv, InTransaction
    <3>2. CASE who[h] # u
      BY <2>0, <2>2, <3>2 DEF Commit, IInv, InTransaction
    <3> QED  BY <3>1, <3>2
  <2>3. ASSUME NEW h \in Handler, Remove(h)
        PROVE  \/ GroupsOf(u, member') = GroupsOf(u, member) \cap Here(group')
               \/ u \notin Here(user')
    BY <2>0, <2>3 DEF Remove, DeleteUser, IInv, Here, GroupsOf
  <2>4. ASSUME NEW h \in Handler, AddGroup(h) \/ DropGroup(h)
        PROVE  GroupsOf(u, member') = GroupsOf(u, member) \cap Here(group')
    BY <2>0, <2>4 DEF AddGroup, DropGroup, IInv, Here, GroupsOf
  <2>5. CASE Writes /\ ~UNCHANGED <<member, group>>
    <3>1. \E h \in Handler : Commit(h) \/ Remove(h) \/ AddGroup(h) \/ DropGroup(h)
      BY <2>5 DEF Writes, CreateSession, RevokeSession, WriteOwn, Insert, Write, UpdateUser,
                  Expire, Crash
    <3> QED  BY <2>2, <2>3, <2>4, <3>1
  <2> QED  BY <2>1, <2>5, OthersRead
<1> HIDE DEF Whole
<1>2. Spec => [][Whole]_vars
  BY <1>1, Invariance, PTL DEF Spec
<1> QED  BY <1>2 DEF GroupsWhole, Whole

\* Passwords change by request, or are restored by an update that overlapped
\* with the change: Update never writes back a password that is not the current
\* one in any other case.
THEOREM PasswordIsKept == Spec => PasswordKept
<1> DEFINE Kept ==
      \A u \in Here(user) \cap Here(user') :
         account'[u].pass # account[u].pass =>
           \E h \in Handler :
             /\ who[h] = u
             /\ \/ pc[h] = "writeOwn"
                \/ (pc[h] = "write" /\ ("pass" \in DOMAIN edit[h] \/ h \in late))
<1>1. IInv /\ [Next]_vars => [Kept]_vars
  <2> SUFFICES ASSUME IInv, [Next]_vars PROVE Kept
    OBVIOUS
  <2>1. CASE UNCHANGED account
    BY <2>1
  <2>2. ASSUME NEW h \in Handler, WriteOwn(h)
        PROVE  Kept
    BY <2>2 DEF WriteOwn, UpdateUser, IInv
  <2>3. ASSUME NEW h \in Handler, Write(h)
        PROVE  Kept
    BY <2>3 DEF Write, UpdateUser, Merge, IInv, Copies
  <2>4. ASSUME NEW h \in Handler, Insert(h) \/ Remove(h)
        PROVE  Kept
    BY <2>4 DEF Insert, Remove, DeleteUser, IInv, TypeOK, Here
  <2>5. CASE Crash
    BY <2>5 DEF Crash, IInv
  <2>6. CASE Writes /\ account' # account
    <3>1. Crash \/ \E h \in Handler : WriteOwn(h) \/ Write(h) \/ Insert(h) \/ Remove(h)
      BY <2>6 DEF Writes, CreateSession, RevokeSession, Commit, AddGroup, DropGroup, Expire
    <3> QED  BY <2>2, <2>3, <2>4, <2>5, <3>1
  <2> QED  BY <2>1, <2>6, OthersRead
<1> HIDE DEF Kept
<1>2. Spec => [][Kept]_vars
  BY <1>1, Invariance, PTL DEF Spec
<1> QED  BY <1>2 DEF PasswordKept, Kept

-----------------------------------------------------------------------------
(* Every step is a step of Directory, or leaves the tables as they are.    *)

DStep == [Tables!DNext]_(Tables!tables)

\* What h is about to do, at the points where it writes a table.
LEMMA AskedValues ==
    ASSUME NEW h \in Handler
    PROVE  /\ pc[h] = "session"   => Asked(h) = [does |-> "signIn", user |-> who[h]]
           /\ pc[h] = "writeOwn"  => Asked(h) = [does |-> "repass", user |-> who[h]]
           /\ pc[h] = "insert"    => Asked(h) = [does |-> "register"]
           /\ pc[h] = "write"     => Asked(h) = [does |-> "change", user |-> who[h],
                                                 row |-> Merge(edit[h], item[h])]
           /\ pc[h] = "fill"      => Asked(h) = [does |-> "assign", user |-> who[h],
                                                 groups |-> want[h]]
           /\ pc[h] = "remove"    => Asked(h) = [does |-> "unregister", user |-> who[h]]
           /\ pc[h] = "addGroup"  => Asked(h) = [does |-> "found"]
           /\ pc[h] = "dropGroup" => Asked(h) = [does |-> "dissolve", group |-> which[h]]
           /\ pc[h] = "begin"     => Asked(h) = [does |-> "assign", user |-> who[h],
                                                 groups |-> want[h]]
           /\ pc[h] = "idle"      => Asked(h) = [does |-> "nothing"]
  BY DEF Asked

\* A handler that returns has nothing more to do.
LEMMA ReturnAsks ==
    ASSUME TypeOK, NEW h \in Handler, Return(h)
    PROVE  Asked(h)' = [does |-> "nothing"]
  BY DEF TypeOK, Return, Asked

\* Each operation of Directory, done by a handler that is then about to do another.
LEMMA OperationIsStep ==
    ASSUME NEW h \in Handler, Asked(h)'.does # Asked(h).does,
           \/ Tables!Register(Asked(h)) \/ Tables!Change(Asked(h))
           \/ Tables!Repass(Asked(h)) \/ Tables!Assign(Asked(h))
           \/ Tables!Unregister(Asked(h)) \/ Tables!Found(Asked(h))
           \/ Tables!Dissolve(Asked(h)) \/ Tables!SignIn(Asked(h))
    PROVE  DStep
<1>1. Tables!Operation(h)
  BY DEF Tables!Operation
<1> QED  BY <1>1 DEF DStep, Tables!DNext

LEMMA CreateSessionSimulates ==
    ASSUME IInv, NEW h \in Handler, CreateSession(h)
    PROVE  DStep
<1>1. CASE UNCHANGED <<status, owner>>
  BY <1>1 DEF CreateSession, DStep, Tables!tables
<1>2. CASE user[who[h]] = "here" /\ \E s \in Session : NewSession(s, who[h])
  <2>1. Tables!SignIn(Asked(h))
    <3>1. Asked(h).does = "signIn" /\ Asked(h).user = who[h]
      BY AskedValues DEF CreateSession
    <3>2. PICK s \in Session : NewSession(s, who[h])
      BY <1>2
    <3>3. Tables!IsHere(who[h])
      BY <1>2 DEF CreateSession, Tables!IsHere, IInv, InPlace
    <3> QED  BY <3>1, <3>2, <3>3 DEF CreateSession, NewSession, Tables!SignIn
  <2>2. Asked(h)'.does # Asked(h).does
    BY AskedValues, ReturnAsks DEF CreateSession, IInv
  <2> QED  BY <2>1, <2>2, OperationIsStep
<1> QED  BY <1>1, <1>2 DEF CreateSession

LEMMA RevokeSessionSimulates ==
    ASSUME IInv, NEW h \in Handler, RevokeSession(h)
    PROVE  DStep
<1>1. token[h] \in Session /\ status[token[h]] # "new"
  BY DEF RevokeSession, IInv, InPlace
<1>2. CASE status[token[h]] = "active"
  <2>1. Tables!End(token[h])
    BY <1>2 DEF RevokeSession, Tables!End
  <2> QED  BY <1>1, <2>1 DEF DStep, Tables!DNext
<1>3. CASE status[token[h]] # "active"
  <2>1. status' = status
    BY <1>1, <1>3 DEF RevokeSession, IInv, TypeOK
  <2> QED  BY <2>1 DEF RevokeSession, DStep, Tables!tables
<1> QED  BY <1>2, <1>3

LEMMA WriteOwnSimulates ==
    ASSUME IInv, NEW h \in Handler, WriteOwn(h)
    PROVE  DStep
<1>1. CASE user[who[h]] = "here"
  <2>1. Tables!Repass(Asked(h))
    <3>1. Asked(h).does = "repass" /\ Asked(h).user = who[h]
      BY AskedValues DEF WriteOwn
    <3>2. PICK p \in Password : UpdateUser(h, who[h], [account[who[h]] EXCEPT !.pass = p])
      BY DEF WriteOwn
    <3>3. Tables!Rewrite(who[h], [account[who[h]] EXCEPT !.pass = p])
      BY <1>1, <3>2 DEF WriteOwn, UpdateUser, Tables!Rewrite, Tables!IsHere, IInv, InPlace
    <3> QED  BY <3>1, <3>3 DEF Tables!Repass
  <2>2. Asked(h)'.does # Asked(h).does
    BY AskedValues, ReturnAsks DEF WriteOwn, IInv
  <2> QED  BY <2>1, <2>2, OperationIsStep
<1>2. CASE user[who[h]] # "here"
  BY <1>2 DEF WriteOwn, UpdateUser, DStep, Tables!tables
<1> QED  BY <1>1, <1>2

LEMMA InsertSimulates ==
    ASSUME IInv, NEW h \in Handler, Insert(h)
    PROVE  DStep
<1>1. CASE UNCHANGED <<user, account>>
  BY <1>1 DEF Insert, DStep, Tables!tables
<1>2. CASE ~UNCHANGED <<user, account>>
  <2>1. PICK u \in User, row \in NewAccount :
            /\ user[u] = "new" /\ user' = [user EXCEPT ![u] = "here"]
            /\ account' = [account EXCEPT ![u] = row]
    BY <1>2 DEF Insert
  <2>2. row \in Tables!Account
    BY DEF Account, Tables!Account
  <2>3. Tables!Register(Asked(h))
    <3>1. Asked(h).does = "register"
      BY AskedValues DEF Insert
    <3>2. Tables!Enter(u, row)
      BY <2>1 DEF Insert, Tables!Enter
    <3> QED  BY <2>2, <3>1, <3>2 DEF Tables!Register
  <2>4. pc'[h] = "begin"
    BY <1>2 DEF Insert, IInv, TypeOK
  <2>5. Asked(h)'.does = "assign" /\ Asked(h).does = "register"
    BY <2>4, AskedValues DEF Insert, Asked
  <2> QED  BY <2>3, <2>5, OperationIsStep
<1> QED  BY <1>1, <1>2

LEMMA WriteSimulates ==
    ASSUME IInv, NEW h \in Handler, Write(h)
    PROVE  DStep
<1>1. CASE user[who[h]] = "here"
  <2>1. Tables!Change(Asked(h))
    <3>1. /\ Asked(h).does = "change" /\ Asked(h).user = who[h]
          /\ Asked(h).row = Merge(edit[h], item[h])
      BY AskedValues DEF Write
    <3>2. Tables!Rewrite(who[h], Merge(edit[h], item[h]))
      BY <1>1 DEF Write, UpdateUser, Tables!Rewrite, Tables!IsHere, IInv, InPlace
    <3> QED  BY <3>1, <3>2 DEF Tables!Change
  <2>2. Asked(h).does = "change"
    BY AskedValues DEF Write
  <2>3. Asked(h)'.does \in {"nothing", "assign"}
    <3>1. CASE Return(h)
      BY <3>1, ReturnAsks DEF IInv
    <3>2. CASE pc' = [pc EXCEPT ![h] = "begin"]
      <4>1. pc'[h] = "begin"
        BY <3>2 DEF IInv, TypeOK
      <4> QED  BY <4>1 DEF Asked
    <3> QED  BY <3>1, <3>2 DEF Write
  <2> QED  BY <2>1, <2>2, <2>3, OperationIsStep
<1>2. CASE user[who[h]] # "here"
  BY <1>2 DEF Write, UpdateUser, DStep, Tables!tables
<1> QED  BY <1>1, <1>2

\* The transaction read the groups and the user before, and kept the connection:
\* they are still there.  Of a user who is gone it has inserted nothing.
LEMMA CommitSimulates ==
    ASSUME IInv, NEW h \in Handler, Commit(h)
    PROVE  DStep
<1> USE DEF Commit
<1>1. conn = h /\ who[h] \in User /\ want[h] \in SUBSET Group
  BY DEF IInv, InPlace
<1>2. /\ draft \subseteq Here(user) \X Here(group) /\ draft \subseteq User \X Group
      /\ \A u \in User \ {who[h]} : GroupsOf(u, draft) = GroupsOf(u, member)
      /\ GroupsOf(who[h], draft) = want[h]
  BY <1>1 DEF IInv, TypeOK, InTransaction
<1>3. member' = (member \ ({who[h]} \X Group)) \cup ({who[h]} \X want[h])
  <2>1. ASSUME NEW u \in User, NEW g \in Group
        PROVE  <<u, g>> \in member' <=>
               <<u, g>> \in (member \ ({who[h]} \X Group)) \cup ({who[h]} \X want[h])
    BY <1>1, <1>2 DEF GroupsOf
  <2>2. /\ member' \subseteq User \X Group
        /\ (member \ ({who[h]} \X Group)) \cup ({who[h]} \X want[h]) \subseteq User \X Group
    BY <1>1, <1>2 DEF IInv, TypeOK
  <2> QED  BY <2>1, <2>2
<1>4. CASE user[who[h]] = "here"
  <2>1. \A g \in want[h] : g \in Group /\ group[g] = "here"
    BY <1>1, <1>2 DEF GroupsOf, Here
  <2>2. Tables!Assign(Asked(h))
    BY <1>1, <1>3, <1>4, <2>1, AskedValues DEF Tables!Assign, Tables!IsHere
  <2>3. Asked(h)'.does # Asked(h).does
    BY AskedValues, ReturnAsks DEF IInv
  <2> QED  BY <2>2, <2>3, OperationIsStep
<1>5. CASE user[who[h]] # "here"
  <2>1. want[h] = {} /\ \A g \in Group : <<who[h], g>> \notin member
    BY <1>1, <1>2, <1>5 DEF IInv, RowsOwned, GroupsOf, Here
  <2>2. member' = member
    BY <1>3, <2>1
  <2> QED  BY <2>2 DEF DStep, Tables!tables
<1> QED  BY <1>4, <1>5

LEMMA RemoveSimulates ==
    ASSUME IInv, NEW h \in Handler, Remove(h)
    PROVE  DStep
<1>1. CASE user[who[h]] = "here"
  <2>1. Tables!Unregister(Asked(h))
    BY <1>1, AskedValues DEF Remove, DeleteUser, Blank, Tables!Unregister, Tables!Blank,
                             Tables!IsHere, IInv, InPlace
  <2>2. Asked(h)'.does # Asked(h).does
    BY AskedValues, ReturnAsks DEF Remove, IInv
  <2> QED  BY <2>1, <2>2, OperationIsStep
<1>2. CASE user[who[h]] # "here"
  BY <1>2 DEF Remove, DStep, Tables!tables
<1> QED  BY <1>1, <1>2

LEMMA AddGroupSimulates ==
    ASSUME IInv, NEW h \in Handler, AddGroup(h)
    PROVE  DStep
<1>1. CASE UNCHANGED group
  BY <1>1 DEF AddGroup, DStep, Tables!tables
<1>2. CASE ~UNCHANGED group
  <2>1. Tables!Found(Asked(h))
    BY <1>2, AskedValues DEF AddGroup, Tables!Found
  <2>2. Asked(h)'.does # Asked(h).does
    BY AskedValues, ReturnAsks DEF AddGroup, IInv
  <2> QED  BY <2>1, <2>2, OperationIsStep
<1> QED  BY <1>1, <1>2

\* Somebody else may have deleted the group since it was found.
LEMMA DropGroupSimulates ==
    ASSUME IInv, NEW h \in Handler, DropGroup(h)
    PROVE  DStep
<1> USE DEF DropGroup
<1>1. which[h] \in Group /\ group[which[h]] \in {"here", "gone"}
  BY DEF IInv, TypeOK, InPlace
<1>2. CASE group[which[h]] = "here"
  <2>1. Tables!Dissolve(Asked(h))
    <3>1. Asked(h).does = "dissolve" /\ Asked(h).group = which[h]
      BY AskedValues
    <3> QED  BY <1>2, <3>1 DEF Tables!Dissolve
  <2>2. Asked(h)'.does # Asked(h).does
    BY AskedValues, ReturnAsks DEF IInv
  <2> QED  BY <2>1, <2>2, OperationIsStep
<1>3. CASE group[which[h]] = "gone"
  <2>1. group' = group
    BY <1>1, <1>3 DEF IInv, TypeOK
  <2>2. member' = member
    BY <1>1, <1>3 DEF IInv, RowsOwned, Here
  <2> QED  BY <2>1, <2>2 DEF DStep, Tables!tables
<1> QED  BY <1>1, <1>2, <1>3

LEMMA CrashSimulates ==
    ASSUME IInv, Crash
    PROVE  DStep
<1>1. CASE Here(user) # {}
  BY <1>1 DEF Crash, DStep, Tables!tables
<1>2. CASE Here(user) = {}
  <2>1. Tables!Bootstrap
    BY <1>2 DEF Crash, IInv, TypeOK, Here, First,
                Tables!Bootstrap, Tables!Enter, Tables!First
  <2> QED  BY <2>1 DEF DStep, Tables!DNext
<1> QED  BY <1>1, <1>2

LEMMA NextSimulates == IInv /\ [Next]_vars => DStep
<1> SUFFICES ASSUME IInv, [Next]_vars PROVE DStep
  OBVIOUS
<1>1. CASE UNCHANGED tables
  BY <1>1 DEF DStep, Tables!tables
<1>2. CASE Writes
  <2>1. ASSUME NEW s \in Session, Expire(s)
        PROVE  DStep
    <3>1. Tables!End(s)
      BY <2>1 DEF Expire, Tables!End
    <3> QED  BY <3>1 DEF DStep, Tables!DNext
  <2> QED
    BY <1>2, <2>1, CreateSessionSimulates, RevokeSessionSimulates, WriteOwnSimulates,
       InsertSimulates, WriteSimulates, CommitSimulates, RemoveSimulates,
       AddGroupSimulates, DropGroupSimulates, CrashSimulates DEF Writes
<1> QED  BY <1>1, <1>2, OthersRead

\* The accounts, seen through their tables, implement Directory: the statements
\* of store.go and auth.go, interleaved, failing and cut off by restarts, amount
\* to operations that take effect at once and whole, each as it was asked for and
\* on rows that are there.
THEOREM Refinement == Spec => ImplementsDirectory
<1>1. Init => Tables!DInit
  BY DEF Init, First, Blank, Tables!DInit, Tables!First, Tables!Blank
<1>2. IInv /\ [Next]_vars => [Tables!DNext]_(Tables!tables)
  BY NextSimulates DEF DStep
<1> QED  BY <1>1, <1>2, Invariance, PTL DEF Spec, ImplementsDirectory, Tables!DSpec

-----------------------------------------------------------------------------
(* What follows from Directory alone, however requests are carried out.    *)

DirectoryInv ==
    /\ user \in [User -> Life] /\ group \in [Group -> Life] /\ member \subseteq User \X Group
    /\ status \in [Session -> {"new", "active", "closed", "gone"}]
    /\ owner = [s \in Session |-> owner[s]] /\ account = [u \in User |-> account[u]]
    /\ RowsOwned /\ Blanks

RowsStayGone ==
    /\ \A u \in User : user[u] = "gone" => user'[u] = "gone" /\ account'[u] = Blank
    /\ \A g \in Group : group[g] = "gone" => group'[g] = "gone"
    /\ \A s \in Session : status[s] \in {"closed", "gone"}
                            => status'[s] \in {"closed", "gone"}

LEMMA DirectoryStep ==
    ASSUME DirectoryInv, DStep
    PROVE  DirectoryInv' /\ RowsStayGone
<1> USE DEF DirectoryInv, RowsOwned, Blanks, RowsStayGone, Here, Life
<1>1. ASSUME NEW u \in User, NEW row, Tables!Enter(u, row)
      PROVE  DirectoryInv' /\ RowsStayGone
  BY <1>1 DEF Tables!Enter
<1>2. ASSUME NEW u, NEW row, Tables!Rewrite(u, row)
      PROVE  DirectoryInv' /\ RowsStayGone
  BY <1>2 DEF Tables!Rewrite, Tables!IsHere
<1>3. ASSUME NEW r, Tables!Assign(r)
      PROVE  DirectoryInv' /\ RowsStayGone
  BY <1>3 DEF Tables!Assign, Tables!IsHere
<1>4. ASSUME NEW r, Tables!Unregister(r)
      PROVE  DirectoryInv' /\ RowsStayGone
  BY <1>4 DEF Tables!Unregister, Tables!IsHere, Tables!Blank, Blank
<1>5. ASSUME NEW r, Tables!Found(r) \/ Tables!Dissolve(r)
      PROVE  DirectoryInv' /\ RowsStayGone
  BY <1>5 DEF Tables!Found, Tables!Dissolve
<1>6. ASSUME NEW r, Tables!SignIn(r)
      PROVE  DirectoryInv' /\ RowsStayGone
  BY <1>6 DEF Tables!SignIn, Tables!IsHere
<1>7. ASSUME NEW s \in Session, Tables!End(s)
      PROVE  DirectoryInv' /\ RowsStayGone
  BY <1>7 DEF Tables!End
<1>8. CASE UNCHANGED Tables!tables
  BY <1>8 DEF Tables!tables
<1> QED
  BY <1>1, <1>2, <1>3, <1>4, <1>5, <1>6, <1>7, <1>8
     DEF DStep, Tables!DNext, Tables!Operation, Tables!Register, Tables!Bootstrap,
         Tables!Change, Tables!Repass

\* Directory says enough: whatever carries its operations out (auth.go and store.go
\* do, by Refinement) keeps no row of what is gone and brings nothing back.
THEOREM DirectoryKeepsRows == ImplementsDirectory => []RowsOwned /\ GoneStaysGone
<1>1. Tables!DInit => DirectoryInv
  BY DEF Tables!DInit, Tables!Blank, Blank, DirectoryInv, RowsOwned, Blanks, Here, Life
<1>2. DirectoryInv /\ [Tables!DNext]_(Tables!tables) => DirectoryInv'
  BY DirectoryStep DEF DStep
<1>3. DirectoryInv /\ [Tables!DNext]_(Tables!tables) => [RowsStayGone]_vars
  BY DirectoryStep DEF DStep
<1>4. DirectoryInv => RowsOwned
  BY DEF DirectoryInv
<1>5. ImplementsDirectory => []RowsOwned /\ [][RowsStayGone]_vars
  BY <1>1, <1>2, <1>3, <1>4, PTL DEF ImplementsDirectory, Tables!DSpec
<1> QED  BY <1>5 DEF GoneStaysGone, RowsStayGone
=============================================================================
