------------------------------ MODULE Accounts ------------------------------
(***************************************************************************)
(* Users, groups and sessions: internal/users/store.go and handler.go,     *)
(* internal/auth/auth.go, and the tables of database/init.sql.             *)
(*                                                                         *)
(* Every request is served by a goroutine of its own, and all of them      *)
(* share the one connection to the database (SetMaxOpenConns(1)): a        *)
(* statement is a step, taken while nobody has the connection; a           *)
(* transaction keeps the connection from its beginning to its end.         *)
(*                                                                         *)
(* Names, avatars and descriptions are left out, and with them the         *)
(* operations that write nothing else (UpdateMyProfile, UpdateGroup): no   *)
(* decision depends on them.  A password stands for its hash.  Ids and     *)
(* tokens are random and never used twice.                                 *)
(*                                                                         *)
(* A definition named Slip... is a plausible fault of the definition after *)
(* it, substituted to see that a property notices.                         *)
(***************************************************************************)
EXTENDS Integers, FiniteSets

CONSTANTS User, Group, Session,  \* ids; bound: how many are ever created
          Password,
          Default,     \* the password of the default administrator
          NewAccount,  \* bound: the accounts that requests create
          Edit,        \* bound: the updates that requests ask for, as records of
                       \* the columns that they give
          Handler,     \* goroutines serving requests
          None         \* nobody, nothing

ASSUME DefaultAssumption == Default \in Password
ASSUME NoneAssumption ==
    None \notin User \cup Group \cup Session \cup Password \cup Handler

Account == [admin : BOOLEAN, active : BOOLEAN, pass : Password]
Blank   == [admin |-> FALSE, active |-> FALSE, pass |-> Default]
First   == [admin |-> TRUE, active |-> TRUE, pass |-> Default]

ASSUME NewAssumption == NewAccount \subseteq Account
ASSUME EditAssumption ==
    \A e \in Edit : /\ "admin" \in DOMAIN e => e.admin \in BOOLEAN
                    /\ "active" \in DOMAIN e => e.active \in BOOLEAN
                    /\ "pass" \in DOMAIN e => e.pass \in Password

\* Columns that the request leaves out are written back as they were read.
NoEdit == [column \in {} |-> None]
Merge(e, row) ==
    [admin  |-> IF "admin" \in DOMAIN e THEN e.admin ELSE row.admin,
     active |-> IF "active" \in DOMAIN e THEN e.active ELSE row.active,
     pass   |-> IF "pass" \in DOMAIN e THEN e.pass ELSE row.pass]

Leave == {None}   \* a request that leaves the groups of the user as they are

Life == {"new", "here", "gone"}
Point == {"idle", "session", "relook", "revoke", "readOwn", "writeOwn",
          "check", "insert", "load", "recheck", "write", "begin", "fill",
          "find", "count", "remove", "addGroup", "findGroup", "dropGroup"}

VARIABLES
    user, account,   \* table users: which rows there are, and their columns
    group,           \* table groups
    member,          \* table user_groups
    status, owner,   \* table user_sessions (closed: revoked, or past its time)
    conn,            \* the handler whose transaction is open
    draft,           \* user_groups as that transaction sees it
    pc,              \* where each handler stands
    who, which, token, \* the user, the group and the session it works on
    want, todo,      \* the groups it was given (or Leave), those not dealt with yet
    item, edit,      \* the account it read, the update it is asked for
    late             \* history: whose copy of a password is out of date

tables == <<user, account, group, member, status, owner>>
db     == <<conn, draft>>
locals == <<pc, who, which, token, want, todo, item, edit>>
hist   == <<late>>
vars   == <<tables, db, locals, hist>>

\* EnsureDefaultAdmin has run on an empty database.
Init ==
    /\ \E u \in User :
         /\ user = [v \in User |-> IF v = u THEN "here" ELSE "new"]
         /\ account = [v \in User |-> IF v = u
                         THEN First ELSE Blank]
    /\ group = [g \in Group |-> "new"] /\ member = {}
    /\ status = [s \in Session |-> "new"] /\ owner = [s \in Session |-> None]
    /\ conn = None /\ draft = {}
    /\ pc = [h \in Handler |-> "idle"] /\ who = [h \in Handler |-> None]
    /\ which = [h \in Handler |-> None] /\ token = [h \in Handler |-> None]
    /\ want = [h \in Handler |-> {}] /\ todo = [h \in Handler |-> {}]
    /\ item = [h \in Handler |-> Blank] /\ edit = [h \in Handler |-> NoEdit]
    /\ late = {}

-----------------------------------------------------------------------------
Here(life) == {x \in DOMAIN life : life[x] = "here"}
GroupsOf(u, m) == {g \in Group : <<u, g>> \in m}
Goto(h, point) == pc' = [pc EXCEPT ![h] = point]

\* A statement outside a transaction waits for the connection.
At(h, point) == pc[h] = point /\ conn = None

Return(h) ==
    /\ pc' = [pc EXCEPT ![h] = "idle"] /\ who' = [who EXCEPT ![h] = None]
    /\ which' = [which EXCEPT ![h] = None] /\ token' = [token EXCEPT ![h] = None]
    /\ want' = [want EXCEPT ![h] = {}] /\ todo' = [todo EXCEPT ![h] = {}]
    /\ item' = [item EXCEPT ![h] = Blank] /\ edit' = [edit EXCEPT ![h] = NoEdit]

\* A handler that only moves on, and one that only returns.
Proceed(h, point) ==
    /\ Goto(h, point)
    /\ UNCHANGED <<who, which, token, want, todo, item, edit>>

\* Rows go, and with them (ON DELETE CASCADE) those that refer to them.
DeleteUser(u) ==
    /\ user' = [user EXCEPT ![u] = "gone"] /\ account' = [account EXCEPT ![u] = Blank]
    /\ member' = member \ ({u} \X Group)
    /\ status' = [s \in Session |-> IF owner[s] = u THEN "gone" ELSE status[s]]
    /\ owner' = [s \in Session |-> IF owner[s] = u THEN None ELSE owner[s]]
    /\ UNCHANGED group

\* UPDATE users SET ... WHERE id = u, which touches nothing when u is gone.
\* Updates that have read a password which row replaces become late.
Updating == {"recheck", "write"}
Overtake(h, u, row) ==
    late' = IF row.pass = account[u].pass THEN late \ {h}
            ELSE (late \cup {k \in Handler : who[k] = u /\ pc[k] \in Updating}) \ {h}
UpdateUser(h, u, row) ==
    /\ account' = IF user[u] = "here" THEN [account EXCEPT ![u] = row] ELSE account
    /\ Overtake(h, u, row)
    /\ UNCHANGED <<user, group, member, status, owner>>

-----------------------------------------------------------------------------
(* Sessions.                                                               *)

\* LookupSession: one query joins the session and its user.
Admitted(s) ==
    /\ status[s] = "active" /\ user[owner[s]] = "here" /\ account[owner[s]].active

\* HandleLogin, up to Authenticate; a login that it refuses changes nothing.
Login(h) ==
    /\ At(h, "idle")
    /\ \E u \in Here(user) : account[u].active /\ who' = [who EXCEPT ![h] = u]
    /\ Goto(h, "session")
    /\ UNCHANGED <<tables, db, which, token, want, todo, item, edit, hist>>

\* CreateSession: the insertion is refused (FOREIGN KEY; slip: it is not) when
\* the user is gone, and may fail otherwise.
NewSession(s, u) ==
    /\ status[s] = "new"
    /\ status' = [status EXCEPT ![s] = "active"] /\ owner' = [owner EXCEPT ![s] = u]
SlipCreateSession(h) ==
    /\ At(h, "session")
    /\ (\E s \in Session : NewSession(s, who[h])) \/ UNCHANGED <<status, owner>>
    /\ Return(h)
    /\ UNCHANGED <<user, account, group, member, db, hist>>
CreateSession(h) ==
    /\ At(h, "session")
    /\ \/ user[who[h]] = "here" /\ \E s \in Session : NewSession(s, who[h])
       \/ UNCHANGED <<status, owner>>
    /\ Return(h)
    /\ UNCHANGED <<user, account, group, member, db, hist>>

\* HandleLogout: admitted by the middleware, it looks the session up again.
HandleLogout(h) ==
    /\ At(h, "idle")
    /\ \E s \in Session : Admitted(s) /\ token' = [token EXCEPT ![h] = s]
    /\ Goto(h, "relook")
    /\ UNCHANGED <<tables, db, who, which, want, todo, item, edit, hist>>
Relook(h) ==
    /\ At(h, "relook")
    /\ IF Admitted(token[h]) THEN Proceed(h, "revoke") ELSE Return(h)
    /\ UNCHANGED <<tables, db, hist>>
RevokeSession(h) ==
    /\ At(h, "revoke")
    /\ status' = IF status[token[h]] = "gone" THEN status
                                              ELSE [status EXCEPT ![token[h]] = "closed"]
    /\ Return(h)
    /\ UNCHANGED <<user, account, group, member, owner, db, hist>>

\* sessionTTL passes.
Expire(s) ==
    /\ status[s] = "active" /\ status' = [status EXCEPT ![s] = "closed"]
    /\ UNCHANGED <<user, account, group, member, owner, db, locals, hist>>

-----------------------------------------------------------------------------
(* UpdateMyPassword.                                                       *)

HandleUpdateMyPassword(h) ==
    /\ At(h, "idle")
    /\ \E s \in Session : Admitted(s) /\ who' = [who EXCEPT ![h] = owner[s]]
    /\ Goto(h, "readOwn")
    /\ UNCHANGED <<tables, db, which, token, want, todo, item, edit, hist>>
\* Whether the current password was given right.
ReadOwn(h) ==
    /\ At(h, "readOwn")
    /\ (user[who[h]] = "here" /\ Proceed(h, "writeOwn")) \/ Return(h)
    /\ UNCHANGED <<tables, db, hist>>
WriteOwn(h) ==
    /\ At(h, "writeOwn")
    /\ \E p \in Password : UpdateUser(h, who[h], [account[who[h]] EXCEPT !.pass = p])
    /\ Return(h)
    /\ UNCHANGED db

-----------------------------------------------------------------------------
(* What only administrators may do.  requireAdmin looks at what the        *)
(* middleware read, and nothing looks again.                               *)

AdminAsks(h) ==
    /\ At(h, "idle")
    /\ \E s \in Session : Admitted(s) /\ account[owner[s]].admin

\* validateGroupIDs reads one group per statement.
Validate(h, requested, point, after) ==
    /\ want' = [want EXCEPT ![h] = requested]
    /\ todo' = [todo EXCEPT ![h] = IF requested = Leave THEN {} ELSE requested]
    /\ Goto(h, IF requested \in {Leave, {}} THEN after ELSE point)

HandleCreate(h) ==
    /\ AdminAsks(h)
    /\ \E requested \in SUBSET Group : Validate(h, requested, "check", "insert")
    /\ UNCHANGED <<tables, db, who, which, token, item, edit, hist>>
HandleUpdate(h) ==
    /\ AdminAsks(h)
    /\ \E u \in User : user[u] # "new" /\ who' = [who EXCEPT ![h] = u]
    /\ Goto(h, "load")
    /\ UNCHANGED <<tables, db, which, token, want, todo, item, edit, hist>>

\* Update: Get.  SlipRead: a password that is left out becomes the default.
ReadAs(h, row) ==
    /\ item' = [item EXCEPT ![h] = row]
    /\ \E e \in Edit : edit' = [edit EXCEPT ![h] = e]
    /\ \E requested \in (SUBSET Group) \cup {Leave} :
          Validate(h, requested, "recheck", "write")
    /\ UNCHANGED <<who, which, token>>
SlipRead(h) == ReadAs(h, [account[who[h]] EXCEPT !.pass = Default])
Read(h) == ReadAs(h, account[who[h]])
Load(h) ==
    /\ At(h, "load")
    /\ IF user[who[h]] = "here" THEN Read(h) ELSE Return(h)
    /\ UNCHANGED <<tables, db, hist>>

\* The next of the requested groups is looked up, for a creation or an update.
Check(h, point, after) ==
    /\ At(h, point)
    /\ \E g \in todo[h] :
          IF group[g] = "here"
            THEN /\ todo' = [todo EXCEPT ![h] = @ \ {g}]
                 /\ Goto(h, IF todo[h] = {g} THEN after ELSE point)
                 /\ UNCHANGED <<who, which, token, want, item, edit, late>>
            ELSE Return(h) /\ late' = late \ {h}
    /\ UNCHANGED <<tables, db>>

\* The insertion, refused (UNIQUE) when the name is taken.
Insert(h) ==
    /\ At(h, "insert")
    /\ \/ /\ \E u \in User, row \in NewAccount :
               /\ user[u] = "new" /\ who' = [who EXCEPT ![h] = u]
               /\ user' = [user EXCEPT ![u] = "here"]
               /\ account' = [account EXCEPT ![u] = row]
          /\ Goto(h, "begin")
          /\ UNCHANGED <<which, token, want, todo, item, edit>>
       \/ UNCHANGED <<user, account>> /\ Return(h)
    /\ UNCHANGED <<group, member, status, owner, db, hist>>

Write(h) ==
    /\ At(h, "write")
    /\ UpdateUser(h, who[h], Merge(edit[h], item[h]))
    /\ IF want[h] = Leave THEN Return(h)
         ELSE /\ Goto(h, "begin")
              /\ item' = [item EXCEPT ![h] = Blank] /\ edit' = [edit EXCEPT ![h] = NoEdit]
              /\ UNCHANGED <<who, which, token, want, todo>>
    /\ UNCHANGED db

-----------------------------------------------------------------------------
(* ReplaceUserGroups, one transaction.                                     *)

\* Beginx, and the user's old rows are deleted.  SlipBegin: not by the transaction.
SlipBegin(h) ==
    /\ At(h, "begin")
    /\ conn' = h /\ member' = member \ ({who[h]} \X Group) /\ draft' = member'
    /\ todo' = [todo EXCEPT ![h] = want[h]]
    /\ Goto(h, "fill")
    /\ UNCHANGED <<user, account, group, status, owner,
                   who, which, token, want, item, edit, hist>>
Begin(h) ==
    /\ At(h, "begin")
    /\ conn' = h /\ draft' = member \ ({who[h]} \X Group)
    /\ todo' = [todo EXCEPT ![h] = want[h]]
    /\ Goto(h, "fill")
    /\ UNCHANGED <<tables, who, which, token, want, item, edit, hist>>

\* The next group is looked up and its row inserted; the transaction is rolled
\* back when the group, or (FOREIGN KEY) the user, is gone.  Slip: the
\* group is looked up outside the transaction.
FillNext(h) ==
    /\ pc[h] = "fill" /\ conn = h
    /\ \E g \in todo[h] :
          IF group[g] = "here" /\ user[who[h]] = "here"
            THEN /\ draft' = draft \cup {<<who[h], g>>}
                 /\ todo' = [todo EXCEPT ![h] = @ \ {g}]
                 /\ UNCHANGED <<conn, pc, who, which, token, want, item, edit>>
            ELSE conn' = None /\ draft' = {} /\ Return(h)
    /\ UNCHANGED <<tables, hist>>
SlipFillPool(h) == conn = None /\ FillNext(h)
Fill(h) == FillNext(h)
Commit(h) ==
    /\ pc[h] = "fill" /\ conn = h /\ todo[h] = {}
    /\ member' = draft
    /\ conn' = None /\ draft' = {} /\ Return(h)
    /\ UNCHANGED <<user, account, group, status, owner, hist>>

-----------------------------------------------------------------------------
(* HandleDelete, and the groups.                                           *)

HandleDelete(h) ==
    /\ AdminAsks(h)
    /\ \E u \in User : user[u] # "new" /\ who' = [who EXCEPT ![h] = u]
    /\ Goto(h, "find")
    /\ UNCHANGED <<tables, db, which, token, want, todo, item, edit, hist>>
Find(h) ==
    /\ At(h, "find")
    /\ IF user[who[h]] = "here"
         THEN Proceed(h, IF account[who[h]].admin THEN "count" ELSE "remove")
         ELSE Return(h)
    /\ UNCHANGED <<tables, db, hist>>
CountAdmins(h) ==
    /\ At(h, "count")
    /\ IF Cardinality({u \in Here(user) : account[u].admin}) <= 1
         THEN Return(h) ELSE Proceed(h, "remove")
    /\ UNCHANGED <<tables, db, hist>>
Remove(h) ==
    /\ At(h, "remove")
    /\ IF user[who[h]] = "here" THEN DeleteUser(who[h]) ELSE UNCHANGED tables
    /\ Return(h)
    /\ UNCHANGED <<db, hist>>

HandleCreateGroup(h) ==
    /\ AdminAsks(h) /\ Goto(h, "addGroup")
    /\ UNCHANGED <<tables, db, who, which, token, want, todo, item, edit, hist>>
AddGroup(h) ==
    /\ At(h, "addGroup")
    /\ \/ \E g \in Group : group[g] = "new" /\ group' = [group EXCEPT ![g] = "here"]
       \/ UNCHANGED group
    /\ Return(h)
    /\ UNCHANGED <<user, account, member, status, owner, db, hist>>
HandleDeleteGroup(h) ==
    /\ AdminAsks(h)
    /\ \E g \in Group : group[g] # "new" /\ which' = [which EXCEPT ![h] = g]
    /\ Goto(h, "findGroup")
    /\ UNCHANGED <<tables, db, who, token, want, todo, item, edit, hist>>
FindGroup(h) ==
    /\ At(h, "findGroup")
    /\ IF group[which[h]] = "here" THEN Proceed(h, "dropGroup") ELSE Return(h)
    /\ UNCHANGED <<tables, db, hist>>
DropGroup(h) ==
    /\ At(h, "dropGroup")
    /\ group' = [group EXCEPT ![which[h]] = "gone"]
    /\ member' = member \ (User \X {which[h]})
    /\ Return(h)
    /\ UNCHANGED <<user, account, status, owner, db, hist>>

-----------------------------------------------------------------------------
(* Failures.                                                               *)

\* A statement returns an error: the handler answers with it, and its
\* transaction, if it has one, is rolled back (defer tx.Rollback()).
StatementFails(h) ==
    /\ pc[h] # "idle" /\ conn \in {None, h}
    /\ conn' = None /\ draft' = {} /\ Return(h) /\ late' = late \ {h}
    /\ UNCHANGED tables

\* The process dies and starts again: SQLite rolls back what was not committed,
\* and EnsureDefaultAdmin makes an administrator when there is no user at all.
Crash ==
    /\ conn' = None /\ draft' = {} /\ late' = {}
    /\ pc' = [h \in Handler |-> "idle"] /\ who' = [h \in Handler |-> None]
    /\ which' = [h \in Handler |-> None] /\ token' = [h \in Handler |-> None]
    /\ want' = [h \in Handler |-> {}] /\ todo' = [h \in Handler |-> {}]
    /\ item' = [h \in Handler |-> Blank] /\ edit' = [h \in Handler |-> NoEdit]
    /\ IF Here(user) # {} THEN UNCHANGED <<user, account>>
         ELSE \E u \in User :
                /\ user[u] = "new" /\ user' = [user EXCEPT ![u] = "here"]
                /\ account' = [account EXCEPT ![u] = First]
    /\ UNCHANGED <<group, member, status, owner>>

-----------------------------------------------------------------------------
Ask(h) ==
    \/ Login(h) \/ HandleLogout(h) \/ HandleUpdateMyPassword(h)
    \/ HandleCreate(h) \/ HandleUpdate(h) \/ HandleDelete(h)
    \/ HandleCreateGroup(h) \/ HandleDeleteGroup(h)
Serve(h) ==
    \/ CreateSession(h) \/ Relook(h) \/ RevokeSession(h) \/ ReadOwn(h) \/ WriteOwn(h)
    \/ Check(h, "check", "insert") \/ Insert(h)
    \/ Load(h) \/ Check(h, "recheck", "write") \/ Write(h)
    \/ Begin(h) \/ Fill(h) \/ Commit(h)
    \/ Find(h) \/ CountAdmins(h) \/ Remove(h)
    \/ AddGroup(h) \/ FindGroup(h) \/ DropGroup(h)

Next == \/ \E h \in Handler : Ask(h) \/ Serve(h) \/ StatementFails(h)
        \/ \E s \in Session : Expire(s)
        \/ Crash

Spec == Init /\ [][Next]_vars

-----------------------------------------------------------------------------
TypeOK ==
    /\ user \in [User -> Life] /\ account \in [User -> Account]
    /\ group \in [Group -> Life] /\ member \subseteq User \X Group
    /\ status \in [Session -> {"new", "active", "closed", "gone"}]
    /\ owner \in [Session -> User \cup {None}]
    /\ conn \in Handler \cup {None} /\ draft \subseteq User \X Group
    /\ pc \in [Handler -> Point] /\ who \in [Handler -> User \cup {None}]
    /\ which \in [Handler -> Group \cup {None}]
    /\ token \in [Handler -> Session \cup {None}]
    /\ want \in [Handler -> (SUBSET Group) \cup {Leave}]
    /\ todo \in [Handler -> SUBSET Group]
    /\ item \in [Handler -> Account] /\ edit \in [Handler -> Edit \cup {NoEdit}]
    /\ late \subseteq Handler

\* No session and no membership outlives its user or its group, although a
\* login (auth.go:112) inserts a session long after it read the user, and
\* ReplaceUserGroups rewrites rows of users and groups that may be gone.
RowsOwned ==
    /\ \A s \in Session : status[s] \in {"active", "closed"}
                             => owner[s] \in Here(user)
    /\ member \subseteq Here(user) \X Here(group)

\* The groups of a user change from one whole set to another that somebody
\* asked for, whatever fails on the way (store.go:310); a group or a user that
\* is deleted takes its own rows along.
GroupsWhole ==
    [][\A u \in User :
         \/ GroupsOf(u, member') = GroupsOf(u, member) \cap Here(group')
         \/ u \notin Here(user')
         \/ \E h \in Handler : who[h] = u /\ pc[h] = "fill"
                                /\ GroupsOf(u, member') = want[h]]_vars

\* Ids are dead for good: a user, a group or a session that is gone or closed
\* does not come back, even when an update or a logout that read it before
\* writes it afterwards (store.go:169, auth.go:240).
GoneStaysGone ==
    [][/\ \A u \in User : user[u] = "gone" => user'[u] = "gone" /\ account'[u] = Blank
       /\ \A g \in Group : group[g] = "gone" => group'[g] = "gone"
       /\ \A s \in Session : status[s] \in {"closed", "gone"}
                               => status'[s] \in {"closed", "gone"}]_vars

\* A password only changes because somebody gave a new one, or because an
\* update that was in progress when it was changed writes back the one it had
\* read (store.go:157, 169): never otherwise.
PasswordKept ==
    [][\A u \in Here(user) \cap Here(user') :
         account'[u].pass # account[u].pass =>
           \E h \in Handler :
             /\ who[h] = u
             /\ \/ pc[h] = "writeOwn"
                \/ (pc[h] = "write" /\ ("pass" \in DOMAIN edit[h] \/ h \in late))]_vars

\* What the next step of h needs is there: the connection, which a transaction
\* has and a statement finds free, and the next of the groups.
Ready(h) ==
    /\ pc[h] # "idle" /\ conn = IF pc[h] = "fill" THEN h ELSE None
    /\ pc[h] \in {"check", "recheck"} => todo[h] # {}

\* Who cannot take the next step waits for one open transaction and nothing
\* else (db.go:38), and that one can go on.
OneIsWaitedFor ==
    \A h \in Handler :
        pc[h] # "idle" => Ready(h) \/ (conn \in Handler \ {h} /\ Ready(conn))

\* An unanswered request can take its next step, or the transaction can whose
\* end it waits for: although all of them share one connection (db.go:38), nobody
\* waits for a connection that nobody gives back.
NobodyStuck ==
    \A h \in Handler :
        pc[h] # "idle" => LET first == IF conn = None THEN h ELSE conn
                          IN  ENABLED Serve(first)

-----------------------------------------------------------------------------
(* The inductive invariant.                                                *)

UserPoint == {"session", "readOwn", "writeOwn", "load", "recheck", "write",
              "begin", "fill", "find", "count", "remove"}

\* Each handler has what its next step needs.
InPlace ==
    \A h \in Handler :
        /\ pc[h] \in UserPoint => who[h] \in User /\ user[who[h]] # "new"
        /\ pc[h] \in {"relook", "revoke"} => /\ token[h] \in Session
                                             /\ status[token[h]] # "new"
        /\ pc[h] \in {"findGroup", "dropGroup"} => /\ which[h] \in Group
                                                   /\ group[which[h]] # "new"
        /\ pc[h] \in {"check", "recheck"} => todo[h] # {}
        /\ pc[h] \in {"check", "insert", "begin", "fill"} => want[h] \in SUBSET Group

\* A row that is not there has no columns.
Blanks == \A u \in User : user[u] # "here" => account[u] = Blank

\* The connection is taken by the transaction that is open, which sees the
\* user's rows replaced as far as it has come.
InTransaction ==
    /\ \A h \in Handler : pc[h] = "fill" <=> conn = h
    /\ conn = None => draft = {}
    /\ conn # None => /\ draft \subseteq Here(user) \X Here(group)
                      /\ todo[conn] \subseteq want[conn]
                      /\ \A u \in User \ {who[conn]} :
                           GroupsOf(u, draft) = GroupsOf(u, member)
                      /\ GroupsOf(who[conn], draft) = want[conn] \ todo[conn]

\* An update that is not late has read the password that the user has.
Copies ==
    \A h \in Handler :
        /\ pc[h] \in Updating /\ h \notin late /\ who[h] \in Here(user)
             => item[h].pass = account[who[h]].pass
        /\ h \in late => pc[h] \in Updating

IInv ==
    /\ TypeOK /\ InPlace /\ RowsOwned /\ Blanks /\ InTransaction /\ Copies

\* "Cannot delete the last administrator" (handler.go:163).
LastAdminKept ==
    [][\A u \in Here(user) \ Here(user') :
         account[u].admin => \E v \in Here(user') : account'[v].admin]_vars

\* The operation on the tables that h has been let through to, and is about to do.
Asked(h) ==
    CASE pc[h] = "session"  -> [does |-> "signIn", user |-> who[h]]
      [] pc[h] = "writeOwn" -> [does |-> "repass", user |-> who[h]]
      [] pc[h] = "insert"   -> [does |-> "register"]
      [] pc[h] = "write"    -> [does |-> "change", user |-> who[h],
                                row |-> Merge(edit[h], item[h])]
      [] pc[h] \in {"begin", "fill"} -> [does |-> "assign", user |-> who[h],
                                         groups |-> want[h]]
      [] pc[h] = "remove"    -> [does |-> "unregister", user |-> who[h]]
      [] pc[h] = "addGroup"  -> [does |-> "found"]
      [] pc[h] = "dropGroup" -> [does |-> "dissolve", group |-> which[h]]
      [] OTHER -> [does |-> "nothing"]

\* Every operation on the tables, done in several statements among those of
\* others, with failures and restarts between them, takes effect at once, as it
\* was asked for, on rows that are there (store.go:83-347, auth.go:171-242), or
\* not at all.
Tables == INSTANCE Directory WITH asked <- [h \in Handler |-> Asked(h)]
ImplementsDirectory == Tables!DSpec
=============================================================================
