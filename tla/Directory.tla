------------------------------ MODULE Directory ------------------------------
(***************************************************************************)
(* What the accounts API promises of its tables, with statements,          *)
(* connection and transactions abstracted away: an operation takes effect  *)
(* once and whole, or not at all, and only where the rows that it refers   *)
(* to are; what it deletes takes along the rows that refer to that.        *)
(* Accounts implements this specification.                                 *)
(***************************************************************************)
CONSTANTS User, Group, Session, Password, Default, Handler, None

VARIABLES user, account, group, member, status, owner,  \* the tables
          asked    \* input: the operation that each request is about to do

tables == <<user, account, group, member, status, owner>>

Account == [admin : BOOLEAN, active : BOOLEAN, pass : Password]
Blank   == [admin |-> FALSE, active |-> FALSE, pass |-> Default]
First   == [admin |-> TRUE, active |-> TRUE, pass |-> Default]

\* There is the default administrator and nothing else.
DInit ==
    /\ \E u \in User :
         /\ user = [v \in User |-> IF v = u THEN "here" ELSE "new"]
         /\ account = [v \in User |-> IF v = u THEN First ELSE Blank]
    /\ group = [g \in Group |-> "new"] /\ member = {}
    /\ status = [s \in Session |-> "new"] /\ owner = [s \in Session |-> None]

-----------------------------------------------------------------------------
\* Somebody new, in no group and signed in nowhere.
Enter(u, row) ==
    /\ user[u] = "new"
    /\ user' = [user EXCEPT ![u] = "here"] /\ account' = [account EXCEPT ![u] = row]
    /\ UNCHANGED <<group, member, status, owner>>
Register(r) == r.does = "register" /\ \E u \in User, row \in Account : Enter(u, row)
\* An administrator comes by himself when nobody is here.
Bootstrap == (\A v \in User : user[v] # "here") /\ \E u \in User : Enter(u, First)

\* All columns of somebody who is here, or the password alone.
IsHere(u) == u \in User /\ user[u] = "here"
Rewrite(u, row) ==
    /\ IsHere(u) /\ account' = [account EXCEPT ![u] = row]
    /\ UNCHANGED <<user, group, member, status, owner>>
Change(r) == r.does = "change" /\ Rewrite(r.user, r.row)
Repass(r) ==
    /\ r.does = "repass"
    /\ \E p \in Password : Rewrite(r.user, [account[r.user] EXCEPT !.pass = p])

\* All groups of somebody who is here are replaced, by groups that are here.
Assign(r) ==
    /\ r.does = "assign"
    /\ IsHere(r.user) /\ \A g \in r.groups : g \in Group /\ group[g] = "here"
    /\ member' = (member \ ({r.user} \X Group)) \cup ({r.user} \X r.groups)
    /\ UNCHANGED <<user, account, group, status, owner>>

\* Somebody goes, out of all groups and signed out everywhere.
Unregister(r) ==
    /\ r.does = "unregister"
    /\ LET u == r.user
       IN  /\ IsHere(u) /\ user' = [user EXCEPT ![u] = "gone"]
           /\ account' = [account EXCEPT ![u] = Blank]
           /\ member' = member \ ({u} \X Group)
           /\ status' = [s \in Session |-> IF owner[s] = u THEN "gone" ELSE status[s]]
           /\ owner' = [s \in Session |-> IF owner[s] = u THEN None ELSE owner[s]]
    /\ UNCHANGED group

\* A group is made, without members, or goes, and its members leave it.
Found(r) ==
    /\ r.does = "found"
    /\ \E g \in Group : group[g] = "new" /\ group' = [group EXCEPT ![g] = "here"]
    /\ UNCHANGED <<user, account, member, status, owner>>
Dissolve(r) ==
    /\ r.does = "dissolve"
    /\ LET g == r.group
       IN  /\ group[g] = "here" /\ group' = [group EXCEPT ![g] = "gone"]
           /\ member' = member \ (User \X {g})
    /\ UNCHANGED <<user, account, status, owner>>

\* Somebody who is here signs in.  A session ends, when asked to or by itself.
SignIn(r) ==
    /\ r.does = "signIn" /\ IsHere(r.user)
    /\ \E s \in Session : /\ status[s] = "new"
                          /\ status' = [status EXCEPT ![s] = "active"]
                          /\ owner' = [owner EXCEPT ![s] = r.user]
    /\ UNCHANGED <<user, account, group, member>>
End(s) ==
    /\ status[s] = "active" /\ status' = [status EXCEPT ![s] = "closed"]
    /\ UNCHANGED <<user, account, group, member, owner>>

\* An operation that is done is not done again.
Operation(h) ==
    /\ asked'[h].does # asked[h].does
    /\ LET r == asked[h]
       IN  \/ Register(r) \/ Change(r) \/ Repass(r) \/ Assign(r) \/ Unregister(r)
           \/ Found(r) \/ Dissolve(r) \/ SignIn(r)

\* Most steps change no table, and [DNext]_tables lets them: so that comes first.
DNext ==
    \/ UNCHANGED tables
    \/ Bootstrap
    \/ \E s \in Session : End(s)
    \/ \E h \in Handler : Operation(h)

DSpec == DInit /\ [][DNext]_tables
=============================================================================
