-------------------------------- MODULE Cloud --------------------------------
(***************************************************************************)
(* Cloud and network storages: the device's registration at the OAuth      *)
(* broker and the sessions that link a storage (internal/storage/          *)
(* oauth_broker.go), the sections of rclone.conf and the mounts            *)
(* (google_drive.go), network shares (network.go), the monitor that brings *)
(* mounts back (internal/cloudmonitor) and the deletion of a storage       *)
(* (internal/storagepool/delete.go).                                       *)
(*                                                                         *)
(* Requests, the monitor and the token refresh of the upload worker        *)
(* interleave at every call of the broker, statement, command, read and    *)
(* write of the configuration file.  A call may fail, an answer of the     *)
(* broker may be lost, the process may die, and the machine may reboot.    *)
(*                                                                         *)
(* A storage is a row, its token, its section and its mount.  Left out:    *)
(* the status and the figures of a row, which no step depends on, the      *)
(* identity of the account, OneDrive and Dropbox, which are linked alike   *)
(* but which the monitor passes over, the content of tokens and sections,  *)
(* and the tokens that rclone itself writes into the file.  The broker,    *)
(* rclone and mount are external.                                          *)
(*                                                                         *)
(* A definition named Slip... is a plausible fault of the definition after *)
(* it, substituted to see that a property notices.  No name is one of      *)
(* module Uploads, as the proofs about both are in one module.             *)
(***************************************************************************)
EXTENDS Naturals

CONSTANTS Request, Monitor, Worker, \* who acts
          Drive, Share, \* cloud storages, network storages, by id
          Session,      \* of the broker
          Key,          \* key pairs that are generated
          FirstRequests, Requests, \* bounds: how many requests there are, when
                        \* the device is new, and when it is registered
          Faults,       \* bound: failures, crashes, reboots
          Nil

Actor == Request \cup {Monitor, Worker}
Storage == Drive \cup Share

ASSUME ActorAssumption == Monitor # Worker /\ {Monitor, Worker} \cap Request = {}
ASSUME StorageAssumption ==
    Drive \cap Share = {} /\ Storage \cap Session = {} /\ Nil \notin Storage \cup Session
ASSUME KeyAssumption ==
    Key # {} /\ Nil \notin Key \cup [key : Key, registered : BOOLEAN]

VARIABLES
    conn, known,   \* the row of the device: its key, whether it is marked
                   \* registered; the key that the broker knows it by
    session,       \* of each session: where it stands, for which storage
    rows, tokens,  \* rows of storage; those with a token
    conf, mount,   \* sections of rclone.conf; how a storage is mounted
    where, task, at, copy, \* of each actor: where and at what it is, for which
                        \* storage or session, the sections it has read
    todo,          \* the rows that the monitor has listed
    budget,        \* requests to come and faults to come
    born,          \* history: the ids given out
    wiped,         \* history: storages whose files rm -rf has met
    met,           \* history: storages deleted while another actor was at them
    stray          \* history: shares mounted by a creation that did not end

broker    == <<conn, known, session>>
db        == <<rows, tokens>>
disk      == <<conf, mount, wiped>>
self      == <<where, task, at, copy, todo>>
cloudVars == <<broker, db, disk, self, budget, born, met, stray>>

CloudInit ==
    /\ where = [a \in Actor |-> "idle"] /\ task = [a \in Actor |-> "none"]
    /\ at = [a \in Actor |-> Nil] /\ copy = [a \in Actor |-> {}]
    /\ todo = {} /\ wiped = {} /\ met = {} /\ stray = {}
    /\ session = [x \in Session |-> [state |-> "none", storage |-> Nil]]
    /\ \/ conn = Nil /\ known = Nil /\ born = {} /\ mount = [s \in Storage |-> "none"]
       \/ /\ known = CHOOSE k \in Key : TRUE
          /\ conn = [key |-> known, registered |-> TRUE]
          /\ \E old \in (SUBSET Storage) \ {{}}, how \in {"none", "private"} :
               /\ born = old
               /\ mount = [s \in Storage |->
                             IF s \in old \cap Drive THEN how ELSE "none"]
    /\ budget = [requests |-> IF known = Nil THEN FirstRequests ELSE Requests,
                 faults |-> Faults]
    /\ rows = born /\ tokens = born \cap Drive /\ conf = tokens

-----------------------------------------------------------------------------
(* Steps. *)

At(a, what, point) == task[a] = what /\ where[a] = point
GoesTo(a, point) == where' = [where EXCEPT ![a] = point] /\ UNCHANGED <<task, at, copy, todo>>
End(a) ==
    /\ where' = [where EXCEPT ![a] = "idle"] /\ task' = [task EXCEPT ![a] = "none"]
    /\ at' = [at EXCEPT ![a] = Nil] /\ copy' = [copy EXCEPT ![a] = {}]
    /\ UNCHANGED todo

Ok == UNCHANGED budget
Fault == budget.faults > 0 /\ budget' = [budget EXCEPT !.faults = @ - 1]

\* A request begins, for a storage or a session or none.
Begin(r, what, point, subject) ==
    /\ where[r] = "idle" /\ budget.requests > 0
    /\ budget' = [budget EXCEPT !.requests = @ - 1]
    /\ where' = [where EXCEPT ![r] = point] /\ task' = [task EXCEPT ![r] = what]
    /\ at' = [at EXCEPT ![r] = subject] /\ UNCHANGED <<copy, todo>>

\* A step that fails ends a request; the monitor goes on with the next storage.
Fail(a) == End(a)

-----------------------------------------------------------------------------
(* The device and its sessions. *)

\* A link begins: for a new storage, or for one whose link is renewed.
StartCloudOAuth(r) ==
    /\ \E s \in (rows \cap Drive) \cup {Nil} : Begin(r, "start", "connection", s)
    /\ UNCHANGED <<broker, db, disk, born, stray>>

\* Is there a device, and is it registered?
GetConnection(r) ==
    /\ At(r, "start", "connection") /\ Ok
    /\ GoesTo(r, IF conn = Nil THEN "create"
               ELSE IF conn.registered THEN "session" ELSE "register")
    /\ UNCHANGED <<broker, db, disk, born, stray>>

SlipSaveConnection(r, k) ==
    /\ At(r, "start", "create") /\ GoesTo(r, "register") /\ Ok
    /\ conn' = IF conn = Nil THEN [key |-> k, registered |-> FALSE]
                              ELSE [conn EXCEPT !.key = k]
    /\ UNCHANGED <<known, session, db, disk, born, stray>>
\* A key pair is generated and stored; the address of the broker is unique.
SaveConnection(r, k) ==
    /\ At(r, "start", "create")
    /\ \/ /\ conn = Nil /\ conn' = [key |-> k, registered |-> FALSE]
          /\ GoesTo(r, "register") /\ Ok
       \/ conn # Nil /\ Fail(r) /\ Ok /\ UNCHANGED conn
       \/ Fail(r) /\ Fault /\ UNCHANGED conn
    /\ UNCHANGED <<known, session, db, disk, born, stray>>

\* The broker is told the key of the row; its answer may be lost.
RegisterDevice(r) ==
    /\ At(r, "start", "register")
    /\ \/ known' = conn.key /\ GoesTo(r, "mark") /\ Ok
       \/ known' \in {known, conn.key} /\ Fail(r) /\ Fault
    /\ UNCHANGED <<conn, session, db, disk, born, stray>>

MarkRegistered(r) ==
    /\ At(r, "start", "mark")
    /\ \/ conn' = [conn EXCEPT !.registered = TRUE] /\ GoesTo(r, "session") /\ Ok
       \/ Fail(r) /\ Fault /\ UNCHANGED conn
    /\ UNCHANGED <<known, session, db, disk, born, stray>>

\* The device signs in, which takes the key that the broker knows.
SignedIn == conn # Nil /\ conn.key = known

CreateSession(r, x) ==
    /\ At(r, "start", "session") /\ session[x].state = "none"
    /\ \/ /\ SignedIn /\ Ok
          /\ session' = [session EXCEPT ![x] = [state |-> "pending", storage |-> at[r]]]
       \/ ~SignedIn /\ Ok /\ UNCHANGED session
       \/ Fault /\ UNCHANGED session
    /\ End(r) /\ UNCHANGED <<conn, known, db, disk, born, stray>>

\* The user consents, at the provider.
Consent(x) ==
    /\ session[x].state = "pending"
    /\ session' = [session EXCEPT ![x].state = "success"]
    /\ UNCHANGED <<conn, known, db, disk, self, budget, born, stray>>

CompleteCloudOAuth(r, x) ==
    /\ session[x].state # "none" /\ Begin(r, "link", "status", x)
    /\ UNCHANGED <<broker, db, disk, born, stray>>

Status(r) ==
    /\ At(r, "link", "status")
    /\ \/ SignedIn /\ session[at[r]].state = "success" /\ GoesTo(r, "exchange") /\ Ok
       \/ ~(SignedIn /\ session[at[r]].state = "success") /\ Fail(r) /\ Ok
       \/ Fail(r) /\ Fault
    /\ UNCHANGED <<broker, db, disk, born, stray>>

\* The broker gives the tokens of a session once; they may be lost on the way.
Exchange(r) ==
    LET x == at[r]
        Spend == session' = [session EXCEPT ![x].state = "spent"]
    IN  /\ At(r, "link", "exchange")
        /\ \/ session[x].state # "spent" /\ Spend /\ GoesTo(r, "store") /\ Ok
           \/ session[x].state = "spent" /\ Fail(r) /\ Ok /\ UNCHANGED session
           \/ session[x].state # "spent" /\ Spend /\ Fail(r) /\ Fault
        /\ UNCHANGED <<conn, known, db, disk, born, stray>>

\* A new storage is added, or the one whose link is renewed is loaded.
CreateOrReconnect(r, s) ==
    LET old == session[at[r]].storage
    IN  /\ At(r, "link", "store")
        /\ \/ /\ old = Nil /\ s \in Drive \ born /\ Ok
              /\ rows' = rows \cup {s} /\ born' = born \cup {s}
              /\ where' = [where EXCEPT ![r] = "token"] /\ at' = [at EXCEPT ![r] = s]
              /\ UNCHANGED <<task, copy, todo>>
           \/ /\ old = s /\ s \in rows /\ Ok /\ UNCHANGED <<rows, born>>
              /\ where' = [where EXCEPT ![r] = "token"] /\ at' = [at EXCEPT ![r] = s]
              /\ UNCHANGED <<task, copy, todo>>
           \/ old = s /\ s \notin rows /\ Fail(r) /\ Ok /\ UNCHANGED <<rows, born>>
           \/ Fail(r) /\ Fault /\ UNCHANGED <<rows, born>>
        /\ UNCHANGED <<broker, tokens, disk, stray>>

\* Both rows of a token belong to a row of storage.
SaveToken(r) ==
    LET s == at[r]
    IN  /\ At(r, "link", "token")
        /\ \/ s \in rows /\ tokens' = tokens \cup {s} /\ GoesTo(r, "config") /\ Ok
           \/ s \notin rows /\ Fail(r) /\ Ok /\ UNCHANGED tokens
           \/ tokens' \in {tokens, tokens \cup ({s} \cap rows)} /\ Fail(r) /\ Fault
        /\ UNCHANGED <<broker, rows, disk, born, stray>>

\* A token that Google refuses is refreshed by the worker, and stored if the
\* row is still there.
StartRefresh(s) ==
    /\ task[Worker] = "none" /\ s \in tokens
    /\ where' = [where EXCEPT ![Worker] = "token"]
    /\ task' = [task EXCEPT ![Worker] = "refresh"]
    /\ at' = [at EXCEPT ![Worker] = s] /\ UNCHANGED <<copy, todo>>
    /\ Ok /\ UNCHANGED <<broker, db, disk, born, stray>>

SlipPersistRefreshed ==
    /\ At(Worker, "refresh", "token")
    /\ tokens' = tokens \cup {at[Worker]} /\ End(Worker) /\ Ok
    /\ UNCHANGED <<broker, rows, disk, born, stray>>
PersistRefreshed ==
    /\ At(Worker, "refresh", "token")
    /\ \/ tokens' = tokens \cup ({at[Worker]} \cap rows) /\ Ok
       \/ UNCHANGED tokens /\ Fault
    /\ End(Worker) /\ UNCHANGED <<broker, rows, disk, born, stray>>

-----------------------------------------------------------------------------
(* The configuration of rclone and the mounts. *)

\* The monitor goes on with its list, every other actor is done.
Leave(a) ==
    IF a # Monitor THEN End(a)
    ELSE /\ where' = [where EXCEPT ![a] = "next"] /\ at' = [at EXCEPT ![a] = Nil]
         /\ copy' = [copy EXCEPT ![a] = {}] /\ UNCHANGED <<task, todo>>

Benchmark(r, s) ==
    /\ s \in tokens /\ Begin(r, "bench", "config", s)
    /\ UNCHANGED <<broker, db, disk, born, stray>>

Writing(a) == where[a] = "write"

\* The file is read whole; while somebody writes it, it may be empty.
TakeConfig(a) ==
    /\ \E seen \in {conf} \cup {{} : b \in {b \in Actor \ {a} : Writing(b)}} :
         copy' = [copy EXCEPT ![a] = seen]
    /\ where' = [where EXCEPT ![a] = "write"] /\ UNCHANGED <<task, at, todo>>

SlipReadConfig(a) ==
    /\ where[a] = "config"
    /\ \/ (task[a] = "delete" \/ mount[at[a]] # "shared") /\ TakeConfig(a) /\ Ok
       \/ task[a] # "delete" /\ mount[at[a]] = "shared" /\ Leave(a) /\ Ok
       \/ Leave(a) /\ Fault
    /\ UNCHANGED <<broker, db, disk, born, stray>>
\* Also for a storage that is mounted.
ReadConfig(a) ==
    /\ where[a] = "config"
    /\ \/ TakeConfig(a) /\ Ok
       \/ Leave(a) /\ Fault
    /\ UNCHANGED <<broker, db, disk, born, stray>>

\* And written whole, with a section put in or taken out; the rest of a benchmark
\* moves a file of its own.
WriteConfig(a) ==
    /\ Writing(a)
    /\ \/ /\ conf' = IF task[a] = "delete" THEN copy[a] \ {at[a]}
                                          ELSE copy[a] \cup {at[a]}
          /\ \/ task[a] = "bench" /\ End(a)
             \/ /\ task[a] # "bench" /\ copy' = [copy EXCEPT ![a] = {}]
                /\ where' = [where EXCEPT ![a] =
                              IF task[a] = "delete" THEN "tokens" ELSE "look"]
                /\ UNCHANGED <<task, at, todo>>
          /\ Ok
       \/ conf' \in {conf, {}} /\ Leave(a) /\ Fault
    /\ UNCHANGED <<broker, db, mount, wiped, born, stray>>

Mounted(a) == IF task[a] = "share" THEN GoesTo(a, "add") ELSE Leave(a)
NotMounted(a) == IF task[a] = "share" THEN GoesTo(a, "undo") ELSE Leave(a)

\* A drive that others may use stays mounted; one that they may not is unmounted
\* first.  That the command mount fails is not noticed.
LookDrive(a) ==
    LET s == at[a]
    IN  /\ where[a] = "look" /\ s \in Drive
        /\ \/ mount[s] = "shared" /\ Mounted(a) /\ Ok /\ UNCHANGED mount
           \/ mount[s] = "none" /\ GoesTo(a, "mount") /\ Ok /\ UNCHANGED mount
           \/ /\ mount[s] = "private" /\ mount' = [mount EXCEPT ![s] = "none"]
              /\ GoesTo(a, "mount") /\ Ok
           \/ Fault /\ (GoesTo(a, "mount") \/ NotMounted(a)) /\ UNCHANGED mount
        /\ UNCHANGED <<broker, db, conf, wiped, born, stray>>

LookShare(a) ==
    LET s == at[a]
    IN  /\ where[a] = "look" /\ s \in Share
        /\ \/ mount[s] # "none" /\ Mounted(a) /\ Ok
           \/ mount[s] = "none" /\ GoesTo(a, "mount") /\ Ok
           \/ Fault /\ (GoesTo(a, "mount") \/ NotMounted(a))
        /\ UNCHANGED <<broker, db, disk, born, stray>>

\* rclone refuses a path that is mounted, mount the same share twice.
TryMount(a, ready) ==
    LET s == at[a]
    IN  /\ \/ /\ ready /\ mount[s] = "none" /\ mount' = [mount EXCEPT ![s] = "shared"]
              /\ ((Mounted(a) /\ Ok) \/ (NotMounted(a) /\ Fault))
           \/ ~(ready /\ mount[s] = "none") /\ NotMounted(a) /\ Ok /\ UNCHANGED mount
           \/ NotMounted(a) /\ Fault /\ UNCHANGED mount
        /\ UNCHANGED <<broker, db, conf, wiped, born, stray>>

\* rclone reads the section of the drive.
MountDrive(a) == where[a] = "mount" /\ at[a] \in Drive /\ TryMount(a, at[a] \in conf)
MountShare(a) == where[a] = "mount" /\ at[a] \in Share /\ TryMount(a, TRUE)

-----------------------------------------------------------------------------
(* Network storages. *)

CreateNetworkStorage(r, s) ==
    /\ s \in Share \ born /\ Begin(r, "share", "look", s)
    /\ born' = born \cup {s} /\ UNCHANGED <<broker, db, disk, stray>>

AddShare(r) ==
    /\ At(r, "share", "add")
    /\ \/ rows' = rows \cup {at[r]} /\ End(r) /\ Ok
       \/ GoesTo(r, "undo") /\ Fault /\ UNCHANGED rows
    /\ UNCHANGED <<broker, tokens, disk, born, stray>>

SlipCleanup(r) ==
    LET s == at[r]
    IN  /\ At(r, "share", "undo") /\ End(r)
        /\ wiped' = IF mount[s] = "none" THEN wiped ELSE wiped \cup {s}
        /\ \/ mount' = [mount EXCEPT ![s] = "none"] /\ Ok /\ UNCHANGED stray
           \/ mount[s] # "none" /\ Fault /\ stray' = stray \cup {s} /\ UNCHANGED mount
        /\ UNCHANGED <<broker, db, conf, born>>
\* The path is unmounted and removed; that it is still mounted is not noticed.
CleanupMountPath(r) ==
    LET s == at[r]
    IN  /\ At(r, "share", "undo") /\ End(r)
        /\ \/ mount' = [mount EXCEPT ![s] = "none"] /\ Ok /\ UNCHANGED <<wiped, stray>>
           \/ /\ mount[s] # "none" /\ Fault /\ UNCHANGED mount
              /\ wiped' = wiped \cup {s} /\ stray' = stray \cup {s}
        /\ UNCHANGED <<broker, db, conf, born>>

-----------------------------------------------------------------------------
(* Deletion. *)

DeletePool(r, s) ==
    /\ s \in rows
    /\ Begin(r, "delete", IF s \in Drive THEN "unmount" ELSE "detach", s)
    /\ UNCHANGED <<broker, db, disk, born, stray>>

\* A mount that the command mount does not show is passed over.
Unmount(r) ==
    LET s == at[r]
    IN  /\ At(r, "delete", "unmount")
        /\ \/ mount' = [mount EXCEPT ![s] = "none"] /\ GoesTo(r, "config") /\ Ok
           \/ (GoesTo(r, "config") \/ Fail(r)) /\ Fault /\ UNCHANGED mount
        /\ UNCHANGED <<broker, db, conf, wiped, born, stray>>

\* The tokens and the sessions of the storage.
DropTokens(r) ==
    LET s == at[r]
        Forget == session' = [x \in Session |->
                    IF session[x].storage # s \/ session[x].state = "spent"
                    THEN session[x] ELSE [session[x] EXCEPT !.state = "forgotten"]]
    IN  /\ At(r, "delete", "tokens")
        /\ \/ tokens' = tokens \ {s} /\ Forget /\ GoesTo(r, "detach") /\ Ok
           \/ /\ tokens' \in {tokens, tokens \ {s}} /\ Fail(r) /\ Fault
              /\ UNCHANGED session
        /\ UNCHANGED <<conn, known, rows, disk, born, stray>>

\* What is still mounted is unmounted.
Detach(r) ==
    LET s == at[r]
    IN  /\ At(r, "delete", "detach")
        /\ \/ mount' = [mount EXCEPT ![s] = "none"] /\ GoesTo(r, "rows") /\ Ok
           \/ mount[s] # "none" /\ Fail(r) /\ Fault /\ UNCHANGED mount
        /\ UNCHANGED <<broker, db, conf, wiped, born, stray>>

\* The row goes, and with it what refers to it.
DeleteRows(r) ==
    LET s == at[r]
    IN  /\ At(r, "delete", "rows")
        /\ \/ rows' = rows \ {s} /\ tokens' = tokens \ {s} /\ GoesTo(r, "check") /\ Ok
           \/ Fail(r) /\ Fault /\ UNCHANGED db
        /\ UNCHANGED <<broker, disk, born, stray>>

CheckPath(r) ==
    /\ At(r, "delete", "check") /\ Ok
    /\ IF mount[at[r]] = "none" THEN GoesTo(r, "remove") ELSE Fail(r)
    /\ UNCHANGED <<broker, db, disk, born, stray>>

\* rm -rf, which goes into what has been mounted meanwhile.
RemovePath(r) ==
    /\ At(r, "delete", "remove") /\ End(r) /\ Ok
    /\ wiped' = IF mount[at[r]] = "none" THEN wiped ELSE wiped \cup {at[r]}
    /\ UNCHANGED <<broker, db, conf, mount, born, stray>>

-----------------------------------------------------------------------------
(* The monitor, and what befalls the machine. *)

ListStorages ==
    /\ where[Monitor] = "idle" /\ todo' = rows /\ Ok
    /\ where' = [where EXCEPT ![Monitor] = "next"]
    /\ task' = [task EXCEPT ![Monitor] = "monitor"] /\ UNCHANGED <<at, copy>>
    /\ UNCHANGED <<broker, db, disk, born, stray>>

CheckStorage(s) ==
    /\ At(Monitor, "monitor", "next") /\ s \in todo /\ todo' = todo \ {s}
    /\ \/ /\ Ok /\ at' = [at EXCEPT ![Monitor] = s]
          /\ \/ s \in Share /\ where' = [where EXCEPT ![Monitor] = "look"]
             \/ s \in tokens /\ where' = [where EXCEPT ![Monitor] = "config"]
       \/ s \in Drive \ tokens /\ Ok /\ UNCHANGED <<where, at>>
       \/ s \in Drive /\ Fault /\ UNCHANGED <<where, at>>
    /\ UNCHANGED <<task, copy, broker, db, disk, born, stray>>

CheckedAll ==
    /\ At(Monitor, "monitor", "next") /\ todo = {} /\ End(Monitor) /\ Ok
    /\ UNCHANGED <<broker, db, disk, born, stray>>

\* The process dies, maybe amid a write of the configuration; the mounts stay,
\* unless it is the machine that stops.
Die ==
    /\ Fault
    /\ where' = [a \in Actor |-> "idle"] /\ task' = [a \in Actor |-> "none"]
    /\ at' = [a \in Actor |-> Nil] /\ copy' = [a \in Actor |-> {}] /\ todo' = {}
    /\ conf' \in {conf} \cup {{} : a \in {a \in Actor : Writing(a)}}
    /\ mount' \in {mount, [s \in Storage |-> "none"]}
    /\ stray' = stray \cup {at[a] : a \in {a \in Actor : task[a] = "share"}}
    /\ UNCHANGED <<broker, db, wiped, born>>

\* While a storage is being deleted, another actor is at it, or is to write a
\* section that it has read.
Meet ==
    {s \in Storage :
       \E r \in Request : /\ task[r] = "delete" /\ at[r] = s
                          /\ \E a \in Actor \ {r} :
                               \/ at[a] = s /\ task[a] \in {"link", "monitor", "bench"}
                               \/ s \in copy[a]
                               \/ s \in Share \cap todo}

Link(r) ==
    \/ StartCloudOAuth(r) \/ GetConnection(r) \/ RegisterDevice(r) \/ MarkRegistered(r)
    \/ Status(r) \/ Exchange(r) \/ SaveToken(r)
    \/ \E k \in Key : SaveConnection(r, k)
    \/ \E x \in Session : CreateSession(r, x) \/ CompleteCloudOAuth(r, x)
    \/ \E s \in Drive : CreateOrReconnect(r, s)
Delete(r) ==
    \/ Unmount(r) \/ DropTokens(r) \/ Detach(r) \/ DeleteRows(r) \/ CheckPath(r)
    \/ RemovePath(r) \/ \E s \in Storage : DeletePool(r, s)
Serve(r) ==
    \/ Link(r) \/ Delete(r) \/ AddShare(r) \/ CleanupMountPath(r)
    \/ \E s \in Storage : Benchmark(r, s) \/ CreateNetworkStorage(r, s)
Ensure(a) ==
    \/ ReadConfig(a) \/ WriteConfig(a) \/ LookDrive(a) \/ LookShare(a)
    \/ MountDrive(a) \/ MountShare(a)
Watch == ListStorages \/ CheckedAll \/ \E s \in Storage : CheckStorage(s)
Refresh == PersistRefreshed \/ \E s \in Drive : StartRefresh(s)

CloudNext ==
    /\ \/ \E r \in Request : Serve(r)
       \/ \E a \in Actor : Ensure(a)
       \/ \E x \in Session : Consent(x)
       \/ Watch \/ Refresh \/ Die
    /\ met' = met \cup Meet

\* The monitor's ticker goes on, and what a request that has begun waits for ends.
Fairness ==
    /\ WF_cloudVars((Watch \/ Ensure(Monitor)) /\ met' = met \cup Meet)
    /\ \A r \in Request :
          WF_cloudVars(where[r] # "idle" /\ (Serve(r) \/ Ensure(r)) /\ met' = met \cup Meet)

CloudSpec == CloudInit /\ [][CloudNext]_cloudVars /\ Fairness

-----------------------------------------------------------------------------
(* Properties. *)

\* Every variable keeps the type of the row, file or local it stands for.
CloudTypeOK ==
    /\ conn \in [key : Key, registered : BOOLEAN] \cup {Nil}
    /\ known \in Key \cup {Nil}
    /\ session \in [Session -> [state : {"none", "pending", "success", "spent",
                                          "forgotten"},
                                storage : Drive \cup {Nil}]]
    /\ rows \subseteq born /\ tokens \subseteq Drive /\ conf \subseteq Drive
    /\ mount \in [Storage -> {"none", "private", "shared"}]
    /\ at \in [Actor -> Storage \cup Session \cup {Nil}]
    /\ copy \in [Actor -> SUBSET Drive] /\ todo \subseteq Storage

\* Two first links may generate two key pairs and the broker's answer may be
\* lost; still a device that is marked registered signs in with the key that the
\* broker knows, or no link would ever work again.
RegisteredKnown == conn # Nil /\ conn.registered => conn.key = known

\* A storage that is gone leaves no token, no section and no mount behind, and
\* no row refers to it: not after any sequence of failures and retries, unless
\* another actor was at it while it was deleted, or a creation was cut off.
Gone == born \ (rows \cup {at[a] : a \in Actor})
NothingLeft ==
    /\ tokens \subseteq rows
    /\ \A s \in Gone \ (met \cup stray) : s \notin conf /\ mount[s] = "none"

\* The removal of a mount point never goes into the files of the cloud or of
\* the share, but where another actor mounts it amid the deletion, or where
\* the undoing of a creation cannot unmount it.
FilesKept == wiped \subseteq met \cup stray

\* The configuration is read and written without a lock, a section is lost when
\* two do so at a time, and mounts go with a reboot; once failures and requests
\* end, every storage gets its section and its mount back, and keeps them.
Heals ==
    <>[](\A s \in (rows \cap Share) \cup (rows \cap tokens) :
            mount[s] = "shared" /\ (s \in Drive => s \in conf))

-----------------------------------------------------------------------------
(* Why they hold: the parts of an inductive invariant. *)

Tasks == {"none", "start", "link", "bench", "share", "delete", "monitor", "refresh"}
Points == {"idle", "connection", "create", "register", "mark", "session", "status",
           "exchange", "store", "token", "config", "write", "look", "mount", "add", "undo",
           "unmount", "tokens", "detach", "rows", "check", "remove", "next"}

\* What each actor is at, where it stands, for whom, and that it has a copy of
\* the sections only between reading and writing.
Stands(a) ==
    /\ \/ task[a] = "none" /\ where[a] = "idle" /\ at[a] = Nil
       \/ /\ task[a] = "start" /\ at[a] \in Drive \cup {Nil}
          /\ where[a] \in {"connection", "create", "register", "mark", "session"}
       \/ task[a] = "link" /\ where[a] \in {"status", "exchange", "store"} /\ at[a] \in Session
       \/ task[a] = "link" /\ where[a] \in {"token", "look", "mount"} /\ at[a] \in Drive
       \/ /\ task[a] \in {"link", "bench", "monitor", "delete"}
          /\ where[a] \in {"config", "write"} /\ at[a] \in Drive
       \/ task[a] = "monitor" /\ where[a] = "next" /\ at[a] = Nil
       \/ task[a] = "monitor" /\ where[a] \in {"look", "mount"} /\ at[a] \in Storage
       \/ task[a] = "share" /\ where[a] \in {"look", "mount", "add", "undo"} /\ at[a] \in Share
       \/ task[a] = "delete" /\ where[a] \in {"unmount", "tokens"} /\ at[a] \in Drive
       \/ /\ task[a] = "delete" /\ at[a] \in Storage
          /\ where[a] \in {"detach", "rows", "check", "remove"}
       \/ task[a] = "refresh" /\ where[a] = "token" /\ at[a] \in Drive
    /\ (task[a] = "monitor" => a = Monitor) /\ (task[a] = "refresh" => a = Worker)
    /\ task[a] \in {"start", "link", "bench", "share", "delete"} => a \in Request
    /\ where[a] # "write" => copy[a] = {}

\* The broker knows no key but the one of the row, and whoever is to mark the
\* row has had it registered.
Keys ==
    /\ known # Nil => conn # Nil /\ conn.key = known
    /\ \A a \in Actor :
         /\ At(a, "start", "register") => conn # Nil
         /\ At(a, "start", "mark") => conn # Nil /\ conn.key = known

\* Whoever is at a storage, it was given its id; a token has its row.
Listed ==
    /\ rows \cup todo \subseteq born /\ born \subseteq Storage /\ tokens \subseteq rows
    /\ \A a \in Actor : at[a] \in Storage => at[a] \in born

\* A share that is being created has no row yet, and nobody else is at it.
Alone ==
    \A a \in Actor : task[a] = "share" =>
        at[a] \notin rows \cup todo /\ \A b \in Actor \ {a} : at[b] # at[a]

\* Once a deletion has taken the section out it stays out, and once it has
\* unmounted the storage this stays so, unless another actor is or was at it.
Cleared ==
    \A r \in Actor : task[r] = "delete" /\ at[r] \notin met \cup Meet =>
        /\ where[r] \in {"tokens", "detach", "rows", "check", "remove"} => at[r] \notin conf
        /\ where[r] \in {"rows", "check", "remove"} => mount[at[r]] = "none"

\* A storage whose row is gone has no section and no mount, and nobody is left
\* who could make one.
Lost(s) ==
    /\ s \in born \ (rows \cup met \cup stray)
    /\ \A a \in Actor : task[a] = "share" => at[a] # s
Vanished ==
    \A s \in Storage : Lost(s) =>
        /\ s \notin conf \cup (Share \cap todo) /\ mount[s] = "none"
        /\ \A a \in Actor : /\ s \notin copy[a]
                            /\ at[a] = s => task[a] \notin {"link", "monitor", "bench"}

CloudInv ==
    /\ CloudTypeOK /\ where \in [Actor -> Points] /\ task \in [Actor -> Tasks]
    /\ \A a \in Actor : Stands(a)
    /\ Keys /\ RegisteredKnown /\ Listed /\ Alone /\ Cleared /\ Vanished /\ FilesKept
=============================================================================
