---------------------------- MODULE AutoSnapshots ----------------------------
(***************************************************************************)
(* The automatic snapshots of pools: the schedule kept in a pool's row     *)
(* (internal/storagepool/create.go, update.go, store.go) and the worker of *)
(* the job queue (internal/jobs/jobs.go) that turns an occurrence into a   *)
(* job and runs it.                                                        *)
(*                                                                         *)
(* Time is a number of slots, the first slot of a day its midnight.  The   *)
(* worker reads all the pools, then goes through them one statement at a   *)
(* time, then takes the oldest job; users change schedules and pause,      *)
(* resume, cancel and delete jobs between any two of these statements, a   *)
(* statement may fail, and the process may die and come back.              *)
(*                                                                         *)
(* A job that has ended is forgotten.  The handlers' reads and writes are  *)
(* one step here (module Jobs takes them apart), and so are the steps of a *)
(* snapshot (module Snapshots).  Left out: the schedules by name, which no *)
(* request can store, changes of the clock or of the zone, and the columns *)
(* that are only shown.                                                    *)
(*                                                                         *)
(* A definition named Slip... is a plausible fault of the definition after *)
(* it, substituted to see that a property notices.  No name is one of      *)
(* module Snapshots, as the proofs about both are in one module.           *)
(***************************************************************************)
EXTENDS Integers

CONSTANTS Week,      \* days of a week
          Slots,     \* moments told apart in a day
          Horizon,   \* bound: the last moment
          Schedules, \* those that users ask for: sets of days of the week
          Pool,
          Job,       \* bound: the jobs that have not ended
          Faults,    \* bound: failures and crashes
          Nil

ASSUME TimeAssumption ==
    Week \in Nat \ {0} /\ Slots \in Nat \ {0} /\ Horizon \in Nat
ASSUME SchedulesAssumption == Schedules \subseteq (SUBSET (0..Week - 1)) \ {{}}
ASSUME FaultsAssumption == Faults \in Nat
ASSUME NilAssumption == Nil \notin Int \cup Pool \cup Job

VARIABLES
    now,
    pool,    \* rows of storage_pool: enabled, schedule, the next occurrence
    job,     \* rows of jobs: pool, occurrence (due), whether a user resumed it
    worker,  \* where it stands, the rows it has read and when, what it is at
    stop,    \* the stop reason asked of the running job
    faults,
    since,   \* history: when a pool was last set up, queued or snapshotted
    made,    \* history: the last occurrence a job was made for
    amiss    \* history: next was lost, or written from a row read too early

autoVars == <<now, pool, job, worker, stop, faults, since, made, amiss>>

Free == [status |-> "free", pool |-> Nil, due |-> Nil, created |-> 0,
         resumed |-> FALSE]
Off  == [enabled |-> FALSE, schedule |-> {}, next |-> Nil]
Idle == [pc |-> "sweep", todo |-> {}, seen |-> [p \in Pool |-> Off], at |-> 0,
         pool |-> Nil, job |-> Nil]

AutoInit ==
    /\ now = 0 /\ faults = 0 /\ stop = "none"
    /\ pool = [p \in Pool |-> Off]
    /\ job = [j \in Job |-> Free]
    /\ worker = Idle
    /\ since = [p \in Pool |-> 0]
    /\ made = [p \in Pool |-> -1]
    /\ amiss = [p \in Pool |-> FALSE]

-----------------------------------------------------------------------------
(* The calendar. *)

Allowed(t, schedule) == t % Slots = 0 /\ (t \div Slots) % Week \in schedule

\* The first of the next midnights, up to the same day next week, that is
\* after the time given and on a day of the schedule.
NextAutoSnapshotTime(from, schedule) ==
    LET midnight == Slots * (from \div Slots)
        dates == {c \in {midnight + Slots * offset : offset \in 0..Week} :
                    c > from /\ Allowed(c, schedule)}
    IN  CHOOSE c \in dates : \A d \in dates : c <= d

\* From occurrence to occurrence, until one is in the future.
nextAutoSnapshotAfter(last, schedule, time) ==
    LET after[t \in last..time] ==
            LET next == NextAutoSnapshotTime(t, schedule)
            IN  IF next > time THEN next ELSE after[next]
    IN  after[last]

-----------------------------------------------------------------------------
(* Users and the clock. *)

\* The request that sets a pool up, its validation and its statement.
UpdatePool(p) ==
    /\ \E enabled \in BOOLEAN, schedule \in Schedules :
         pool' = [pool EXCEPT ![p] =
                    IF enabled
                    THEN [enabled |-> TRUE, schedule |-> schedule,
                          next |-> NextAutoSnapshotTime(now, schedule)]
                    ELSE Off]
    /\ since' = [since EXCEPT ![p] = now] /\ amiss' = [amiss EXCEPT ![p] = FALSE]
    /\ UNCHANGED <<now, job, worker, stop, faults, made>>

\* A running job that is at its snapshot is told to stop.
Ask(j, reason) ==
    stop' = IF worker.pc = "snapshot" /\ worker.job = j THEN reason ELSE stop

Pause(j) ==
    /\ job[j].status \in {"pending", "running"}
    /\ job' = [job EXCEPT ![j].status = "paused"]
    /\ IF job[j].status = "running" THEN Ask(j, "pause") ELSE UNCHANGED stop
    /\ UNCHANGED <<now, pool, worker, faults, since, made, amiss>>

Resume(j) ==
    /\ job[j].status = "paused"
    /\ job' = [job EXCEPT ![j].status = "pending", ![j].resumed = TRUE]
    /\ UNCHANGED <<now, pool, worker, stop, faults, since, made, amiss>>

\* A job is cancelled or deleted.
Drop(j) ==
    /\ job[j].status # "free"
    /\ job' = [job EXCEPT ![j] = Free]
    /\ IF job[j].status = "running" THEN Ask(j, "drop") ELSE UNCHANGED stop
    /\ UNCHANGED <<now, pool, worker, faults, since, made, amiss>>

Tick ==
    /\ now < Horizon /\ now' = now + 1
    /\ UNCHANGED <<pool, job, worker, stop, faults, since, made, amiss>>

-----------------------------------------------------------------------------
(* The worker: what is due becomes a job. *)

WorkerAt(point) == worker.pc = point
GoesTo(point) == worker' = [worker EXCEPT !.pc = point]
Fault == faults < Faults /\ faults' = faults + 1
Skip == UNCHANGED faults

\* A running job whose heartbeat has stopped is failed, by whoever looks.
markStaleRunningJobs(j) ==
    /\ job[j].status = "running" /\ worker.job # j
    /\ job' = [job EXCEPT ![j] = Free]
    /\ UNCHANGED <<now, pool, worker, stop, faults, since, made, amiss>>

\* The pools are listed, and those that are due are gone through.
ListPools ==
    /\ WorkerAt("sweep")
    /\ \/ Skip /\ worker' = [worker EXCEPT !.pc = "due", !.seen = pool, !.at = now,
              !.todo = {p \in Pool : pool[p].enabled /\ pool[p].next <= now}]
       \/ Fault /\ GoesTo("claim")
    /\ UNCHANGED <<now, pool, job, stop, since, made, amiss>>

SlipPending(p) == \E j \in Job : job[j].pool = p /\ job[j].status = "pending"
SlipUnfinished(p) == \E j \in Job : job[j].pool = p
hasPendingOrRunning(p) ==
    \E j \in Job : job[j].pool = p /\ job[j].status \in {"pending", "running"}

Done(p) == [worker EXCEPT !.pc = "due", !.todo = @ \ {p}, !.pool = Nil]

CheckWaiting(p) ==
    /\ WorkerAt("due") /\ p \in worker.todo
    /\ \/ Skip /\ hasPendingOrRunning(p) /\ worker' = Done(p)
       \/ Skip /\ ~hasPendingOrRunning(p)
          /\ worker' = [worker EXCEPT !.pc = "queue", !.pool = p]
       \/ Fault /\ worker' = Done(p)
    /\ UNCHANGED <<now, pool, job, stop, since, made, amiss>>

\* The row has changed since it was read.
Overtaken(p) == since[p] > worker.at \/ worker.seen[p].schedule # pool[p].schedule

SlipUpdateQueued(p) ==
    /\ WorkerAt("queue") /\ p = worker.pool
    /\ \/ /\ Skip /\ GoesTo("insert")
          /\ pool' = [pool EXCEPT ![p].next = nextAutoSnapshotAfter(
                worker.seen[p].next, worker.seen[p].schedule, worker.at)]
          /\ amiss' = [amiss EXCEPT ![p] = Overtaken(p)]
       \/ Fault /\ GoesTo("insert") /\ UNCHANGED <<pool, amiss>>
    /\ UNCHANGED <<now, job, stop, since, made>>
\* The next occurrence is stored before the job of this one is.
UpdateAutoSnapshotQueued(p) ==
    /\ WorkerAt("queue") /\ p = worker.pool
    /\ \/ /\ Skip /\ GoesTo("insert")
          /\ pool' = [pool EXCEPT ![p].next = nextAutoSnapshotAfter(
                worker.seen[p].next, worker.seen[p].schedule, worker.at)]
          /\ amiss' = [amiss EXCEPT ![p] = Overtaken(p)]
       \/ Fault /\ worker' = Done(p) /\ UNCHANGED <<pool, amiss>>
    /\ UNCHANGED <<now, job, stop, since, made>>

enqueueAutoSnapshotJob(p, j) ==
    /\ WorkerAt("insert") /\ p = worker.pool /\ job[j].status = "free"
    /\ worker' = Done(p)
    /\ \/ /\ Skip
          /\ job' = [job EXCEPT ![j] = [status |-> "pending", pool |-> p,
                due |-> worker.seen[p].next, created |-> worker.at,
                resumed |-> FALSE]]
          /\ since' = [since EXCEPT ![p] = IF worker.at > @ THEN worker.at ELSE @]
          /\ made' = [made EXCEPT ![p] = worker.seen[p].next]
          /\ UNCHANGED amiss
       \/ /\ Fault /\ amiss' = [amiss EXCEPT ![p] = TRUE]
          /\ UNCHANGED <<job, since, made>>
    /\ UNCHANGED <<now, pool, stop>>

-----------------------------------------------------------------------------
(* The worker: a job is run. *)

Pending == {j \in Job : job[j].status = "pending"}

claimNextPendingJob ==
    /\ (WorkerAt("due") /\ worker.todo = {}) \/ WorkerAt("claim")
    /\ \/ \E j \in Pending :
            /\ \A k \in Pending : job[j].created <= job[k].created
            /\ Skip /\ job' = [job EXCEPT ![j].status = "running"]
            /\ worker' = [Idle EXCEPT !.pc = "load", !.job = j,
                                       !.pool = job[j].pool]
       \/ Pending = {} /\ Skip /\ worker' = Idle /\ UNCHANGED job
       \/ Fault /\ worker' = Idle /\ UNCHANGED job
    /\ UNCHANGED <<now, pool, stop, since, made, amiss>>

Rests == worker' = Idle /\ stop' = "none"
updateFailure(j) ==
    job' = [job EXCEPT ![j] = IF @.status = "running" THEN Free ELSE @]

\* The pool is read, the job is registered, the snapshot begins.
LoadPool(j) ==
    /\ WorkerAt("load") /\ j = worker.job
    /\ LET p == worker.pool
       IN  \/ /\ pool[p].enabled /\ Skip
              /\ worker' = [worker EXCEPT !.pc = "snapshot", !.seen[p] = pool[p]]
              /\ UNCHANGED <<job, stop>>
           \/ ~pool[p].enabled /\ Skip /\ Rests /\ updateFailure(j)
           \/ Fault /\ Rests /\ updateFailure(j)
    /\ UNCHANGED <<now, pool, since, made, amiss>>

\* A pause also takes back what was resumed meanwhile.
updatePaused(j) ==
    job' = [job EXCEPT ![j].status = IF @ \in {"pending", "running"} THEN "paused"
                                                                     ELSE @]
\* The snapshot is made, is interrupted, or fails.
MakeSnapshot(j) ==
    /\ WorkerAt("snapshot") /\ j = worker.job
    /\ \/ Skip /\ GoesTo("look") /\ stop' = "none" /\ UNCHANGED job
       \/ stop = "pause" /\ Skip /\ Rests /\ updatePaused(j)
       \/ stop = "drop" /\ Skip /\ Rests /\ UNCHANGED job
       \/ Fault /\ Rests /\ updateFailure(j)
    /\ UNCHANGED <<now, pool, since, made, amiss>>

SlipSuccess(j) ==
    /\ WorkerAt("look") /\ j = worker.job
    /\ \/ job[j].status # "running" /\ Skip /\ Rests
          /\ UNCHANGED <<pool, job, since, amiss>>
       \/ /\ job[j].status = "running" /\ Skip /\ GoesTo("succeed")
          /\ LET p == worker.pool
                 read == worker.seen[p]
             IN  /\ pool' = [pool EXCEPT ![p].next = NextAutoSnapshotTime(
                                read.next, read.schedule)]
                 /\ since' = [since EXCEPT ![p] = now]
                 /\ amiss' = [amiss EXCEPT ![p] = read.schedule # pool[p].schedule]
          /\ UNCHANGED <<job, stop>>
       \/ /\ job[j].status = "running" /\ Fault /\ Rests /\ updateFailure(j)
          /\ UNCHANGED <<pool, since, amiss>>
    /\ UNCHANGED <<now, made>>
\* A job that is no longer running stores nothing; the next occurrence is
\* computed from the time it is and the schedule that was read.
UpdateAutoSnapshotSuccess(j) ==
    /\ WorkerAt("look") /\ j = worker.job
    /\ \/ job[j].status # "running" /\ Skip /\ Rests
          /\ UNCHANGED <<pool, job, since, amiss>>
       \/ /\ job[j].status = "running" /\ Skip /\ GoesTo("succeed")
          /\ LET p == worker.pool
                 read == worker.seen[p]
             IN  /\ pool' = [pool EXCEPT ![p].next = NextAutoSnapshotTime(
                                now, read.schedule)]
                 /\ since' = [since EXCEPT ![p] = now]
                 /\ amiss' = [amiss EXCEPT ![p] = read.schedule # pool[p].schedule]
          /\ UNCHANGED <<job, stop>>
       \/ /\ job[j].status = "running" /\ Fault /\ Rests /\ updateFailure(j)
          /\ UNCHANGED <<pool, since, amiss>>
    /\ UNCHANGED <<now, made>>

updateSuccess(j) ==
    /\ WorkerAt("succeed") /\ j = worker.job
    /\ updateFailure(j) /\ Rests /\ Skip
    /\ UNCHANGED <<now, pool, since, made, amiss>>

\* The process dies; the next one begins to work.
Die ==
    /\ Fault /\ worker' = Idle /\ stop' = "none"
    /\ amiss' = [p \in Pool |-> amiss[p] \/ (WorkerAt("insert") /\ worker.pool = p)]
    /\ UNCHANGED <<now, pool, job, since, made>>

Queue ==
    \/ ListPools
    \/ \E p \in Pool :
         \/ CheckWaiting(p) \/ UpdateAutoSnapshotQueued(p)
         \/ \E j \in Job : enqueueAutoSnapshotJob(p, j)
Run ==
    \/ claimNextPendingJob
    \/ \E j \in Job :
         \/ LoadPool(j) \/ MakeSnapshot(j) \/ UpdateAutoSnapshotSuccess(j)
         \/ updateSuccess(j)
User ==
    \/ \E p \in Pool : UpdatePool(p)
    \/ \E j \in Job : Pause(j) \/ Resume(j) \/ Drop(j)

AutoNext == Tick \/ User \/ Queue \/ Run \/ Die \/ \E j \in Job : markStaleRunningJobs(j)

\* The loop of the worker goes on, the commands and statements it waits for
\* end, and a heartbeat that has stopped is noticed.
Fairness ==
    /\ WF_autoVars(Queue \/ Run)
    /\ \A j \in Job : WF_autoVars(markStaleRunningJobs(j))

AutoSpec == AutoInit /\ [][AutoNext]_autoVars /\ Fairness

-----------------------------------------------------------------------------
(* Properties. *)

Moment == 0..Horizon + Slots * (Week + 1)
Row == [status : {"free", "pending", "running", "paused"}, pool : Pool \cup {Nil},
        due : Moment \cup {Nil}, created : Moment, resumed : BOOLEAN]
Setup == [enabled : BOOLEAN, schedule : Schedules \cup {{}},
          next : Moment \cup {Nil}]

\* Every variable keeps the type of the column, map or local it stands for.
AutoTypeOK ==
    /\ now \in 0..Horizon /\ faults \in 0..Faults
    /\ pool \in [Pool -> Setup] /\ job \in [Job -> Row]
    /\ worker \in [pc : {"sweep", "due", "queue", "insert", "claim", "load",
                          "snapshot", "look", "succeed"},
                    todo : SUBSET Pool, seen : [Pool -> Setup], at : Moment,
                    pool : Pool \cup {Nil}, job : Job \cup {Nil}]
    /\ stop \in {"none", "pause", "drop"}
    /\ since \in [Pool -> Moment] /\ made \in [Pool -> Moment \cup {-1}]
    /\ amiss \in [Pool -> BOOLEAN]

\* What "the next occurrence" means: the least allowed midnight after a time.
First(from, schedule) ==
    CHOOSE t \in Moment : /\ t > from /\ Allowed(t, schedule)
                          /\ \A u \in from + 1..t - 1 : ~Allowed(u, schedule)

\* However the setting of a schedule, the queueing of an occurrence and the end
\* of a snapshot interleave, no day is skipped and none is added: the next
\* occurrence in a pool's row is the first one that its schedule has since it
\* was last set up, queued or snapshotted.  Not so, until one of these is done
\* again, when a job was lost after its occurrence was moved (a failed
\* statement, a crash), or when the row changed after the worker had read it.
NextIsFirst ==
    \A p \in Pool :
        pool[p].enabled /\ ~amiss[p] /\ ~(WorkerAt("insert") /\ worker.pool = p)
        => pool[p].next = First(since[p], pool[p].schedule)

\* The check that no job waits and the insertion of one are apart; still two
\* jobs of a pool are never both waiting or running, but for one that a user
\* has paused and resumed.
OneWaits ==
    \A j, k \in Job :
        /\ j # k /\ job[j].pool = job[k].pool
        /\ {job[j].status, job[k].status} \subseteq {"pending", "running"}
        => job[j].resumed \/ job[k].resumed

\* An occurrence gets at most one job, crashes and failures included.
AtMostOnce ==
    [][\A j \in Job : job[j].status = "free" /\ job'[j].status = "pending"
            => job'[j].due > made[job'[j].pool]]_autoVars

\* Whatever users pause, a pool that is due does not stay so: it is queued, or
\* its schedule is changed or turned off.  Only who keeps resuming and pausing a
\* job just in time holds it up (and here, the bound of jobs).
HeldUp(p) ==
    \/ \E j \in Job : job[j].pool = p /\ job[j].resumed
    \/ \A j \in Job : job[j].status # "free"
DueIsTaken ==
    \A p \in Pool :
        (pool[p].enabled /\ pool[p].next <= now)
        ~> (~pool[p].enabled \/ pool[p].next > now \/ HeldUp(p))

-----------------------------------------------------------------------------
(* Why they hold: the parts of an inductive invariant. *)

Plan == (SUBSET (0..Week - 1)) \ {{}}

\* Nothing is dated in the future; an enabled row has a plan and a next date;
\* a job is some pool's; where the worker stands says what it holds.
Dated ==
    /\ worker.at <= now /\ \A p \in Pool : since[p] <= now /\ made[p] <= now
    /\ \A p \in Pool : pool[p].enabled => pool[p].schedule \in Plan /\ pool[p].next \in Moment
    /\ \A j \in Job : job[j].status # "free" => job[j].pool \in Pool
    /\ worker.pc \in {"queue", "insert"} => worker.pool \in worker.todo
    /\ worker.pc \in {"snapshot", "look"} =>
         worker.pool \in Pool /\ worker.seen[worker.pool].schedule \in Plan
    /\ worker.pc = "load" => worker.pool \in Pool

\* What is still to be queued was read enabled and due, at an occurrence that
\* no job was made for; an enabled row is past the occurrences that have jobs,
\* and past the reading once its occurrence has been moved.
Fresh ==
    /\ worker.pc \in {"due", "queue", "insert"} => \A p \in worker.todo :
         LET read == worker.seen[p]
         IN  read.schedule \in Plan /\ read.next \in made[p] + 1..worker.at
    /\ \A p \in Pool : pool[p].enabled =>
         /\ pool[p].next > made[p]
         /\ WorkerAt("insert") /\ worker.pool = p => pool[p].next > worker.at

\* Between the check that no job waits and the insertion of one, those that
\* have come to wait were resumed.
Clear ==
    worker.pc \in {"queue", "insert"} => \A j \in Job :
        job[j].pool = worker.pool /\ job[j].status \in {"pending", "running"}
        => job[j].resumed

\* Between the two, a row that is not amiss has the first date after the
\* reading, or after it was set up if that was later.
Moved ==
    \A p \in Pool :
        WorkerAt("insert") /\ worker.pool = p /\ pool[p].enabled /\ ~amiss[p]
        => pool[p].next = First(IF worker.at > since[p] THEN worker.at ELSE since[p],
                                pool[p].schedule)

AutoInv ==
    AutoTypeOK /\ Dated /\ Fresh /\ Clear /\ Moved /\ NextIsFirst /\ OneWaits
=============================================================================
