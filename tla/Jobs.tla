-------------------------------- MODULE Jobs --------------------------------
(***************************************************************************)
(* The background job queue of internal/jobs/jobs.go, for cloud_sync jobs. *)
(*                                                                         *)
(* The actors are the worker goroutine started by StartWorker and the      *)
(* goroutines that serve HTTP requests on jobs.  They share the jobs table *)
(* (one SQLite connection: every statement is atomic, a handler's sequence *)
(* of statements is not), the upload-cache files and the in-memory         *)
(* registry of running jobs.  Every statement, file operation and registry *)
(* operation is a step of its own, so a handler's read of a status and its *)
(* later writes interleave with the worker.  A statement or a removal may  *)
(* fail: a handler then answers 500, the worker drops the error.           *)
(*                                                                         *)
(* Not modelled: progress and messages, decode errors of a payload that    *)
(* EnqueueCloudSync itself encoded, and a request whose first read fails,  *)
(* which changes nothing.                                                  *)
(*                                                                         *)
(* A definition named Slip... is a plausible fault of the definition after *)
(* it.  No action uses one: they are substituted, one at a time, to see    *)
(* that a property notices.                                                *)
(***************************************************************************)
EXTENDS Naturals

CONSTANTS Job,         \* ids of the jobs that may be created
          CreatedAt,   \* the second each job is created in (created_at)
          Handler,     \* goroutines serving requests on jobs
          Worker,      \* the worker goroutine
          None,        \* no job
          MaxFaults    \* bound: how many statements and removals may fail, and
                       \* how many times the process may die, taken together

ASSUME WorkerAssumption  == Worker \notin Handler
ASSUME NoneAssumption    == None \notin Job
ASSUME CreatedAssumption == CreatedAt \in [Job -> Nat]
ASSUME FaultAssumption   == MaxFaults \in Nat

Actor == Handler \cup {Worker}

\* "new": not yet inserted; "deleted": the row is gone, ids are never reused.
Status == {"new", "pending", "running", "paused",
           "success", "failed", "cancelled", "deleted"}
Reason == {"none", "pause", "cancel", "delete"}

\* Where the worker stands in runCloudSyncJob while a job is its to finish...
WorkPoint == {"open", "register", "upload", "delivered", "verify", "finish",
              "succeed", "inspect", "fail", "repause", "interrupt",
              "dropCancelled", "cancelled", "dropDeleted", "deleted"}
\* ... where it stands otherwise, and where a request handler stands.
SweepPoint   == {"sweep", "mark", "scrub"}
WorkerPoint  == WorkPoint \cup SweepPoint \cup {"claim", "take", "discard"}
HandlerPoint == SweepPoint \cup
                {"idle", "pauseStop", "pauseRow", "resumeStat", "resumeRow",
                 "cancelStop", "cancelScrub", "cancelRow",
                 "deleteStop", "deleteScrub", "deleteRow"}

VARIABLES
    status,    \* the jobs table: the status column of each row
    stale,     \* running rows not updated for runningJobStaleAfter
    cached,    \* jobs whose local cache file exists
    remote,    \* jobs whose file is complete in the cloud
    cancels,   \* keys of runningJobCancels
    reasons,   \* runningJobStopReasons
    ctxDone,   \* the context of the upload in progress has been cancelled
    pc,        \* where each actor stands
    job,       \* the job each actor is working on
    victims,   \* what is left of each actor's list of stale running jobs
    faults,    \* how many faults there have been
    litter,    \* history: jobs whose cache file could not be removed
    adrift,    \* history: jobs that the worker has let go with their row running
    refused    \* history: jobs whose cancel or delete could not be recorded

disk == <<status, stale, cached, remote>>
registry == <<cancels, reasons, ctxDone>>
history == <<faults, litter, adrift, refused>>
vars == <<status, stale, cached, remote, cancels, reasons, ctxDone,
          pc, job, victims, history>>

Init ==
    /\ status = [j \in Job |-> "new"]
    /\ stale = {} /\ cached = {} /\ remote = {}
    /\ cancels = {} /\ reasons = [j \in Job |-> "none"] /\ ctxDone = FALSE
    /\ pc = [a \in Actor |-> IF a = Worker THEN "sweep" ELSE "idle"]
    /\ job = [a \in Actor |-> None]
    /\ victims = [a \in Actor |-> {}]
    /\ faults = 0 /\ litter = {} /\ adrift = {} /\ refused = {}

-----------------------------------------------------------------------------
(* Statements and helpers shared by the handlers and the worker.           *)

\* UPDATE jobs SET status = to, updated_at = now WHERE id = j AND status IN from
UpdateRow(j, from, to) ==
    IF status[j] \in from
      THEN /\ status' = [status EXCEPT ![j] = to]
           /\ stale' = stale \ {j}
      ELSE UNCHANGED <<status, stale>>

\* Slips: a WHERE clause without its status condition, or with one too many.
SlipPaused(j)  == UpdateRow(j, Status \ {"new", "deleted"}, "paused")
SlipSuccess(j) == UpdateRow(j, {"running", "paused"}, "success")

updatePaused(j)  == UpdateRow(j, {"pending", "running"}, "paused")
updateResume(j)  == UpdateRow(j, {"paused"}, "pending")
updateFailure(j) == UpdateRow(j, {"running"}, "failed")
updateSuccess(j) == UpdateRow(j, {"running"}, "success")
\* No condition on the status: any row that still exists is overwritten.
updateCancelled(j) == UpdateRow(j, Status \ {"new", "deleted"}, "cancelled")
deleteJob(j)       == UpdateRow(j, Status \ {"new"}, "deleted")

Goto(a, point) == pc' = [pc EXCEPT ![a] = point]

\* A statement or a removal fails, or the process dies.
Fault == faults < MaxFaults /\ faults' = faults + 1

\* os.Remove of the cache file; a missing file is not an error, and any other
\* error is only logged (cleanupCloudSyncLocalPayload).
Scrub(a) ==
    \/ cached' = cached \ {job[a]} /\ UNCHANGED <<faults, litter>>
    \/ /\ job[a] \in cached /\ Fault
       /\ litter' = litter \cup {job[a]}
       /\ UNCHANGED cached

\* The worker leaves a row running when the statement that should end it fails.
Abandon(j) == adrift' = IF status[j] = "running" THEN adrift \cup {j} ELSE adrift

\* The reason is recorded under runningJobsMu and the context cancelled just
\* after it; nothing the worker does depends on the order of the two.
requestRunningJobStop(j, reason) ==
    IF j \in cancels
      THEN /\ reasons' = [reasons EXCEPT ![j] = reason]
           /\ ctxDone' = TRUE
           /\ UNCHANGED cancels
      ELSE UNCHANGED registry

\* A step of actor a that only writes a row.  When the statement fails, a handler
\* answers 500, and the worker drops the error and goes on.
RowWrites(a, from, Update(_), to) ==
    /\ pc[a] = from
    /\ Update(job[a])
    /\ Goto(a, to)
    /\ UNCHANGED <<cached, remote, registry, job, victims, history>>
RowFails(a, from, to) ==
    /\ pc[a] = from
    /\ Fault
    /\ IF a = Worker
         THEN Goto(a, to) /\ Abandon(job[a]) /\ UNCHANGED refused
         ELSE /\ Goto(a, "idle") /\ UNCHANGED adrift
              /\ refused' = IF from \in {"cancelRow", "deleteRow"}
                              THEN refused \cup {job[a]} ELSE refused
    /\ UNCHANGED <<disk, registry, job, victims, litter>>
RowStep(a, from, Update(_), to) == RowWrites(a, from, Update, to) \/ RowFails(a, from, to)

\* A step that only removes the cache file.
ScrubStep(a, from, to) ==
    /\ pc[a] = from
    /\ Scrub(a)
    /\ Goto(a, to)
    /\ UNCHANGED <<status, stale, remote, registry, job, victims, adrift, refused>>

StopStep(a, from, reason, ifRunning, ifNot) ==
    /\ pc[a] = from
    /\ requestRunningJobStop(job[a], reason)
    /\ Goto(a, IF job[a] \in cancels THEN ifRunning ELSE ifNot)
    /\ UNCHANGED <<disk, job, victims, history>>

-----------------------------------------------------------------------------
(* EnqueueCloudSync: the upload handlers insert a row for a cached file.   *)

EnqueueCloudSync(j) ==
    /\ status[j] = "new"
    /\ \A k \in Job : CreatedAt[k] < CreatedAt[j] => status[k] # "new"
    /\ status' = [status EXCEPT ![j] = "pending"]
    /\ cached' = cached \cup {j}
    /\ UNCHANGED <<stale, remote, registry, pc, job, victims, history>>

-----------------------------------------------------------------------------
(* markStaleRunningJobs: run by the worker at the top of its loop, and by  *)
(* every handler that answers with Get, List or ListJobs.                  *)

AfterSweep(a) == IF a = Worker THEN "claim" ELSE "idle"

\* Slip: the comparison with the cutoff is turned round.
SlipSelect(a) ==
    /\ pc[a] = "sweep"
    /\ victims' = [victims EXCEPT ![a] = {j \in Job : status[j] = "running"} \ stale]
    /\ Goto(a, "mark")
    /\ UNCHANGED <<disk, registry, job, history>>

SweepSelect(a) ==
    /\ pc[a] = "sweep"
    /\ \/ victims' = [victims EXCEPT ![a] = stale] /\ UNCHANGED faults
       \/ victims' = [victims EXCEPT ![a] = {}] /\ Fault
    /\ Goto(a, "mark")
    /\ UNCHANGED <<disk, registry, job, litter, adrift, refused>>

\* The UPDATE checks that the row is still running, not that it is still stale.
\* When it fails the next row is taken.
SweepMark(a) ==
    /\ pc[a] = "mark"
    /\ \E j \in victims[a] :
          /\ victims' = [victims EXCEPT ![a] = @ \ {j}]
          /\ \/ /\ updateFailure(j) /\ UNCHANGED faults
                /\ IF status[j] = "running"
                     THEN Goto(a, "scrub") /\ job' = [job EXCEPT ![a] = j]
                     ELSE UNCHANGED <<pc, job>>
             \/ Fault /\ UNCHANGED <<status, stale, pc, job>>
    /\ UNCHANGED <<cached, remote, registry, litter, adrift, refused>>

SweepScrub(a) == ScrubStep(a, "scrub", "mark")

SweepDone(a) ==
    /\ pc[a] = "mark"
    /\ victims[a] = {}
    /\ Goto(a, AfterSweep(a))
    /\ job' = [job EXCEPT ![a] = None]
    /\ UNCHANGED <<disk, registry, victims, history>>

Sweep(a) == SweepSelect(a) \/ SweepMark(a) \/ SweepScrub(a) \/ SweepDone(a)

-----------------------------------------------------------------------------
(* Request handlers.  A request begins with the read of the job's status;  *)
(* what follows acts on that read.                                         *)

Begin(h, j, point) ==
    /\ pc[h] = "idle"
    /\ Goto(h, point)
    /\ job' = [job EXCEPT ![h] = j]
    /\ UNCHANGED <<disk, registry, victims, history>>

HandlePause(h, j) ==
    \/ status[j] = "pending" /\ Begin(h, j, "pauseRow")
    \/ status[j] = "running" /\ Begin(h, j, "pauseStop")
    \/ status[j] = "paused"  /\ Begin(h, j, "sweep")
PauseStop(h) == StopStep(h, "pauseStop", "pause", "pauseRow", "pauseRow")
PauseRow(h)  == RowStep(h, "pauseRow", updatePaused, "sweep")

HandleResume(h, j) == status[j] = "paused" /\ Begin(h, j, "resumeStat")
\* ensureJobLocalCacheAvailable: without the cache file the answer is 409.
ResumeStat(h) ==
    /\ pc[h] = "resumeStat"
    /\ Goto(h, IF job[h] \in cached THEN "resumeRow" ELSE "idle")
    /\ UNCHANGED <<disk, registry, job, victims, history>>
ResumeRow(h) == RowStep(h, "resumeRow", updateResume, "sweep")

HandleCancel(h, j) ==
    \/ status[j] \in {"pending", "paused"} /\ Begin(h, j, "cancelScrub")
    \/ status[j] = "running"   /\ Begin(h, j, "cancelStop")
    \/ status[j] = "cancelled" /\ Begin(h, j, "sweep")
CancelStop(h)  == StopStep(h, "cancelStop", "cancel", "cancelScrub", "cancelScrub")
CancelScrub(h) == ScrubStep(h, "cancelScrub", "cancelRow")
CancelRow(h)   == RowStep(h, "cancelRow", updateCancelled, "sweep")

\* A delete that reaches the running upload leaves the cache to the worker.
HandleDelete(h, j) ==
    \/ status[j] = "running" /\ Begin(h, j, "deleteStop")
    \/ status[j] \notin {"new", "running", "deleted"} /\ Begin(h, j, "deleteScrub")
DeleteStop(h)  == StopStep(h, "deleteStop", "delete", "deleteRow", "deleteScrub")
DeleteScrub(h) == ScrubStep(h, "deleteScrub", "deleteRow")
DeleteRow(h)   == RowStep(h, "deleteRow", deleteJob, "idle")

\* HandleGet, HandleList: a sweep and a read.
HandleGet(h) == Begin(h, None, "sweep")

HandlerStep(h) ==
    \/ PauseStop(h) \/ PauseRow(h) \/ ResumeStat(h) \/ ResumeRow(h)
    \/ CancelStop(h) \/ CancelScrub(h) \/ CancelRow(h)
    \/ DeleteStop(h) \/ DeleteScrub(h) \/ DeleteRow(h)
    \/ Sweep(h)

Request(h) ==
    \/ \E j \in Job : \/ HandlePause(h, j) \/ HandleResume(h, j)
                      \/ HandleCancel(h, j) \/ HandleDelete(h, j)
    \/ HandleGet(h)

-----------------------------------------------------------------------------
(* The worker: claimNextPendingJob and runCloudSyncJob.                    *)

ClaimSelect ==
    /\ pc[Worker] = "claim"
    /\ \E j \in Job :
          /\ status[j] = "pending"
          /\ \A k \in Job : status[k] = "pending" => CreatedAt[j] <= CreatedAt[k]
          /\ job' = [job EXCEPT ![Worker] = j]
    /\ Goto(Worker, "take")
    /\ UNCHANGED <<disk, registry, victims, history>>

\* No job is pending, or the query fails.
ClaimNothing ==
    /\ pc[Worker] = "claim"
    /\ \/ (\A j \in Job : status[j] # "pending") /\ UNCHANGED faults
       \/ Fault
    /\ Goto(Worker, "sweep")
    /\ UNCHANGED <<disk, registry, job, victims, litter, adrift, refused>>

\* With a claim the worker answers for the row again.
ClaimTake ==
    /\ pc[Worker] = "take"
    /\ \/ /\ UpdateRow(job[Worker], {"pending"}, "running")
          /\ IF status[job[Worker]] = "pending"
               THEN /\ Goto(Worker, "open")
                    /\ adrift' = adrift \ {job[Worker]} /\ refused' = refused \ {job[Worker]}
               ELSE Goto(Worker, "sweep") /\ UNCHANGED <<adrift, refused>>
          /\ UNCHANGED faults
       \/ Fault /\ Goto(Worker, "sweep") /\ UNCHANGED <<status, stale, adrift, refused>>
    /\ UNCHANGED <<cached, remote, registry, job, victims, litter>>

\* The storage record may have been removed, the cache file may be missing.
OpenPayload ==
    /\ pc[Worker] = "open"
    /\ \/ job[Worker] \in cached /\ Goto(Worker, "register")
       \/ Goto(Worker, "fail")
    /\ UNCHANGED <<disk, registry, job, victims, history>>

\* updateProgress (whatever the status), registerRunningJob, startJobHeartbeat.
StartUpload ==
    /\ pc[Worker] = "register"
    /\ \/ stale' = stale \ {job[Worker]} /\ UNCHANGED faults
       \/ Fault /\ UNCHANGED stale
    /\ cancels' = cancels \cup {job[Worker]}
    /\ reasons' = [reasons EXCEPT ![job[Worker]] = "none"]
    /\ ctxDone' = FALSE
    /\ Goto(Worker, "upload")
    /\ UNCHANGED <<status, cached, remote, job, victims, litter, adrift, refused>>

\* Google Drive stores the file, unless one of that name is there already.
Deliver ==
    /\ pc[Worker] = "upload"
    /\ job[Worker] \notin remote
    /\ remote' = remote \cup {job[Worker]}
    /\ Goto(Worker, "delivered")
    /\ UNCHANGED <<status, stale, cached, registry, job, victims, history>>

\* UploadGoogleDriveReader returns; the heartbeat stops and unregister hands
\* back the stop reason.  A cancelled context surfaces as context.Canceled or,
\* while the body is being written, as the pipe's own error; it does not undo
\* a delivery.
AfterStop(reason) ==
    CASE reason = "pause"  -> "repause"
      [] reason = "cancel" -> "dropCancelled"
      [] reason = "delete" -> "dropDeleted"
      [] OTHER             -> "interrupt"

\* Slips: the error of the upload is dropped; the upload is not unregistered.
SlipEndOk ==
    /\ pc[Worker] \in {"upload", "delivered"}
    /\ Goto(Worker, "verify")
    /\ cancels' = cancels \ {job[Worker]}
    /\ reasons' = [reasons EXCEPT ![job[Worker]] = "none"]
    /\ ctxDone' = FALSE
    /\ UNCHANGED <<disk, job, victims, history>>
EndUpload ==
    /\ pc[Worker] \in {"upload", "delivered"}
    /\ \/ pc[Worker] = "delivered" /\ Goto(Worker, "verify")
       \/ Goto(Worker, "inspect")
       \/ ctxDone /\ Goto(Worker, AfterStop(reasons[job[Worker]]))
    /\ cancels' = cancels \ {job[Worker]}
    /\ reasons' = [reasons EXCEPT ![job[Worker]] = "none"]
    /\ ctxDone' = FALSE
    /\ UNCHANGED <<disk, job, victims, history>>

\* After an upload that succeeded: only a job still running becomes a success.
\* currentJobStatus is "" when the query fails, and the row is left as it is.
Verify ==
    /\ pc[Worker] = "verify"
    /\ \/ /\ Goto(Worker, CASE status[job[Worker]] = "running"   -> "finish"
                            [] status[job[Worker]] = "cancelled" -> "discard"
                            [] OTHER -> "sweep")
          /\ UNCHANGED <<faults, adrift>>
       \/ Fault /\ Goto(Worker, "sweep") /\ Abandon(job[Worker])
    /\ UNCHANGED <<disk, registry, job, victims, litter, refused>>
\* Slip: the cache file of a success is kept.
SlipFinish ==
    /\ pc[Worker] = "finish"
    /\ Goto(Worker, "succeed")
    /\ UNCHANGED <<disk, registry, job, victims, history>>
Finish  == ScrubStep(Worker, "finish", "succeed")
Succeed == RowStep(Worker, "succeed", updateSuccess, "sweep")

\* Slip: any status but cancelled is taken for a pause.
SlipInspect ==
    /\ pc[Worker] = "inspect"
    /\ Goto(Worker, IF status[job[Worker]] = "cancelled" THEN "discard" ELSE "sweep")
    /\ UNCHANGED <<disk, registry, job, victims, history>>

\* After an upload that failed: the status read here decides what follows, and a
\* query that fails counts as no pause and no cancel.
Inspect ==
    /\ pc[Worker] = "inspect"
    /\ \/ /\ Goto(Worker, CASE status[job[Worker]] = "paused"    -> "sweep"
                            [] status[job[Worker]] = "cancelled" -> "discard"
                            [] OTHER -> "fail")
          /\ UNCHANGED faults
       \/ Fault /\ Goto(Worker, "fail")
    /\ UNCHANGED <<disk, registry, job, victims, litter, adrift, refused>>
Fail    == RowStep(Worker, "fail", updateFailure, "discard")
Discard == ScrubStep(Worker, "discard", "sweep")

\* After an upload that was stopped: what the stop reason asks for.
\* "interrupt" stands for the default branch, a stop without a reason.
updateStopped(j) == IF pc[Worker] = "repause" THEN updatePaused(j) ELSE updateFailure(j)
Stopped == /\ pc[Worker] \in {"repause", "interrupt"}
           /\ RowStep(Worker, pc[Worker], updateStopped, "sweep")
DropCancelled == ScrubStep(Worker, "dropCancelled", "cancelled")
Cancelled     == RowStep(Worker, "cancelled", updateCancelled, "sweep")
DropDeleted   == ScrubStep(Worker, "dropDeleted", "deleted")
Deleted       == RowStep(Worker, "deleted", deleteJob, "sweep")

WorkerStep ==
    \/ Sweep(Worker) \/ ClaimSelect \/ ClaimNothing \/ ClaimTake
    \/ OpenPayload \/ StartUpload \/ Deliver \/ EndUpload
    \/ Verify \/ Finish \/ Succeed \/ Inspect \/ Fail \/ Discard
    \/ Stopped \/ DropCancelled \/ Cancelled
    \/ DropDeleted \/ Deleted

-----------------------------------------------------------------------------
(* Time and crashes.                                                       *)

Owned(j) == job[Worker] = j /\ pc[Worker] \in WorkPoint

\* Five minutes pass without an update of the row.  That may happen to a job that
\* is being uploaded as well: startJobHeartbeat only logs the errors of its
\* beats, and nothing makes its ticker be on time.
Age(j) ==
    /\ status[j] = "running" /\ j \notin stale
    /\ stale' = stale \cup {j}
    /\ UNCHANGED <<status, cached, remote, registry, pc, job, victims, history>>

\* updateHeartbeat, every 15 seconds during the upload, comes after all.
Beat(j) ==
    /\ j \in stale /\ job[Worker] = j /\ pc[Worker] \in {"upload", "delivered"}
    /\ stale' = stale \ {j}
    /\ UNCHANGED <<status, cached, remote, registry, pc, job, victims, history>>

\* The process dies and starts again: the table and the files survive, the
\* registry and every goroutine do not.
Crash ==
    /\ Fault
    /\ litter' = litter \cup ({job[a] : a \in {b \in Actor : pc[b] \in {"scrub", "discard"}}}
                              \cap cached)
    /\ adrift' = adrift \cup {j \in Job : status[j] = "running"}
    /\ UNCHANGED refused
    /\ cancels' = {} /\ reasons' = [j \in Job |-> "none"] /\ ctxDone' = FALSE
    /\ pc' = [a \in Actor |-> IF a = Worker THEN "sweep" ELSE "idle"]
    /\ job' = [a \in Actor |-> None]
    /\ victims' = [a \in Actor |-> {}]
    /\ UNCHANGED disk

Next ==
    \/ \E j \in Job : EnqueueCloudSync(j) \/ Age(j) \/ Beat(j)
    \/ \E h \in Handler : Request(h) \/ HandlerStep(h)
    \/ WorkerStep
    \/ Crash

Spec == Init /\ [][Next]_vars

\* The goroutines run and time passes; nobody has to send requests, and nothing has
\* to fail.  A row that the worker has may or may not grow stale.  That an upload
\* ends is an assumption on the network: the code sets no deadline on it.
FairSpec ==
    /\ Spec
    /\ WF_vars(WorkerStep)
    /\ \A h \in Handler : WF_vars(HandlerStep(h))
    /\ \A j \in Job : WF_vars(~Owned(j) /\ Age(j))

-----------------------------------------------------------------------------
(* Properties.                                                             *)

TypeOK ==
    /\ status \in [Job -> Status]
    /\ stale \subseteq {j \in Job : status[j] = "running"}
    /\ cached \subseteq Job /\ remote \subseteq Job
    /\ cancels \subseteq Job
    /\ reasons \in [Job -> Reason]
    /\ ctxDone \in BOOLEAN
    /\ pc \in [Actor -> WorkerPoint \cup HandlerPoint]
    /\ job \in [Actor -> Job \cup {None}]
    /\ victims \in [Actor -> SUBSET Job]
    /\ faults \in 0..MaxFaults
    /\ litter \subseteq Job /\ adrift \subseteq Job /\ refused \subseteq Job

\* A job recorded as a success has its file in the cloud, however pauses,
\* cancels, deletes, sweeps, errors and crashes fell around runCloudSyncJob.
SuccessIsDelivered == \A j \in Job : status[j] = "success" => j \in remote

\* A finished job leaves its cache file behind only when os.Remove of that very
\* file failed, which cleanupCloudSyncLocalPayload merely logs.  After a success or
\* a cancellation the file has gone before the row is written; after a failure,
\* where the row is written first, by the worker or by a sweep that may fall into
\* the upload, the actor that wrote it is about to remove the file, unless the
\* process died just then.
FinishedHasNoCache ==
    \A j \in cached \ litter :
        /\ status[j] \notin {"success", "cancelled"}
        /\ status[j] = "failed" =>
             \E a \in Actor : job[a] = j /\ pc[a] \in {"scrub", "discard"}

\* A running row that the worker does not work on is one that it let go since it
\* claimed it: the process died, a statement of runCloudSyncJob failed and its
\* error was dropped, or currentJobStatus could not be read.  No other path leaves
\* a row running, whatever the requests and the sweeps do to it meanwhile.
RunningIsOwned ==
    \A j \in Job : status[j] = "running" => Owned(j) \/ j \in adrift

\* A cancelled context always comes with the reason it was cancelled for: the
\* branch "Sync job was interrupted", which leaks the cache, is never taken.
StopHasReason == pc[Worker] # "interrupt"

\* The request to cancel, or to delete, is on record or about to be, or the
\* statement that records it failed.
CancelAsked(j) ==
    \/ status[j] \in {"cancelled", "deleted"} \/ j \in refused
    \/ \E h \in Handler : job[h] = j /\ pc[h] \in {"cancelScrub", "cancelRow"}
DeleteAsked(j) ==
    \/ status[j] = "deleted" \/ j \in refused
    \/ \E h \in Handler : job[h] = j /\ pc[h] = "deleteRow"

\* The worker drops a job for a cancel or a delete only when the row says so,
\* or the handler that asked is still on its way to writing it, or failed to.
DropIsAsked ==
    /\ pc[Worker] \in {"dropCancelled", "cancelled"} => CancelAsked(job[Worker])
    /\ pc[Worker] \in {"dropDeleted", "deleted"} => DeleteAsked(job[Worker])

\* A job that has ended is never taken up again, by a late resume, a worker's
\* late updatePaused or a claim that raced with it: what may still happen to it
\* is a cancellation (which asks for no particular status) or its deletion.
Ended == {"success", "failed", "cancelled"}
EndedStaysEnded ==
    [][\A j \in Job :
         /\ status[j] \in Ended => status'[j] \in {status[j], "cancelled", "deleted"}
         /\ status[j] = "deleted" => status'[j] = "deleted"]_vars

\* Once the clients stop sending requests, the queue drains: every job ends or
\* is left paused, including those that a crash, a failing statement or a late
\* heartbeat left for the sweep.
QueueDrains ==
    <>[](\A h \in Handler : pc[h] = "idle")
      => <>[](\A j \in Job : status[j] \notin {"pending", "running"})

\* Seen through the table and the cloud alone, the queue is JobLifecycle.
Lifecycle == INSTANCE JobLifecycle WITH state <- status, delivered <- remote
ImplementsLifecycle == Lifecycle!LSpec

-----------------------------------------------------------------------------
(* The inductive invariant behind the properties above: what holds between *)
(* the table, the files and the registry while handlers and worker are     *)
(* part-way through.                                                       *)

\* Every actor stands at one of its own points, and has a job in hand at the
\* points that use one.
InPlace ==
    /\ pc[Worker] \in WorkerPoint
    /\ \A h \in Handler : pc[h] \in HandlerPoint
    /\ \A a \in Actor :
         pc[a] \notin {"sweep", "mark", "idle", "claim"} => job[a] \in Job

\* Nothing is known of a job before its row is inserted.
NewIsUntouched ==
    \A j \in Job : status[j] = "new" =>
        j \notin cached \cup remote /\ \A a \in Actor : job[a] # j

\* The registry holds the upload in progress and nothing else, and a cancelled
\* context goes with a recorded reason.
RegistryIsExact ==
    /\ cancels = IF pc[Worker] \in {"upload", "delivered"} THEN {job[Worker]} ELSE {}
    /\ \A j \in Job : reasons[j] # "none" => j \in cancels
    /\ ctxDone => \E j \in cancels : reasons[j] # "none"

ReasonIsAsked ==
    \A j \in Job : /\ reasons[j] = "cancel" => CancelAsked(j)
                   /\ reasons[j] = "delete" => DeleteAsked(j)

\* The file is delivered, or removed, before the row says so.
DeliveredFirst == pc[Worker] \in {"delivered", "verify", "finish", "succeed"}
                    => job[Worker] \in remote
ScrubbedFirst == \A a \in Actor : pc[a] \in {"succeed", "cancelled", "cancelRow"}
                    => job[a] \notin cached \ litter

IInv ==
    /\ TypeOK /\ InPlace /\ NewIsUntouched
    /\ RegistryIsExact /\ StopHasReason
    /\ ReasonIsAsked /\ DropIsAsked
    /\ DeliveredFirst /\ SuccessIsDelivered
    /\ ScrubbedFirst /\ FinishedHasNoCache
    /\ RunningIsOwned
=============================================================================
