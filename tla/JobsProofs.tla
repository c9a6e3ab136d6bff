----------------------------- MODULE JobsProofs -----------------------------
(***************************************************************************)
(* Theorems about Jobs, for any set of jobs, any number of handlers and    *)
(* any number of faults.  IInv of Jobs is shown inductive, one lemma per  *)
(* group of actions; the safety properties and the refinement of           *)
(* JobLifecycle follow from it.                                            *)
(***************************************************************************)
EXTENDS Jobs, TLAPS

USE DEF Actor, WorkerPoint, HandlerPoint, WorkPoint, SweepPoint, Status, Reason,
        disk, registry, history, Goto, Fault, Abandon

LEMMA InitIInv == Init => IInv
<1> SUFFICES ASSUME Init PROVE IInv
  OBVIOUS
<1>1. TypeOK
  <2>1. status \in [Job -> Status]
    BY DEF Init
  <2>2. pc \in [Actor -> WorkerPoint \cup HandlerPoint]
    BY DEF Init
  <2>3. reasons \in [Job -> Reason] /\ job \in [Actor -> Job \cup {None}]
    BY DEF Init
  <2>4. victims \in [Actor -> SUBSET Job]
    BY DEF Init
  <2>5. /\ faults \in 0..MaxFaults /\ litter \subseteq Job
        /\ adrift \subseteq Job /\ refused \subseteq Job
    BY FaultAssumption DEF Init
  <2> QED  BY <2>1, <2>2, <2>3, <2>4, <2>5 DEF Init, TypeOK
<1>2. InPlace
  BY WorkerAssumption DEF Init, InPlace
<1>3. NewIsUntouched
  BY NoneAssumption DEF Init, NewIsUntouched
<1>4. RegistryIsExact /\ ReasonIsAsked
  BY DEF Init, RegistryIsExact, ReasonIsAsked
<1>5. StopHasReason /\ DropIsAsked /\ DeliveredFirst /\ ScrubbedFirst
  BY DEF Init, StopHasReason, DropIsAsked, DeliveredFirst, ScrubbedFirst
<1>6. SuccessIsDelivered /\ FinishedHasNoCache /\ RunningIsOwned
  BY DEF Init, SuccessIsDelivered, FinishedHasNoCache, RunningIsOwned
<1> QED  BY <1>1, <1>2, <1>3, <1>4, <1>5, <1>6 DEF IInv

-----------------------------------------------------------------------------
(* Every action preserves the invariant.                                   *)

USE DEF IInv, TypeOK, InPlace, NewIsUntouched, RegistryIsExact, StopHasReason,
        ReasonIsAsked, DropIsAsked, CancelAsked, DeleteAsked, DeliveredFirst,
        SuccessIsDelivered, ScrubbedFirst, FinishedHasNoCache,
        RunningIsOwned, Owned

\* What cleanupCloudSyncLocalPayload leaves is in litter.
LEMMA ScrubLeavesLitter ==
    ASSUME IInv, NEW a \in Actor, job[a] \in Job, Scrub(a)
    PROVE  /\ cached' \subseteq cached /\ litter' \subseteq Job /\ litter \subseteq litter'
           /\ faults' \in 0..MaxFaults
           /\ cached' \ litter' = (cached \ litter) \ {job[a]}
BY FaultAssumption DEF Scrub

LEMMA ScrubIInv ==
    ASSUME IInv, NEW a \in Actor, NEW from, NEW to, ScrubStep(a, from, to),
           \/ from = "scrub" /\ to = "mark"
           \/ /\ a # Worker
              /\ \/ from = "cancelScrub" /\ to = "cancelRow"
                 \/ from = "deleteScrub" /\ to = "deleteRow"
           \/ /\ a = Worker
              /\ \/ from = "finish" /\ to = "succeed"
                 \/ from = "discard" /\ to = "sweep"
                 \/ from = "dropCancelled" /\ to = "cancelled"
                 \/ from = "dropDeleted" /\ to = "deleted"
    PROVE  IInv'
<1> USE WorkerAssumption, NoneAssumption DEF ScrubStep
<1>1. job[a] \in Job
  OBVIOUS
<1>2. /\ cached' \subseteq cached /\ litter' \subseteq Job /\ litter \subseteq litter'
      /\ faults' \in 0..MaxFaults
      /\ cached' \ litter' = (cached \ litter) \ {job[a]}
  BY <1>1, ScrubLeavesLitter
<1>3. pc' \in [Actor -> WorkerPoint \cup HandlerPoint] /\ InPlace'
  OBVIOUS
<1>4. TypeOK'
  BY <1>2, <1>3
<1>5. NewIsUntouched'
  BY <1>2
<1>6. RegistryIsExact' /\ StopHasReason'
  OBVIOUS
<1>7. ReasonIsAsked' /\ DropIsAsked'
  OBVIOUS
<1>8. DeliveredFirst' /\ SuccessIsDelivered'
  OBVIOUS
<1>9. ScrubbedFirst'
  BY <1>2
<1>10. FinishedHasNoCache'
  BY <1>2
<1>11. RunningIsOwned'
  OBVIOUS
<1> QED  BY <1>3, <1>4, <1>5, <1>6, <1>7, <1>8, <1>9, <1>10, <1>11

LEMMA RowFailsIInv ==
    ASSUME IInv, NEW a \in Actor, NEW from, NEW to, RowFails(a, from, to),
           \/ a # Worker /\ from \in {"pauseRow", "resumeRow", "cancelRow", "deleteRow"}
           \/ /\ a = Worker
              /\ \/ from = "fail" /\ to = "discard"
                 \/ /\ from \in {"succeed", "repause", "interrupt", "cancelled", "deleted"}
                    /\ to = "sweep"
    PROVE  IInv'
<1> USE WorkerAssumption, NoneAssumption DEF RowFails
<1>1. pc' \in [Actor -> WorkerPoint \cup HandlerPoint] /\ InPlace'
  OBVIOUS
<1>2. /\ faults' \in 0..MaxFaults /\ adrift' \subseteq Job /\ refused' \subseteq Job
      /\ adrift \subseteq adrift' /\ refused \subseteq refused'
  BY FaultAssumption
<1>3. TypeOK'
  BY <1>1, <1>2
<1>4. NewIsUntouched'
  OBVIOUS
<1>5. RegistryIsExact' /\ StopHasReason'
  OBVIOUS
<1>6. ReasonIsAsked' /\ DropIsAsked'
  OBVIOUS
<1>7. DeliveredFirst' /\ SuccessIsDelivered'
  OBVIOUS
<1>8. ScrubbedFirst' /\ FinishedHasNoCache'
  OBVIOUS
<1>9. RunningIsOwned'
  OBVIOUS
<1> QED  BY <1>1, <1>3, <1>4, <1>5, <1>6, <1>7, <1>8, <1>9

LEMMA SweepIInv ==
    ASSUME IInv, NEW a \in Actor, Sweep(a)
    PROVE  IInv'
<1> USE WorkerAssumption, NoneAssumption, FaultAssumption
<1>1. CASE SweepSelect(a)
  <2> USE <1>1 DEF SweepSelect
  <2>1. faults' \in 0..MaxFaults /\ victims' \in [Actor -> SUBSET Job]
    OBVIOUS
  <2>2. TypeOK' /\ InPlace'
    BY <2>1
  <2>3. NewIsUntouched' /\ RegistryIsExact' /\ StopHasReason'
    OBVIOUS
  <2>4. ReasonIsAsked' /\ DropIsAsked' /\ DeliveredFirst' /\ SuccessIsDelivered'
    OBVIOUS
  <2>5. ScrubbedFirst' /\ FinishedHasNoCache' /\ RunningIsOwned'
    OBVIOUS
  <2> QED  BY <2>2, <2>3, <2>4, <2>5
<1>2. CASE SweepMark(a)
  <2> USE <1>2 DEF SweepMark, updateFailure, UpdateRow
  <2>1. TypeOK' /\ InPlace'
    <3>1. reasons' \in [Job -> Reason]
      OBVIOUS
    <3>2. pc' \in [Actor -> WorkerPoint \cup HandlerPoint]
      OBVIOUS
    <3>3. job' \in [Actor -> Job \cup {None}] /\ victims' \in [Actor -> SUBSET Job]
      OBVIOUS
    <3>4. /\ faults' \in 0..MaxFaults /\ litter' \subseteq Job
          /\ adrift' \subseteq Job /\ refused' \subseteq Job
      OBVIOUS
    <3>5. InPlace'
      OBVIOUS
    <3>6. cancels' \subseteq Job
      OBVIOUS
    <3>7. stale' \subseteq {j \in Job : status'[j] = "running"}
      OBVIOUS
    <3>8. /\ status' \in [Job -> Status] /\ ctxDone' \in BOOLEAN
          /\ cached' \subseteq Job /\ remote' \subseteq Job
      OBVIOUS
    <3> QED  BY ONLY <3>1, <3>2, <3>3, <3>4, <3>5, <3>6, <3>7, <3>8
  <2>2. NewIsUntouched'
    OBVIOUS
  <2>3. RegistryIsExact' /\ StopHasReason'
    <3>1. pc'[Worker] \in {"upload", "delivered"} <=> pc[Worker] \in {"upload", "delivered"}
      OBVIOUS
    <3>2. pc[Worker] \in {"upload", "delivered"} => job'[Worker] = job[Worker]
      OBVIOUS
    <3>3. UNCHANGED <<cancels, reasons, ctxDone>>
      OBVIOUS
    <3>4. StopHasReason'
      OBVIOUS
    <3>5. cancels' = IF pc'[Worker] \in {"upload", "delivered"} THEN {job'[Worker]} ELSE {}
      BY ONLY <3>1, <3>2, <3>3, RegistryIsExact
    <3> QED  BY ONLY <3>3, <3>4, <3>5, RegistryIsExact
  <2>4. ReasonIsAsked' /\ DropIsAsked'
    OBVIOUS
  <2>5. DeliveredFirst' /\ SuccessIsDelivered'
    OBVIOUS
  <2>6. ScrubbedFirst' /\ FinishedHasNoCache'
    OBVIOUS
  <2>7. RunningIsOwned'
    OBVIOUS
  <2> QED  BY <2>1, <2>2, <2>3, <2>4, <2>5, <2>6, <2>7
<1>3. CASE SweepScrub(a)
  <2> HIDE DEF IInv
  <2> QED  BY <1>3, ScrubIInv DEF SweepScrub
<1>4. CASE SweepDone(a)
  <2> USE <1>4 DEF SweepDone, AfterSweep
  <2>1. TypeOK' /\ InPlace'
    OBVIOUS
  <2>2. NewIsUntouched' /\ StopHasReason'
    OBVIOUS
  <2>3. RegistryIsExact'
    <3>1. /\ pc[a] = "mark" /\ pc'[a] \notin {"upload", "delivered"}
          /\ a # Worker => pc'[Worker] = pc[Worker] /\ job'[Worker] = job[Worker]
          /\ UNCHANGED <<cancels, reasons, ctxDone>>
      OBVIOUS
    <3> QED  BY ONLY <3>1, RegistryIsExact
  <2>4. ReasonIsAsked' /\ DropIsAsked' /\ DeliveredFirst' /\ SuccessIsDelivered'
    OBVIOUS
  <2>5. ScrubbedFirst' /\ FinishedHasNoCache' /\ RunningIsOwned'
    OBVIOUS
  <2> QED  BY <2>1, <2>2, <2>3, <2>4, <2>5
<1> QED  BY <1>1, <1>2, <1>3, <1>4 DEF Sweep

\* A request only takes its handler to a point and a job that exists.
LEMMA BeginIInv ==
    ASSUME IInv, NEW h \in Handler, NEW j \in Job \cup {None}, j \in Job => status[j] # "new",
           NEW point \in {"sweep", "pauseStop", "pauseRow", "resumeStat",
                          "cancelStop", "cancelScrub", "deleteStop", "deleteScrub"},
           point = "sweep" \/ j \in Job,
           Begin(h, j, point)
    PROVE  IInv'
<1> USE WorkerAssumption, NoneAssumption DEF Begin
<1>1. TypeOK' /\ InPlace'
  OBVIOUS
<1>2. NewIsUntouched'
  OBVIOUS
<1>3. RegistryIsExact' /\ StopHasReason'
  <2>1. /\ pc'[Worker] = pc[Worker] /\ job'[Worker] = job[Worker]
        /\ UNCHANGED <<cancels, reasons, ctxDone>>
    OBVIOUS
  <2> QED  BY ONLY <2>1, RegistryIsExact, StopHasReason
<1>4. ReasonIsAsked' /\ DropIsAsked'
  OBVIOUS
<1>5. DeliveredFirst' /\ SuccessIsDelivered'
  OBVIOUS
<1>6. ScrubbedFirst' /\ FinishedHasNoCache'
  OBVIOUS
<1>7. RunningIsOwned'
  OBVIOUS
<1> QED  BY <1>1, <1>2, <1>3, <1>4, <1>5, <1>6, <1>7

LEMMA RequestIInv ==
    ASSUME IInv, NEW h \in Handler, Request(h)
    PROVE  IInv'
<1> HIDE DEF IInv
<1>1. ASSUME NEW j \in Job, HandlePause(h, j) PROVE IInv'
  BY <1>1, BeginIInv DEF HandlePause
<1>2. ASSUME NEW j \in Job, HandleResume(h, j) PROVE IInv'
  BY <1>2, BeginIInv DEF HandleResume
<1>3. ASSUME NEW j \in Job, HandleCancel(h, j) PROVE IInv'
  BY <1>3, BeginIInv DEF HandleCancel
<1>4. ASSUME NEW j \in Job, HandleDelete(h, j) PROVE IInv'
  BY <1>4, BeginIInv DEF HandleDelete
<1>5. CASE HandleGet(h)
  BY <1>5, BeginIInv, NoneAssumption DEF HandleGet
<1> QED  BY <1>1, <1>2, <1>3, <1>4, <1>5 DEF Request

LEMMA HandlerIInv ==
    ASSUME IInv, NEW h \in Handler, HandlerStep(h)
    PROVE  IInv'
<1> USE WorkerAssumption, NoneAssumption
        DEF StopStep, requestRunningJobStop, UpdateRow
<1>1. CASE PauseStop(h)
  <2> USE <1>1 DEF PauseStop
  <2>1. TypeOK' /\ InPlace'
    <3>1. reasons' \in [Job -> Reason]
      OBVIOUS
    <3>2. pc' \in [Actor -> WorkerPoint \cup HandlerPoint]
      OBVIOUS
    <3>3. job' \in [Actor -> Job \cup {None}] /\ victims' \in [Actor -> SUBSET Job]
      OBVIOUS
    <3>4. /\ faults' \in 0..MaxFaults /\ litter' \subseteq Job
          /\ adrift' \subseteq Job /\ refused' \subseteq Job
      OBVIOUS
    <3>5. InPlace'
      OBVIOUS
    <3>6. cancels' \subseteq Job
      OBVIOUS
    <3>7. stale' \subseteq {j \in Job : status'[j] = "running"}
      OBVIOUS
    <3>8. /\ status' \in [Job -> Status] /\ ctxDone' \in BOOLEAN
          /\ cached' \subseteq Job /\ remote' \subseteq Job
      OBVIOUS
    <3> QED  BY ONLY <3>1, <3>2, <3>3, <3>4, <3>5, <3>6, <3>7, <3>8
  <2>2. NewIsUntouched'
    OBVIOUS
  <2>3. RegistryIsExact' /\ StopHasReason'
    OBVIOUS
  <2>4. ReasonIsAsked' /\ DropIsAsked'
    OBVIOUS
  <2>5. DeliveredFirst' /\ SuccessIsDelivered'
    OBVIOUS
  <2>6. ScrubbedFirst' /\ FinishedHasNoCache'
    OBVIOUS
  <2>7. RunningIsOwned'
    OBVIOUS
  <2> QED  BY <2>1, <2>2, <2>3, <2>4, <2>5, <2>6, <2>7
<1>2. CASE PauseRow(h)
  <2>1. CASE RowWrites(h, "pauseRow", updatePaused, "sweep")
    BY <2>1 DEF RowWrites, updatePaused
  <2>2. CASE RowFails(h, "pauseRow", "sweep")
    <3> HIDE DEF IInv
    <3> QED  BY <2>2, RowFailsIInv
  <2> QED  BY <1>2, <2>1, <2>2 DEF PauseRow, RowStep
<1>3. CASE ResumeStat(h)
  BY <1>3 DEF ResumeStat
<1>4. CASE ResumeRow(h)
  <2>1. CASE RowWrites(h, "resumeRow", updateResume, "sweep")
    BY <2>1 DEF RowWrites, updateResume
  <2>2. CASE RowFails(h, "resumeRow", "sweep")
    <3> HIDE DEF IInv
    <3> QED  BY <2>2, RowFailsIInv
  <2> QED  BY <1>4, <2>1, <2>2 DEF ResumeRow, RowStep
<1>5. CASE CancelStop(h)
  <2> USE <1>5 DEF CancelStop
  <2>1. TypeOK' /\ InPlace'
    <3>1. reasons' \in [Job -> Reason]
      OBVIOUS
    <3>2. pc' \in [Actor -> WorkerPoint \cup HandlerPoint]
      OBVIOUS
    <3>3. job' \in [Actor -> Job \cup {None}] /\ victims' \in [Actor -> SUBSET Job]
      OBVIOUS
    <3>4. /\ faults' \in 0..MaxFaults /\ litter' \subseteq Job
          /\ adrift' \subseteq Job /\ refused' \subseteq Job
      OBVIOUS
    <3>5. InPlace'
      OBVIOUS
    <3>6. cancels' \subseteq Job
      OBVIOUS
    <3>7. stale' \subseteq {j \in Job : status'[j] = "running"}
      OBVIOUS
    <3>8. /\ status' \in [Job -> Status] /\ ctxDone' \in BOOLEAN
          /\ cached' \subseteq Job /\ remote' \subseteq Job
      OBVIOUS
    <3> QED  BY ONLY <3>1, <3>2, <3>3, <3>4, <3>5, <3>6, <3>7, <3>8
  <2>2. NewIsUntouched'
    OBVIOUS
  <2>3. RegistryIsExact' /\ StopHasReason'
    OBVIOUS
  <2>4. ReasonIsAsked' /\ DropIsAsked'
    OBVIOUS
  <2>5. DeliveredFirst' /\ SuccessIsDelivered'
    OBVIOUS
  <2>6. ScrubbedFirst' /\ FinishedHasNoCache'
    OBVIOUS
  <2>7. RunningIsOwned'
    OBVIOUS
  <2> QED  BY <2>1, <2>2, <2>3, <2>4, <2>5, <2>6, <2>7
<1>6. CASE CancelScrub(h)
  <2>1. ScrubStep(h, "cancelScrub", "cancelRow") /\ h \in Actor /\ h # Worker
    BY <1>6 DEF CancelScrub
  <2> HIDE DEF IInv
  <2> QED  BY ONLY <2>1, IInv, ScrubIInv
<1>7. CASE CancelRow(h)
  <2>1. CASE RowWrites(h, "cancelRow", updateCancelled, "sweep")
    BY <2>1 DEF RowWrites, updateCancelled
  <2>2. CASE RowFails(h, "cancelRow", "sweep")
    <3> HIDE DEF IInv
    <3> QED  BY <2>2, RowFailsIInv
  <2> QED  BY <1>7, <2>1, <2>2 DEF CancelRow, RowStep
<1>8. CASE DeleteStop(h)
  <2> USE <1>8 DEF DeleteStop
  <2>1. TypeOK' /\ InPlace'
    <3>1. reasons' \in [Job -> Reason]
      OBVIOUS
    <3>2. pc' \in [Actor -> WorkerPoint \cup HandlerPoint]
      OBVIOUS
    <3>3. job' \in [Actor -> Job \cup {None}] /\ victims' \in [Actor -> SUBSET Job]
      OBVIOUS
    <3>4. /\ faults' \in 0..MaxFaults /\ litter' \subseteq Job
          /\ adrift' \subseteq Job /\ refused' \subseteq Job
      OBVIOUS
    <3>5. InPlace'
      OBVIOUS
    <3>6. cancels' \subseteq Job
      OBVIOUS
    <3>7. stale' \subseteq {j \in Job : status'[j] = "running"}
      OBVIOUS
    <3>8. /\ status' \in [Job -> Status] /\ ctxDone' \in BOOLEAN
          /\ cached' \subseteq Job /\ remote' \subseteq Job
      OBVIOUS
    <3> QED  BY ONLY <3>1, <3>2, <3>3, <3>4, <3>5, <3>6, <3>7, <3>8
  <2>2. NewIsUntouched'
    OBVIOUS
  <2>3. RegistryIsExact' /\ StopHasReason'
    OBVIOUS
  <2>4. ReasonIsAsked' /\ DropIsAsked'
    OBVIOUS
  <2>5. DeliveredFirst' /\ SuccessIsDelivered'
    OBVIOUS
  <2>6. ScrubbedFirst' /\ FinishedHasNoCache'
    OBVIOUS
  <2>7. RunningIsOwned'
    OBVIOUS
  <2> QED  BY <2>1, <2>2, <2>3, <2>4, <2>5, <2>6, <2>7
<1>9. CASE DeleteScrub(h)
  <2>1. ScrubStep(h, "deleteScrub", "deleteRow") /\ h \in Actor /\ h # Worker
    BY <1>9 DEF DeleteScrub
  <2> HIDE DEF IInv
  <2> QED  BY ONLY <2>1, IInv, ScrubIInv
<1>10. CASE DeleteRow(h)
  <2>1. CASE RowWrites(h, "deleteRow", deleteJob, "idle")
    BY <2>1 DEF RowWrites, deleteJob
  <2>2. CASE RowFails(h, "deleteRow", "idle")
    <3> HIDE DEF IInv
    <3> QED  BY <2>2, RowFailsIInv
  <2> QED  BY <1>10, <2>1, <2>2 DEF DeleteRow, RowStep
<1>11. CASE Sweep(h)
  BY <1>11, SweepIInv
<1> QED
  BY <1>1, <1>2, <1>3, <1>4, <1>5, <1>6, <1>7, <1>8, <1>9, <1>10, <1>11
     DEF HandlerStep

LEMMA WorkerIInv ==
    ASSUME IInv, WorkerStep
    PROVE  IInv'
<1> USE WorkerAssumption, NoneAssumption, FaultAssumption DEF UpdateRow
<1>1. CASE Sweep(Worker)
  BY <1>1, SweepIInv
<1>2. CASE ClaimSelect
  BY <1>2 DEF ClaimSelect
<1>3. CASE ClaimNothing
  <2> USE <1>3 DEF ClaimNothing
  <2>1. TypeOK' /\ InPlace'
    OBVIOUS
  <2>2. NewIsUntouched' /\ RegistryIsExact' /\ StopHasReason'
    OBVIOUS
  <2>3. ReasonIsAsked' /\ DropIsAsked' /\ DeliveredFirst' /\ SuccessIsDelivered'
    OBVIOUS
  <2>4. ScrubbedFirst' /\ FinishedHasNoCache' /\ RunningIsOwned'
    OBVIOUS
  <2> QED  BY <2>1, <2>2, <2>3, <2>4
<1>4. CASE ClaimTake
  <2> USE <1>4 DEF ClaimTake
  <2>1. /\ faults' \in 0..MaxFaults /\ pc' \in [Actor -> WorkerPoint \cup HandlerPoint]
        /\ status' \in [Job -> Status] /\ stale' \subseteq {j \in Job : status'[j] = "running"}
        /\ adrift' \subseteq Job /\ refused' \subseteq Job
    OBVIOUS
  <2>2. TypeOK' /\ InPlace'
    BY <2>1
  <2>3. NewIsUntouched' /\ RegistryIsExact' /\ StopHasReason'
    OBVIOUS
  <2>4. ReasonIsAsked' /\ DropIsAsked'
    OBVIOUS
  <2>5. DeliveredFirst' /\ SuccessIsDelivered'
    OBVIOUS
  <2>6. ScrubbedFirst' /\ FinishedHasNoCache'
    OBVIOUS
  <2>7. RunningIsOwned'
    OBVIOUS
  <2> QED  BY <2>2, <2>3, <2>4, <2>5, <2>6, <2>7
<1>5. CASE OpenPayload
  BY <1>5 DEF OpenPayload
<1>6. CASE StartUpload
  <2> USE <1>6 DEF StartUpload
  <2>1. TypeOK' /\ InPlace'
    <3>1. reasons' \in [Job -> Reason]
      OBVIOUS
    <3>2. pc' \in [Actor -> WorkerPoint \cup HandlerPoint]
      OBVIOUS
    <3>3. job' \in [Actor -> Job \cup {None}] /\ victims' \in [Actor -> SUBSET Job]
      OBVIOUS
    <3>4. /\ faults' \in 0..MaxFaults /\ litter' \subseteq Job
          /\ adrift' \subseteq Job /\ refused' \subseteq Job
      OBVIOUS
    <3>5. InPlace'
      OBVIOUS
    <3>6. cancels' \subseteq Job
      OBVIOUS
    <3>7. stale' \subseteq {j \in Job : status'[j] = "running"}
      OBVIOUS
    <3>8. /\ status' \in [Job -> Status] /\ ctxDone' \in BOOLEAN
          /\ cached' \subseteq Job /\ remote' \subseteq Job
      OBVIOUS
    <3> QED  BY ONLY <3>1, <3>2, <3>3, <3>4, <3>5, <3>6, <3>7, <3>8
  <2>2. NewIsUntouched'
    OBVIOUS
  <2>3. RegistryIsExact' /\ StopHasReason'
    OBVIOUS
  <2>4. ReasonIsAsked' /\ DropIsAsked'
    OBVIOUS
  <2>5. DeliveredFirst' /\ SuccessIsDelivered'
    OBVIOUS
  <2>6. ScrubbedFirst' /\ FinishedHasNoCache'
    OBVIOUS
  <2>7. RunningIsOwned'
    OBVIOUS
  <2> QED  BY <2>1, <2>2, <2>3, <2>4, <2>5, <2>6, <2>7
<1>7. CASE Deliver
  BY <1>7 DEF Deliver
<1>8. CASE EndUpload
  <2> USE <1>8 DEF EndUpload, AfterStop
  <2>1. TypeOK' /\ InPlace'
    <3>1. reasons' \in [Job -> Reason]
      OBVIOUS
    <3>2. pc' \in [Actor -> WorkerPoint \cup HandlerPoint]
      OBVIOUS
    <3>3. job' \in [Actor -> Job \cup {None}] /\ victims' \in [Actor -> SUBSET Job]
      OBVIOUS
    <3>4. /\ faults' \in 0..MaxFaults /\ litter' \subseteq Job
          /\ adrift' \subseteq Job /\ refused' \subseteq Job
      OBVIOUS
    <3>5. InPlace'
      OBVIOUS
    <3>6. cancels' \subseteq Job
      OBVIOUS
    <3>7. stale' \subseteq {j \in Job : status'[j] = "running"}
      OBVIOUS
    <3>8. /\ status' \in [Job -> Status] /\ ctxDone' \in BOOLEAN
          /\ cached' \subseteq Job /\ remote' \subseteq Job
      OBVIOUS
    <3> QED  BY ONLY <3>1, <3>2, <3>3, <3>4, <3>5, <3>6, <3>7, <3>8
  <2>2. NewIsUntouched'
    OBVIOUS
  <2>3. RegistryIsExact' /\ StopHasReason'
    OBVIOUS
  <2>4. ReasonIsAsked' /\ DropIsAsked'
    OBVIOUS
  <2>5. DeliveredFirst' /\ SuccessIsDelivered'
    OBVIOUS
  <2>6. ScrubbedFirst' /\ FinishedHasNoCache'
    OBVIOUS
  <2>7. RunningIsOwned'
    OBVIOUS
  <2> QED  BY <2>1, <2>2, <2>3, <2>4, <2>5, <2>6, <2>7
<1>9. CASE Verify
  <2> USE <1>9 DEF Verify
  <2>1. /\ faults' \in 0..MaxFaults /\ adrift' \subseteq Job
        /\ pc' \in [Actor -> WorkerPoint \cup HandlerPoint]
    OBVIOUS
  <2>2. TypeOK' /\ InPlace'
    BY <2>1
  <2>3. NewIsUntouched' /\ RegistryIsExact' /\ StopHasReason'
    OBVIOUS
  <2>4. ReasonIsAsked' /\ DropIsAsked'
    OBVIOUS
  <2>5. DeliveredFirst' /\ SuccessIsDelivered'
    OBVIOUS
  <2>6. ScrubbedFirst' /\ FinishedHasNoCache' /\ RunningIsOwned'
    OBVIOUS
  <2> QED  BY <2>2, <2>3, <2>4, <2>5, <2>6
<1>10. CASE Finish
  <2>1. ScrubStep(Worker, "finish", "succeed") /\ Worker \in Actor
    BY <1>10 DEF Finish
  <2> HIDE DEF IInv
  <2> QED  BY ONLY <2>1, IInv, ScrubIInv
<1>11. CASE Succeed
  <2>1. CASE RowWrites(Worker, "succeed", updateSuccess, "sweep")
    BY <2>1 DEF RowWrites, updateSuccess
  <2>2. CASE RowFails(Worker, "succeed", "sweep")
    <3> HIDE DEF IInv
    <3> QED  BY <2>2, RowFailsIInv
  <2> QED  BY <1>11, <2>1, <2>2 DEF Succeed, RowStep
<1>12. CASE Inspect
  <2> USE <1>12 DEF Inspect
  <2>1. /\ faults' \in 0..MaxFaults /\ adrift' \subseteq Job
        /\ pc' \in [Actor -> WorkerPoint \cup HandlerPoint]
    OBVIOUS
  <2>2. TypeOK' /\ InPlace'
    BY <2>1
  <2>3. NewIsUntouched' /\ RegistryIsExact' /\ StopHasReason'
    OBVIOUS
  <2>4. ReasonIsAsked' /\ DropIsAsked'
    OBVIOUS
  <2>5. DeliveredFirst' /\ SuccessIsDelivered'
    OBVIOUS
  <2>6. ScrubbedFirst' /\ FinishedHasNoCache' /\ RunningIsOwned'
    OBVIOUS
  <2> QED  BY <2>2, <2>3, <2>4, <2>5, <2>6
<1>13. CASE Fail
  <2>1. CASE RowWrites(Worker, "fail", updateFailure, "discard")
    BY <2>1 DEF RowWrites, updateFailure
  <2>2. CASE RowFails(Worker, "fail", "discard")
    <3> HIDE DEF IInv
    <3> QED  BY <2>2, RowFailsIInv
  <2> QED  BY <1>13, <2>1, <2>2 DEF Fail, RowStep
<1>14. CASE Discard
  <2>1. ScrubStep(Worker, "discard", "sweep") /\ Worker \in Actor
    BY <1>14 DEF Discard
  <2> HIDE DEF IInv
  <2> QED  BY ONLY <2>1, IInv, ScrubIInv
<1>15. CASE Stopped
  <2>1. CASE RowWrites(Worker, pc[Worker], updateStopped, "sweep")
    BY <1>15, <2>1 DEF RowWrites, Stopped, updateStopped, updatePaused, updateFailure
  <2>2. CASE RowFails(Worker, pc[Worker], "sweep")
    <3> QED  BY <1>15, <2>2, RowFailsIInv DEF Stopped, IInv, StopHasReason
  <2> QED  BY <1>15, <2>1, <2>2 DEF Stopped, RowStep
<1>16. CASE DropCancelled
  <2>1. ScrubStep(Worker, "dropCancelled", "cancelled") /\ Worker \in Actor
    BY <1>16 DEF DropCancelled
  <2> HIDE DEF IInv
  <2> QED  BY ONLY <2>1, IInv, ScrubIInv
<1>17. CASE Cancelled
  <2>1. CASE RowWrites(Worker, "cancelled", updateCancelled, "sweep")
    BY <2>1 DEF RowWrites, updateCancelled
  <2>2. CASE RowFails(Worker, "cancelled", "sweep")
    <3> HIDE DEF IInv
    <3> QED  BY <2>2, RowFailsIInv
  <2> QED  BY <1>17, <2>1, <2>2 DEF Cancelled, RowStep
<1>18. CASE DropDeleted
  <2>1. ScrubStep(Worker, "dropDeleted", "deleted") /\ Worker \in Actor
    BY <1>18 DEF DropDeleted
  <2> HIDE DEF IInv
  <2> QED  BY ONLY <2>1, IInv, ScrubIInv
<1>19. CASE Deleted
  <2>1. CASE RowWrites(Worker, "deleted", deleteJob, "sweep")
    BY <2>1 DEF RowWrites, deleteJob
  <2>2. CASE RowFails(Worker, "deleted", "sweep")
    <3> HIDE DEF IInv
    <3> QED  BY <2>2, RowFailsIInv
  <2> QED  BY <1>19, <2>1, <2>2 DEF Deleted, RowStep
<1> QED
  BY <1>1, <1>2, <1>3, <1>4, <1>5, <1>6, <1>7, <1>8, <1>9, <1>10, <1>11,
     <1>12, <1>13, <1>14, <1>15, <1>16, <1>17, <1>18, <1>19 DEF WorkerStep

LEMMA NextIInv == IInv /\ [Next]_vars => IInv'
<1> SUFFICES ASSUME IInv, [Next]_vars PROVE IInv'
  OBVIOUS
<1> USE WorkerAssumption, NoneAssumption
<1>1. ASSUME NEW j \in Job, EnqueueCloudSync(j) PROVE IInv'
  BY <1>1 DEF EnqueueCloudSync
<1>2. ASSUME NEW j \in Job, Age(j) \/ Beat(j) PROVE IInv'
  BY <1>2 DEF Age, Beat
<1>3. ASSUME NEW h \in Handler, Request(h) \/ HandlerStep(h) PROVE IInv'
  BY <1>3, RequestIInv, HandlerIInv
<1>4. CASE WorkerStep
  BY <1>4, WorkerIInv
<1>5. CASE Crash
  <2> USE <1>5, FaultAssumption DEF Crash
  <2>1. TypeOK' /\ InPlace'
    <3>1. reasons' \in [Job -> Reason]
      OBVIOUS
    <3>2. pc' \in [Actor -> WorkerPoint \cup HandlerPoint]
      OBVIOUS
    <3>3. job' \in [Actor -> Job \cup {None}] /\ victims' \in [Actor -> SUBSET Job]
      OBVIOUS
    <3>4. /\ faults' \in 0..MaxFaults /\ litter' \subseteq Job
          /\ adrift' \subseteq Job /\ refused' \subseteq Job
      OBVIOUS
    <3>5. InPlace'
      OBVIOUS
    <3>6. /\ status' \in [Job -> Status] /\ stale' \subseteq {j \in Job : status'[j] = "running"}
          /\ cached' \subseteq Job /\ remote' \subseteq Job
      OBVIOUS
    <3>7. cancels' \subseteq Job /\ ctxDone' \in BOOLEAN
      OBVIOUS
    <3> QED  BY <3>1, <3>2, <3>3, <3>4, <3>5, <3>6, <3>7
  <2>2. NewIsUntouched'
    OBVIOUS
  <2>3. RegistryIsExact' /\ StopHasReason'
    OBVIOUS
  <2>4. ReasonIsAsked' /\ DropIsAsked'
    OBVIOUS
  <2>5. DeliveredFirst' /\ SuccessIsDelivered'
    OBVIOUS
  <2>6. ScrubbedFirst' /\ FinishedHasNoCache'
    OBVIOUS
  <2>7. RunningIsOwned'
    OBVIOUS
  <2> QED  BY <2>1, <2>2, <2>3, <2>4, <2>5, <2>6, <2>7
<1>6. CASE UNCHANGED vars
  BY <1>6 DEF vars
<1> QED  BY <1>1, <1>2, <1>3, <1>4, <1>5, <1>6 DEF Next

\* The inductive invariant holds of every reachable state of the queue.
THEOREM Invariance == Spec => []IInv
BY InitIInv, NextIInv, PTL DEF Spec

\* The variables keep their types.
THEOREM TypeCorrect == Spec => []TypeOK
<1>1. IInv => TypeOK
  OBVIOUS
<1> QED  BY <1>1, Invariance, PTL

\* A job recorded by updateSuccess has its file in the cloud.
THEOREM SuccessDelivered == Spec => []SuccessIsDelivered
<1>1. IInv => SuccessIsDelivered
  OBVIOUS
<1> QED  BY <1>1, Invariance, PTL

\* A job that has ended leaves its cache file behind only when the removal of that
\* file by cleanupCloudSyncLocalPayload has failed.
THEOREM CacheReleased == Spec => []FinishedHasNoCache
<1>1. IInv => FinishedHasNoCache
  OBVIOUS
<1> QED  BY <1>1, Invariance, PTL

\* A running row that nobody works on is one that the worker let go through a crash
\* or an error that runCloudSyncJob dropped.
THEOREM RunningOwned == Spec => []RunningIsOwned
<1>1. IInv => RunningIsOwned
  OBVIOUS
<1> QED  BY <1>1, Invariance, PTL

\* The worker acts on a stop only for a reason that a handler gave, and drops
\* a job only when a client asked for it, even if the handler failed to say so.
THEOREM StopsAsked == Spec => [](StopHasReason /\ DropIsAsked)
<1>1. IInv => StopHasReason /\ DropIsAsked
  OBVIOUS
<1> QED  BY <1>1, Invariance, PTL

-----------------------------------------------------------------------------
(* Every step of the queue is a step of JobLifecycle, or leaves the table  *)
(* and the cloud as they are.                                              *)

LStep == [Lifecycle!LNext]_(Lifecycle!lvars)

\* A conditional UPDATE is a move between the statuses it names, or nothing.
LEMMA UpdateIsMove ==
    ASSUME NEW j \in Job, NEW from, NEW to, UpdateRow(j, from, to), UNCHANGED remote
    PROVE  Lifecycle!Move(j, from, to) \/ UNCHANGED Lifecycle!lvars
BY DEF UpdateRow, Lifecycle!Move, Lifecycle!lvars

\* The two unconditional statements touch whatever row exists.
LEMMA UnconditionalUpdates ==
    ASSUME NEW j \in Job, status \in [Job -> Status], status[j] # "new", UNCHANGED remote
    PROVE  /\ updateCancelled(j) => Lifecycle!Cancel(j) \/ UNCHANGED Lifecycle!lvars
           /\ deleteJob(j) => Lifecycle!Remove(j) \/ UNCHANGED Lifecycle!lvars
BY DEF updateCancelled, deleteJob, UpdateRow, Lifecycle!Cancel, Lifecycle!Remove,
       Lifecycle!Move, Lifecycle!lvars, Lifecycle!Existing, Lifecycle!Unfinished,
       Lifecycle!Waiting

\* A statement that fails leaves the table as it is.
LEMMA FailureIsStutter ==
    ASSUME NEW a, NEW from, NEW to, RowFails(a, from, to)
    PROVE  UNCHANGED Lifecycle!lvars
BY DEF RowFails, Lifecycle!lvars

LEMMA SweepSimulates ==
    ASSUME IInv, NEW a \in Actor, Sweep(a)
    PROVE  LStep
<1> USE DEF LStep, Lifecycle!LNext, Lifecycle!lvars
<1>1. CASE SweepMark(a)
  BY <1>1, UpdateIsMove DEF SweepMark, updateFailure, Lifecycle!Fail
<1>2. CASE SweepSelect(a) \/ SweepScrub(a) \/ SweepDone(a)
  BY <1>2 DEF SweepSelect, SweepScrub, ScrubStep, SweepDone
<1> QED  BY <1>1, <1>2 DEF Sweep

LEMMA HandlerSimulates ==
    ASSUME IInv, NEW h \in Handler, HandlerStep(h)
    PROVE  LStep
<1> USE DEF LStep, Lifecycle!LNext, RowStep, RowWrites
<1>1. CASE PauseRow(h)
  BY <1>1, UpdateIsMove, FailureIsStutter DEF PauseRow, updatePaused, Lifecycle!Pause, Lifecycle!Waiting
<1>2. CASE ResumeRow(h)
  BY <1>2, UpdateIsMove, FailureIsStutter DEF ResumeRow, updateResume, Lifecycle!Resume
<1>3. CASE CancelRow(h)
  BY <1>3, UnconditionalUpdates, FailureIsStutter DEF CancelRow
<1>4. CASE DeleteRow(h)
  BY <1>4, UnconditionalUpdates, FailureIsStutter DEF DeleteRow
<1>5. CASE Sweep(h)
  BY <1>5, SweepSimulates
<1>6. CASE \/ PauseStop(h) \/ ResumeStat(h) \/ CancelStop(h)
           \/ CancelScrub(h) \/ DeleteStop(h) \/ DeleteScrub(h)
  BY <1>6 DEF PauseStop, ResumeStat, CancelStop, CancelScrub, DeleteStop,
              DeleteScrub, StopStep, ScrubStep, Lifecycle!lvars
<1> QED  BY <1>1, <1>2, <1>3, <1>4, <1>5, <1>6 DEF HandlerStep

LEMMA WorkerSimulates ==
    ASSUME IInv, WorkerStep
    PROVE  LStep
<1> USE DEF LStep, Lifecycle!LNext, RowStep, RowWrites
<1>1. CASE ClaimTake
  BY <1>1, UpdateIsMove DEF ClaimTake, Lifecycle!Start, Lifecycle!lvars
<1>2. CASE Deliver
  BY <1>2 DEF Deliver, Lifecycle!Arrive
<1>3. CASE Succeed
  BY <1>3, UpdateIsMove, FailureIsStutter DEF Succeed, updateSuccess, Lifecycle!Succeed
<1>4. CASE Fail
  BY <1>4, UpdateIsMove, FailureIsStutter DEF Fail, updateFailure, Lifecycle!Fail
<1>5. CASE Stopped
  BY <1>5, UpdateIsMove, FailureIsStutter DEF Stopped, updateStopped, updatePaused,
     updateFailure, Lifecycle!Pause, Lifecycle!Waiting, Lifecycle!Fail
<1>6. CASE Cancelled
  BY <1>6, UnconditionalUpdates, FailureIsStutter DEF Cancelled
<1>7. CASE Deleted
  BY <1>7, UnconditionalUpdates, FailureIsStutter DEF Deleted
<1>8. CASE Sweep(Worker)
  BY <1>8, SweepSimulates
<1>9. CASE \/ ClaimSelect \/ ClaimNothing \/ OpenPayload \/ StartUpload \/ EndUpload
           \/ Verify \/ Finish \/ Inspect \/ Discard \/ DropCancelled \/ DropDeleted
  BY <1>9 DEF ClaimSelect, ClaimNothing, OpenPayload, StartUpload, EndUpload,
              Verify, Finish, Inspect, Discard, DropCancelled, DropDeleted,
              ScrubStep, Lifecycle!lvars
<1> QED
  BY <1>1, <1>2, <1>3, <1>4, <1>5, <1>6, <1>7, <1>8, <1>9 DEF WorkerStep

LEMMA NextSimulates == IInv /\ [Next]_vars => LStep
<1> SUFFICES ASSUME IInv, [Next]_vars PROVE LStep
  OBVIOUS
<1> USE DEF LStep, Lifecycle!LNext, Lifecycle!lvars
<1>1. ASSUME NEW j \in Job, EnqueueCloudSync(j) PROVE LStep
  BY <1>1 DEF EnqueueCloudSync, Lifecycle!Submit, Lifecycle!Move
<1>2. ASSUME NEW j \in Job, Age(j) \/ Beat(j) PROVE LStep
  BY <1>2 DEF Age, Beat
<1>3. ASSUME NEW h \in Handler, Request(h) PROVE LStep
  BY <1>3 DEF Request, HandlePause, HandleResume, HandleCancel, HandleDelete,
              HandleGet, Begin
<1>4. ASSUME NEW h \in Handler, HandlerStep(h) PROVE LStep
  BY <1>4, HandlerSimulates
<1>5. CASE WorkerStep
  BY <1>5, WorkerSimulates
<1>6. CASE Crash \/ UNCHANGED vars
  BY <1>6 DEF Crash, vars
<1> QED  BY <1>1, <1>2, <1>3, <1>4, <1>5, <1>6 DEF Next

\* The queue, seen through the jobs table and the cloud, implements the life
\* of a job that the API promises.
THEOREM Refinement == Spec => ImplementsLifecycle
<1>1. Init => Lifecycle!LInit
  BY DEF Init, Lifecycle!LInit
<1>2. IInv /\ [Next]_vars => [Lifecycle!LNext]_(Lifecycle!lvars)
  BY NextSimulates DEF LStep
<1> QED  BY <1>1, <1>2, Invariance, PTL DEF Spec, ImplementsLifecycle, Lifecycle!LSpec

\* A job that has ended is not taken up again: no move of JobLifecycle leads
\* from an ended status back to pending, running or paused.
THEOREM EndedIsFinal == Spec => EndedStaysEnded
<1> DEFINE StaysEnded ==
      \A j \in Job :
        /\ status[j] \in Ended => status'[j] \in {status[j], "cancelled", "deleted"}
        /\ status[j] = "deleted" => status'[j] = "deleted"
<1>1. IInv /\ [Next]_vars => [StaysEnded]_vars
  <2> SUFFICES ASSUME IInv, LStep PROVE StaysEnded
    BY NextSimulates
  <2> QED
    BY DEF LStep, Ended, Lifecycle!LNext, Lifecycle!lvars, Lifecycle!Move,
           Lifecycle!Submit, Lifecycle!Start, Lifecycle!Pause, Lifecycle!Resume,
           Lifecycle!Fail, Lifecycle!Cancel, Lifecycle!Remove, Lifecycle!Succeed,
           Lifecycle!Arrive, Lifecycle!Waiting, Lifecycle!Unfinished,
           Lifecycle!Existing
<1> HIDE DEF StaysEnded
<1>2. Spec => [][StaysEnded]_vars
  BY <1>1, Invariance, PTL DEF Spec
<1> QED  BY <1>2 DEF EndedStaysEnded, StaysEnded
=============================================================================
