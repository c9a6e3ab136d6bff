-------------------------------- MODULE Media --------------------------------
(***************************************************************************)
(* What is made from a file on request and kept in a cache: the stream of a*)
(* video (HLS), its MP4 and the thumbnail (internal/files/transcode.go,    *)
(* content.go, pkg/thumbnail).                                             *)
(*                                                                         *)
(* One file.  Viewers ask for one of the three: the three have nothing in  *)
(* common, and which one a behaviour is about is chosen at its start.      *)
(*                                                                         *)
(* A stream is made by a job that the viewers share and that goes on after *)
(* they left, until a viewer stops it or nobody has asked for a segment in *)
(* two minutes; an MP4 by the first viewer, under a lock; a thumbnail by   *)
(* every viewer that finds none, a bounded number at a time.  ffmpeg takes *)
(* any time, may hang and fails at any point.  The process may die, and    *)
(* ffmpeg with it.                                                         *)
(*                                                                         *)
(* Time passes by ticks.  A viewer's timeout and the ticks of its waiting  *)
(* loop are served before the next tick: a goroutine is not delayed by the *)
(* 75 seconds between the two limits.                                      *)
(*                                                                         *)
(* A definition named Slip... is a plausible fault of the definition after *)
(* it, substituted to see that a property notices.                         *)
(***************************************************************************)
EXTENDS Naturals, FiniteSets

CONSTANTS Viewer,      \* goroutines serving requests
          Job,         \* values of hlsJob, used again when nothing refers to them
          None,
          WaitLimit,   \* ticks that waitForManifest waits
          IdleLimit,   \* ticks after which a stream nobody watches is cancelled
          Slots        \* thumbnails made at a time

ASSUME NoneAssumption == None \notin Viewer \cup Job
ASSUME LimitAssumption ==
    /\ WaitLimit \in Nat /\ IdleLimit \in Nat /\ Slots \in Nat \ {0}
    /\ WaitLimit <= IdleLimit

Kind == {"stream", "mp4", "thumbnail"}
Content == {"none", "partial", "whole"}
Asking == {"start", "hold", "wait"}
Encoding == {"recheck", "encode", "rename", "unlock"}
Drawing == {"grab", "open", "draw", "drawn", "drop"}
Point == {"idle", "lock", "slot", "answer"} \cup Asking \cup Encoding \cup Drawing

VARIABLES
    pc, job, waited,             \* of each viewer: where it stands, the job it
                                 \* waits for, for how long
    hlsJobs,                     \* the job that the map has for the directory
    state, completed, cancelled, \* of each job: its goroutine, its flag, its context
    idle, noticed,               \* ticks since lastAccess; the watcher found it idle
    manifest,                    \* index.m3u8 is in the directory, and segments
    lock, tmp, mp4,              \* the lock of the MP4, its temporary, the file
    frame, thumb,                \* the frame taken from the video, the thumbnail
    kind                         \* what is asked for, fixed

hls  == <<hlsJobs, state, completed, cancelled, idle, noticed>>
file == <<lock, tmp, mp4>>
pict == <<frame, thumb>>
vars == <<pc, job, waited, hls, manifest, file, pict, kind>>

Init ==
    /\ pc = [v \in Viewer |-> "idle"] /\ job = [v \in Viewer |-> None]
    /\ waited = [v \in Viewer |-> 0]
    /\ hlsJobs = None /\ state = [j \in Job |-> "closed"]
    /\ completed = [j \in Job |-> FALSE] /\ cancelled = [j \in Job |-> FALSE]
    /\ idle = [j \in Job |-> 0] /\ noticed = [j \in Job |-> FALSE]
    /\ manifest = FALSE
    /\ lock = None /\ tmp = "none" /\ mp4 = "none"
    /\ frame = "none" /\ thumb = "none"
    /\ kind \in Kind

At(v, point) == pc[v] = point
Asks(v, k) == At(v, "idle") /\ kind = k
Goto(v, point) == pc' = [pc EXCEPT ![v] = point] /\ UNCHANGED <<job, waited>>
Answer(v) ==
    /\ pc' = [pc EXCEPT ![v] = "idle"] /\ job' = [job EXCEPT ![v] = None]
    /\ waited' = [waited EXCEPT ![v] = 0]

-----------------------------------------------------------------------------
(* A viewer of the stream.                                                 *)

Touch(j) == idle' = IF j = None THEN idle ELSE [idle EXCEPT ![j] = 0]

\* HandleHLSManifest looks for the manifest, and serves what it finds.
HandleHLSManifest(v) ==
    /\ Asks(v, "stream")
    /\ \/ /\ manifest /\ Touch(hlsJobs)
          /\ UNCHANGED pc
       \/ /\ ~ manifest
          /\ pc' = [pc EXCEPT ![v] = "start"] /\ UNCHANGED idle
    /\ UNCHANGED <<job, waited, hlsJobs, state, completed, cancelled, noticed,
                   manifest, file, pict, kind>>
HandleHLSSegment(v) ==
    /\ Asks(v, "stream") /\ manifest
    /\ Touch(hlsJobs)
    /\ UNCHANGED <<pc, job, waited, hlsJobs, state, completed, cancelled, noticed,
                   manifest, file, pict, kind>>

\* startHLSJob: LoadOrStore keeps the job there is, or the new one.
Unused(j) == state[j] = "closed" /\ \A v \in Viewer : job[v] # j
StartHLSJob(v) ==
    /\ At(v, "start")
    /\ pc' = [pc EXCEPT ![v] = "hold"]
    /\ \E j \in Job :
          /\ IF hlsJobs # None
                THEN j = hlsJobs /\ UNCHANGED hls
                ELSE /\ Unused(j)
                     /\ hlsJobs' = j /\ state' = [state EXCEPT ![j] = "run"]
                     /\ UNCHANGED <<completed, cancelled, idle, noticed>>
          /\ job' = [job EXCEPT ![v] = j]
    /\ UNCHANGED <<waited, manifest, file, pict, kind>>

\* job.touch(), by startHLSJob for a job it found and by its caller.
SlipTouchJob(v) ==
    /\ At(v, "hold")
    /\ Goto(v, "wait")
    /\ UNCHANGED <<hls, manifest, file, pict, kind>>
TouchJob(v) ==
    /\ At(v, "hold")
    /\ Touch(job[v])
    /\ Goto(v, "wait")
    /\ UNCHANGED <<hlsJobs, state, completed, cancelled, noticed, manifest, file, pict, kind>>

\* waitForManifest: the manifest is there, the job is done (with an error, or
\* without one and with a manifest or not), or time is up.
SeeManifest(v) ==
    /\ At(v, "wait") /\ manifest
    /\ Answer(v)
    /\ UNCHANGED <<hls, manifest, file, pict, kind>>
SeeDone(v) ==
    /\ At(v, "wait") /\ state[job[v]] = "closed"
    /\ Answer(v)
    /\ UNCHANGED <<hls, manifest, file, pict, kind>>
SlipTimeOut(v) == FALSE
TimeOut(v) ==
    /\ At(v, "wait") /\ waited[v] = WaitLimit
    /\ Answer(v)
    /\ UNCHANGED <<hls, manifest, file, pict, kind>>

\* Whoever stops the stream cancels the job that the others watch as well.
HandleHLSStop(v) ==
    /\ Asks(v, "stream") /\ hlsJobs # None
    /\ cancelled' = [cancelled EXCEPT ![hlsJobs] = TRUE]
    /\ UNCHANGED <<pc, job, waited, hlsJobs, state, completed, idle, noticed,
                   manifest, file, pict, kind>>

-----------------------------------------------------------------------------
(* The job's goroutine, ffmpeg and the watcher.                            *)

Become(j, s) == state' = [state EXCEPT ![j] = s]

\* ffmpeg -y replaces what is there; the playlist comes with the first segment.
WriteSegment(j) ==
    /\ state[j] = "run"
    /\ manifest' = TRUE
    /\ UNCHANGED <<pc, job, waited, hls, file, pict, kind>>
FfmpegDone(j) ==
    /\ state[j] = "run"
    /\ manifest' = TRUE
    /\ completed' = [completed EXCEPT ![j] = TRUE] /\ Become(j, "clean")
    /\ UNCHANGED <<pc, job, waited, hlsJobs, cancelled, idle, noticed, file, pict, kind>>
\* MkdirAll fails, or ffmpeg does, or the context kills it.
SlipFfmpegFails(j) ==
    /\ state[j] = "run"
    /\ hlsJobs' = None /\ Become(j, "clean")
    /\ UNCHANGED <<pc, job, waited, completed, cancelled, idle, noticed,
                   manifest, file, pict, kind>>
FfmpegFails(j) ==
    /\ state[j] = "run"
    /\ Become(j, "clean")
    /\ UNCHANGED <<pc, job, waited, hlsJobs, completed, cancelled, idle, noticed,
                   manifest, file, pict, kind>>
FfmpegKilled(j) ==
    /\ cancelled[j]
    /\ FfmpegFails(j)

\* The deferred calls, in the order in which they run.  What a job that is done
\* was cancelled or touched for matters to nobody.
CleanDir(j) ==
    /\ state[j] = "clean"
    /\ IF completed[j] THEN UNCHANGED manifest ELSE manifest' = FALSE
    /\ Become(j, "unmap")
    /\ UNCHANGED <<pc, job, waited, hlsJobs, completed, cancelled, idle, noticed, file, pict, kind>>
Unmap(j) ==
    /\ state[j] = "unmap"
    /\ hlsJobs' = None /\ Become(j, "close")
    /\ UNCHANGED <<pc, job, waited, completed, cancelled, idle, noticed, manifest, file, pict, kind>>
CloseDone(j) ==
    /\ state[j] = "close"
    /\ Become(j, "closed")
    /\ cancelled' = [cancelled EXCEPT ![j] = FALSE] /\ idle' = [idle EXCEPT ![j] = 0]
    /\ noticed' = [noticed EXCEPT ![j] = FALSE]
    /\ completed' = [completed EXCEPT ![j] = FALSE]
    /\ UNCHANGED <<pc, job, waited, hlsJobs, manifest, file, pict, kind>>

\* The watcher reads lastAccess, and cancels a job that it found idle: a viewer
\* that comes in between is not noticed.
SlipNotice(j) == FALSE
Notice(j) ==
    /\ state[j] # "closed" /\ ~ noticed[j] /\ ~ cancelled[j] /\ idle[j] > IdleLimit
    /\ noticed' = [noticed EXCEPT ![j] = TRUE]
    /\ UNCHANGED <<pc, job, waited, hlsJobs, state, completed, cancelled, idle,
                   manifest, file, pict, kind>>
CancelIdle(j) ==
    /\ noticed[j]
    /\ noticed' = [noticed EXCEPT ![j] = FALSE]
    /\ cancelled' = [cancelled EXCEPT ![j] = TRUE]
    /\ UNCHANGED <<pc, job, waited, hlsJobs, state, completed, idle, manifest, file, pict, kind>>

Live(j) == state[j] # "closed"
Waiting(v) == pc[v] = "wait"
Tick ==
    /\ \A v \in Viewer : Waiting(v) => waited[v] < WaitLimit
    /\ (\E j \in Job : Live(j) /\ idle[j] <= IdleLimit) \/ (\E v \in Viewer : Waiting(v))
    /\ idle' = [j \in Job |-> IF Live(j) /\ idle[j] <= IdleLimit THEN idle[j] + 1
                                                                  ELSE idle[j]]
    /\ waited' = [v \in Viewer |-> IF Waiting(v) THEN waited[v] + 1 ELSE waited[v]]
    /\ UNCHANGED <<pc, job, hlsJobs, state, completed, cancelled, noticed, manifest, file, pict, kind>>

-----------------------------------------------------------------------------
(* A viewer of the MP4: HandlePlayableContent and transcodeToMP4.          *)

HandlePlayableContent(v) ==
    /\ Asks(v, "mp4")
    /\ Goto(v, IF mp4 = "none" THEN "lock" ELSE "answer")
    /\ UNCHANGED <<hls, manifest, file, pict, kind>>
Lock(v) ==
    /\ At(v, "lock") /\ lock = None
    /\ lock' = v /\ Goto(v, "recheck")
    /\ UNCHANGED <<hls, manifest, tmp, mp4, pict, kind>>
SlipRecheck(v) ==
    /\ At(v, "recheck")
    /\ Goto(v, "encode")
    /\ UNCHANGED <<hls, manifest, file, pict, kind>>
Recheck(v) ==
    /\ At(v, "recheck")
    /\ Goto(v, IF mp4 = "none" THEN "encode" ELSE "unlock")
    /\ UNCHANGED <<hls, manifest, file, pict, kind>>
\* ffmpeg writes the temporary, which is renamed when it is whole and removed
\* in any case.
Encode(v) ==
    /\ At(v, "encode")
    /\ \/ tmp # "partial" /\ tmp' = "partial" /\ Goto(v, "encode")
       \/ tmp' = "whole" /\ Goto(v, "rename")
       \/ tmp' = "none" /\ Goto(v, "unlock")
    /\ UNCHANGED <<hls, manifest, lock, mp4, pict, kind>>
Rename(v) ==
    /\ At(v, "rename")
    /\ mp4' = (IF tmp = "none" THEN mp4 ELSE tmp) /\ tmp' = "none"
    /\ Goto(v, "unlock")
    /\ UNCHANGED <<hls, manifest, lock, pict, kind>>
\* The lock is held until the file has been sent.
Unlock(v) ==
    /\ At(v, "unlock")
    /\ lock' = None /\ Answer(v)
    /\ UNCHANGED <<hls, manifest, tmp, mp4, pict, kind>>
Send(v) ==
    /\ At(v, "answer")
    /\ Answer(v)
    /\ UNCHANGED <<hls, manifest, file, pict, kind>>

-----------------------------------------------------------------------------
(* A viewer of the thumbnail: GetOrCreateThumbnail.                        *)

Busy == {v \in Viewer : pc[v] \in Drawing}

HandleThumbnail(v) ==
    /\ Asks(v, "thumbnail")
    /\ Goto(v, IF thumb = "none" THEN "slot" ELSE "answer")
    /\ UNCHANGED <<hls, manifest, file, pict, kind>>
Acquire(v) ==
    /\ At(v, "slot") /\ Cardinality(Busy) < Slots
    /\ Goto(v, "grab")
    /\ UNCHANGED <<hls, manifest, file, pict, kind>>
\* Every viewer takes the frame into the same temporary, and removes it after
\* use: the next one may find it gone.  ffmpeg fails without leaving it.
Grab(v) ==
    /\ At(v, "grab")
    /\ \/ frame' = "whole" /\ Goto(v, "open")
       \/ UNCHANGED frame /\ Goto(v, "drop")
    /\ UNCHANGED <<hls, manifest, file, thumb, kind>>
OpenFrame(v) ==
    /\ At(v, "open")
    /\ \/ frame # "none" /\ Goto(v, "draw")
       \/ Goto(v, "drawn")
    /\ UNCHANGED <<hls, manifest, file, pict, kind>>
\* imaging.Save writes in place; a save that fails leaves what it wrote.
Draw(v) ==
    /\ At(v, "draw")
    /\ \/ thumb # "partial" /\ thumb' = "partial" /\ Goto(v, "draw")
       \/ thumb' = "whole" /\ Goto(v, "drawn")
       \/ Goto(v, "drawn") /\ UNCHANGED thumb
    /\ UNCHANGED <<hls, manifest, file, frame, kind>>
RemoveFrame(v) ==
    /\ At(v, "drawn")
    /\ frame' = "none" /\ Goto(v, "drop")
    /\ UNCHANGED <<hls, manifest, file, thumb, kind>>
Release(v) ==
    /\ At(v, "drop")
    /\ Answer(v)
    /\ UNCHANGED <<hls, manifest, file, pict, kind>>

-----------------------------------------------------------------------------
\* The process dies: the files stay as they are.
Restart ==
    /\ pc' = [v \in Viewer |-> "idle"] /\ job' = [v \in Viewer |-> None]
    /\ waited' = [v \in Viewer |-> 0]
    /\ hlsJobs' = None /\ state' = [j \in Job |-> "closed"]
    /\ completed' = [j \in Job |-> FALSE] /\ cancelled' = [j \in Job |-> FALSE]
    /\ idle' = [j \in Job |-> 0] /\ noticed' = [j \in Job |-> FALSE]
    /\ lock' = None
    /\ UNCHANGED <<manifest, tmp, mp4, pict, kind>>

Request(v) ==
    \/ HandleHLSManifest(v) \/ HandleHLSSegment(v) \/ HandleHLSStop(v)
    \/ HandlePlayableContent(v) \/ HandleThumbnail(v)
View(v) ==
    \/ TouchJob(v) \/ SeeManifest(v) \/ SeeDone(v) \/ TimeOut(v)
    \/ Recheck(v) \/ Rename(v) \/ Unlock(v) \/ Send(v)
    \/ Grab(v) \/ OpenFrame(v) \/ RemoveFrame(v) \/ Release(v)
Obtain(v) == StartHLSJob(v) \/ Lock(v) \/ Acquire(v)
Produce(v) == Encode(v) \/ Draw(v)
Transcode(j) == WriteSegment(j) \/ FfmpegDone(j) \/ FfmpegFails(j)
End(j) ==
    FfmpegKilled(j) \/ CleanDir(j) \/ Unmap(j) \/ CloseDone(j) \/ Notice(j) \/ CancelIdle(j)

Next ==
    \/ \E v \in Viewer : Request(v) \/ View(v) \/ Obtain(v) \/ Produce(v)
    \/ \E j \in Job : Transcode(j) \/ End(j)
    \/ Tick \/ Restart

\* A goroutine that can go on does; the lock and the slots are given to those
\* that wait in turn; a context that is cancelled kills ffmpeg.  The ffmpeg of
\* an MP4 and the drawing of a thumbnail end some time; that of a stream may
\* hang.  A job can be made at any time in the code; here its value may have to
\* come free first, hence the strong form.
Produced(v) == Produce(v) /\ pc' # pc
Fairness ==
    /\ \A v \in Viewer : WF_vars(View(v)) /\ SF_vars(Obtain(v) \/ Produced(v))
    /\ \A j \in Job : WF_vars(End(j))
    /\ WF_vars(Tick)

Spec == Init /\ [][Next]_vars /\ Fairness

-----------------------------------------------------------------------------
TypeOK ==
    /\ pc \in [Viewer -> Point] /\ job \in [Viewer -> Job \cup {None}]
    /\ waited \in [Viewer -> 0 .. WaitLimit]
    /\ hlsJobs \in Job \cup {None}
    /\ state \in [Job -> {"run", "clean", "unmap", "close", "closed"}]
    /\ completed \in [Job -> BOOLEAN] /\ cancelled \in [Job -> BOOLEAN]
    /\ idle \in [Job -> 0 .. IdleLimit + 1] /\ noticed \in [Job -> BOOLEAN]
    /\ manifest \in BOOLEAN
    /\ lock \in Viewer \cup {None} /\ tmp \in Content /\ mp4 \in Content
    /\ frame \in Content /\ thumb \in Content /\ kind \in Kind
-----------------------------------------------------------------------------
(* What viewers rely on.                                                   *)

\* The entry in the map is that of the job whose goroutine is at work.
Mapped == \A j \in Job : hlsJobs = j <=> state[j] \in {"run", "clean", "unmap"}
Held == \A v \in Viewer : job[v] # None <=> pc[v] \in {"hold", "wait"}
\* A job was touched no earlier than its viewers began to wait.
Fresh ==
    \A v \in Viewer : /\ Waiting(v) => idle[job[v]] <= waited[v]
                      /\ ~ Waiting(v) => waited[v] = 0
Locked ==
    \A v \in Viewer : /\ pc[v] \in Encoding => lock = v
                      /\ pc[v] = "rename" => tmp = "whole"

\* At most one goroutine writes into the directory of a stream or is about to
\* remove it: the entry in the map goes after the directory, so that whoever
\* finds no entry starts on a directory that nobody else touches (startHLSJob).
OneWriter ==
    \A i, j \in Job : {state[i], state[j]} \subseteq {"run", "clean"} => i = j

\* A job that a viewer waits for is not taken for idle: the viewer gives up long
\* before (startHLSJob's watcher, waitForManifest).
WatchedIsKept == \A v \in Viewer : Waiting(v) => idle[job[v]] <= IdleLimit

\* The path of an MP4 never holds a part of one, whenever the process dies, and
\* what is whole is not encoded again (HandlePlayableContent, transcodeToMP4).
EncodedOnce ==
    /\ mp4 # "partial"
    /\ \A v \in Viewer : pc[v] \in {"encode", "rename"} => mp4 = "none"

IInv == TypeOK /\ Mapped /\ Held /\ Fresh /\ Locked /\ EncodedOnce

\* Every request is answered, although the ffmpeg of a stream may hang and the
\* jobs, the lock and the slots are shared.
Answered == \A v \in Viewer : ~ At(v, "idle") ~> At(v, "idle")

\* A stream that nobody asks for any more does not transcode for ever: its job
\* ends, even when ffmpeg hangs, or somebody touches it again.
AbandonedEnds ==
    \A j \in Job : state[j] = "run" /\ idle[j] > 0 ~> state[j] # "run" \/ idle[j] = 0
=============================================================================
