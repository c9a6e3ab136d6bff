----------------------------- MODULE MediaProofs -----------------------------
(***************************************************************************)
(* The invariants of Media hold for any number of viewers, any supply of   *)
(* jobs and any limits, and a whole MP4 is never replaced.                 *)
(*                                                                         *)
(* The entry in the map is that of the goroutine at work (Mapped), which is*)
(* why there is one writer; a viewer that encodes has the lock and found   *)
(* no file (Locked, EncodedOnce); a job was touched when the last of its   *)
(* viewers began to wait, or later (Fresh).                                *)
(***************************************************************************)
EXTENDS Media, TLAPS

Points == {"idle", "lock", "slot", "answer", "start", "hold", "wait", "recheck",
           "encode", "rename", "unlock", "grab", "open", "draw", "drawn", "drop"}

\* The points a viewer can stand at, as one set.
LEMMA PointsAre == Point = Points /\ Encoding = {"recheck", "encode", "rename", "unlock"}
  BY DEF Point, Points, Asking, Encoding, Drawing

-----------------------------------------------------------------------------
(* Every step keeps the invariant: one lemma for each action of a viewer,  *)
(* of a job, of time and of the process.                                    *)

LEMMA HandleHLSManifestIInv ==
    ASSUME IInv, NEW v \in Viewer, HandleHLSManifest(v)
    PROVE  IInv'
<1> USE NoneAssumption, LimitAssumption, PointsAre
    DEF IInv, Points, HandleHLSManifest, At, Asks, Touch, hls, file, pict
<1>1. TypeOK' BY DEF TypeOK, Content
<1>2. Mapped' BY DEF TypeOK, Mapped, Held
<1>3. Held' BY DEF TypeOK, Held
<1>4. Fresh' BY DEF TypeOK, Mapped, Held, Fresh, Waiting
<1>5. Locked' BY DEF TypeOK, Locked
<1>6. EncodedOnce' BY DEF TypeOK, Locked, EncodedOnce
<1>7. QED BY <1>1, <1>2, <1>3, <1>4, <1>5, <1>6

LEMMA HandleHLSSegmentIInv ==
    ASSUME IInv, NEW v \in Viewer, HandleHLSSegment(v)
    PROVE  IInv'
<1> USE NoneAssumption, LimitAssumption, PointsAre
    DEF IInv, Points, HandleHLSSegment, At, Asks, Touch, hls, file, pict
<1>1. TypeOK' BY DEF TypeOK, Content
<1>2. Mapped' BY DEF TypeOK, Mapped, Held
<1>3. Held' BY DEF TypeOK, Held
<1>4. Fresh' BY DEF TypeOK, Mapped, Held, Fresh, Waiting
<1>5. Locked' BY DEF TypeOK, Locked
<1>6. EncodedOnce' BY DEF TypeOK, Locked, EncodedOnce
<1>7. QED BY <1>1, <1>2, <1>3, <1>4, <1>5, <1>6

LEMMA HandleHLSStopIInv ==
    ASSUME IInv, NEW v \in Viewer, HandleHLSStop(v)
    PROVE  IInv'
<1> USE NoneAssumption, LimitAssumption, PointsAre
    DEF IInv, Points, HandleHLSStop, At, Asks, hls, file, pict
<1>1. TypeOK' BY DEF TypeOK, Content
<1>2. Mapped' BY DEF TypeOK, Mapped, Held
<1>3. Held' BY DEF TypeOK, Held
<1>4. Fresh' BY DEF TypeOK, Mapped, Held, Fresh, Waiting
<1>5. Locked' BY DEF TypeOK, Locked
<1>6. EncodedOnce' BY DEF TypeOK, Locked, EncodedOnce
<1>7. QED BY <1>1, <1>2, <1>3, <1>4, <1>5, <1>6

LEMMA StartHLSJobIInv ==
    ASSUME IInv, NEW v \in Viewer, StartHLSJob(v)
    PROVE  IInv'
<1> USE NoneAssumption, LimitAssumption, PointsAre
    DEF IInv, Points, StartHLSJob, At, Unused, hls, file, pict
<1>1. TypeOK' BY DEF TypeOK, Content
<1>2. Mapped' BY DEF TypeOK, Mapped, Held
<1>3. Held' BY DEF TypeOK, Held
<1>4. Fresh' BY DEF TypeOK, Mapped, Held, Fresh, Waiting
<1>5. Locked' BY DEF TypeOK, Locked
<1>6. EncodedOnce' BY DEF TypeOK, Locked, EncodedOnce
<1>7. QED BY <1>1, <1>2, <1>3, <1>4, <1>5, <1>6

LEMMA TouchJobIInv ==
    ASSUME IInv, NEW v \in Viewer, TouchJob(v)
    PROVE  IInv'
<1> USE NoneAssumption, LimitAssumption, PointsAre
    DEF IInv, Points, TouchJob, At, Touch, Goto, hls, file, pict
<1>1. TypeOK' BY DEF TypeOK, Content
<1>2. Mapped' BY DEF TypeOK, Mapped, Held
<1>3. Held' BY DEF TypeOK, Held
<1>4. Fresh' BY DEF TypeOK, Mapped, Held, Fresh, Waiting
<1>5. Locked' BY DEF TypeOK, Locked
<1>6. EncodedOnce' BY DEF TypeOK, Locked, EncodedOnce
<1>7. QED BY <1>1, <1>2, <1>3, <1>4, <1>5, <1>6

LEMMA SeeManifestIInv ==
    ASSUME IInv, NEW v \in Viewer, SeeManifest(v)
    PROVE  IInv'
<1> USE NoneAssumption, LimitAssumption, PointsAre
    DEF IInv, Points, SeeManifest, At, Answer, hls, file, pict
<1>1. TypeOK' BY DEF TypeOK, Content
<1>2. Mapped' BY DEF TypeOK, Mapped, Held
<1>3. Held' BY DEF TypeOK, Held
<1>4. Fresh' BY DEF TypeOK, Mapped, Held, Fresh, Waiting
<1>5. Locked' BY DEF TypeOK, Locked
<1>6. EncodedOnce' BY DEF TypeOK, Locked, EncodedOnce
<1>7. QED BY <1>1, <1>2, <1>3, <1>4, <1>5, <1>6

LEMMA SeeDoneIInv ==
    ASSUME IInv, NEW v \in Viewer, SeeDone(v)
    PROVE  IInv'
<1> USE NoneAssumption, LimitAssumption, PointsAre
    DEF IInv, Points, SeeDone, At, Answer, hls, file, pict
<1>1. TypeOK' BY DEF TypeOK, Content
<1>2. Mapped' BY DEF TypeOK, Mapped, Held
<1>3. Held' BY DEF TypeOK, Held
<1>4. Fresh' BY DEF TypeOK, Mapped, Held, Fresh, Waiting
<1>5. Locked' BY DEF TypeOK, Locked
<1>6. EncodedOnce' BY DEF TypeOK, Locked, EncodedOnce
<1>7. QED BY <1>1, <1>2, <1>3, <1>4, <1>5, <1>6

LEMMA TimeOutIInv ==
    ASSUME IInv, NEW v \in Viewer, TimeOut(v)
    PROVE  IInv'
<1> USE NoneAssumption, LimitAssumption, PointsAre
    DEF IInv, Points, TimeOut, At, Answer, hls, file, pict
<1>1. TypeOK' BY DEF TypeOK, Content
<1>2. Mapped' BY DEF TypeOK, Mapped, Held
<1>3. Held' BY DEF TypeOK, Held
<1>4. Fresh' BY DEF TypeOK, Mapped, Held, Fresh, Waiting
<1>5. Locked' BY DEF TypeOK, Locked
<1>6. EncodedOnce' BY DEF TypeOK, Locked, EncodedOnce
<1>7. QED BY <1>1, <1>2, <1>3, <1>4, <1>5, <1>6

LEMMA HandlePlayableContentIInv ==
    ASSUME IInv, NEW v \in Viewer, HandlePlayableContent(v)
    PROVE  IInv'
<1> USE NoneAssumption, LimitAssumption, PointsAre
    DEF IInv, Points, HandlePlayableContent, At, Asks, Goto, hls, file, pict
<1>1. TypeOK' BY DEF TypeOK, Content
<1>2. Mapped' BY DEF TypeOK, Mapped, Held
<1>3. Held' BY DEF TypeOK, Held
<1>4. Fresh' BY DEF TypeOK, Mapped, Held, Fresh, Waiting
<1>5. Locked' BY DEF TypeOK, Locked
<1>6. EncodedOnce' BY DEF TypeOK, Locked, EncodedOnce
<1>7. QED BY <1>1, <1>2, <1>3, <1>4, <1>5, <1>6

LEMMA LockIInv ==
    ASSUME IInv, NEW v \in Viewer, Lock(v)
    PROVE  IInv'
<1> USE NoneAssumption, LimitAssumption, PointsAre
    DEF IInv, Points, Lock, At, Goto, hls, file, pict
<1>1. TypeOK' BY DEF TypeOK, Content
<1>2. Mapped' BY DEF TypeOK, Mapped, Held
<1>3. Held' BY DEF TypeOK, Held
<1>4. Fresh' BY DEF TypeOK, Mapped, Held, Fresh, Waiting
<1>5. Locked' BY DEF TypeOK, Locked
<1>6. EncodedOnce' BY DEF TypeOK, Locked, EncodedOnce
<1>7. QED BY <1>1, <1>2, <1>3, <1>4, <1>5, <1>6

LEMMA RecheckIInv ==
    ASSUME IInv, NEW v \in Viewer, Recheck(v)
    PROVE  IInv'
<1> USE NoneAssumption, LimitAssumption, PointsAre
    DEF IInv, Points, Recheck, At, Goto, hls, file, pict
<1>1. TypeOK' BY DEF TypeOK, Content
<1>2. Mapped' BY DEF TypeOK, Mapped, Held
<1>3. Held' BY DEF TypeOK, Held
<1>4. Fresh' BY DEF TypeOK, Mapped, Held, Fresh, Waiting
<1>5. Locked' BY DEF TypeOK, Locked
<1>6. EncodedOnce' BY DEF TypeOK, Locked, EncodedOnce
<1>7. QED BY <1>1, <1>2, <1>3, <1>4, <1>5, <1>6

LEMMA EncodeIInv ==
    ASSUME IInv, NEW v \in Viewer, Encode(v)
    PROVE  IInv'
<1> USE NoneAssumption, LimitAssumption, PointsAre
    DEF IInv, Points, Encode, At, Goto, hls, file, pict
<1>1. TypeOK' BY DEF TypeOK, Content
<1>2. Mapped' BY DEF TypeOK, Mapped, Held
<1>3. Held' BY DEF TypeOK, Held
<1>4. Fresh' BY DEF TypeOK, Mapped, Held, Fresh, Waiting
<1>5. Locked' BY DEF TypeOK, Locked
<1>6. EncodedOnce' BY DEF TypeOK, Locked, EncodedOnce
<1>7. QED BY <1>1, <1>2, <1>3, <1>4, <1>5, <1>6

LEMMA RenameIInv ==
    ASSUME IInv, NEW v \in Viewer, Rename(v)
    PROVE  IInv'
<1> USE NoneAssumption, LimitAssumption, PointsAre
    DEF IInv, Points, Rename, At, Goto, hls, file, pict
<1>1. TypeOK' BY DEF TypeOK, Content
<1>2. Mapped' BY DEF TypeOK, Mapped, Held
<1>3. Held' BY DEF TypeOK, Held
<1>4. Fresh' BY DEF TypeOK, Mapped, Held, Fresh, Waiting
<1>5. Locked' BY DEF TypeOK, Locked
<1>6. EncodedOnce' BY DEF TypeOK, Locked, EncodedOnce
<1>7. QED BY <1>1, <1>2, <1>3, <1>4, <1>5, <1>6

LEMMA UnlockIInv ==
    ASSUME IInv, NEW v \in Viewer, Unlock(v)
    PROVE  IInv'
<1> USE NoneAssumption, LimitAssumption, PointsAre
    DEF IInv, Points, Unlock, At, Answer, hls, file, pict
<1>1. TypeOK' BY DEF TypeOK, Content
<1>2. Mapped' BY DEF TypeOK, Mapped, Held
<1>3. Held' BY DEF TypeOK, Held
<1>4. Fresh' BY DEF TypeOK, Mapped, Held, Fresh, Waiting
<1>5. Locked' BY DEF TypeOK, Locked
<1>6. EncodedOnce' BY DEF TypeOK, Locked, EncodedOnce
<1>7. QED BY <1>1, <1>2, <1>3, <1>4, <1>5, <1>6

LEMMA SendIInv ==
    ASSUME IInv, NEW v \in Viewer, Send(v)
    PROVE  IInv'
<1> USE NoneAssumption, LimitAssumption, PointsAre
    DEF IInv, Points, Send, At, Answer, hls, file, pict
<1>1. TypeOK' BY DEF TypeOK, Content
<1>2. Mapped' BY DEF TypeOK, Mapped, Held
<1>3. Held' BY DEF TypeOK, Held
<1>4. Fresh' BY DEF TypeOK, Mapped, Held, Fresh, Waiting
<1>5. Locked' BY DEF TypeOK, Locked
<1>6. EncodedOnce' BY DEF TypeOK, Locked, EncodedOnce
<1>7. QED BY <1>1, <1>2, <1>3, <1>4, <1>5, <1>6

LEMMA HandleThumbnailIInv ==
    ASSUME IInv, NEW v \in Viewer, HandleThumbnail(v)
    PROVE  IInv'
<1> USE NoneAssumption, LimitAssumption, PointsAre
    DEF IInv, Points, HandleThumbnail, At, Asks, Goto, hls, file, pict
<1>1. TypeOK' BY DEF TypeOK, Content
<1>2. Mapped' BY DEF TypeOK, Mapped, Held
<1>3. Held' BY DEF TypeOK, Held
<1>4. Fresh' BY DEF TypeOK, Mapped, Held, Fresh, Waiting
<1>5. Locked' BY DEF TypeOK, Locked
<1>6. EncodedOnce' BY DEF TypeOK, Locked, EncodedOnce
<1>7. QED BY <1>1, <1>2, <1>3, <1>4, <1>5, <1>6

LEMMA AcquireIInv ==
    ASSUME IInv, NEW v \in Viewer, Acquire(v)
    PROVE  IInv'
<1> USE NoneAssumption, LimitAssumption, PointsAre
    DEF IInv, Points, Acquire, At, Goto, hls, file, pict
<1>1. TypeOK' BY DEF TypeOK, Content
<1>2. Mapped' BY DEF TypeOK, Mapped, Held
<1>3. Held' BY DEF TypeOK, Held
<1>4. Fresh' BY DEF TypeOK, Mapped, Held, Fresh, Waiting
<1>5. Locked' BY DEF TypeOK, Locked
<1>6. EncodedOnce' BY DEF TypeOK, Locked, EncodedOnce
<1>7. QED BY <1>1, <1>2, <1>3, <1>4, <1>5, <1>6

LEMMA GrabIInv ==
    ASSUME IInv, NEW v \in Viewer, Grab(v)
    PROVE  IInv'
<1> USE NoneAssumption, LimitAssumption, PointsAre
    DEF IInv, Points, Grab, At, Goto, hls, file, pict
<1>1. TypeOK' BY DEF TypeOK, Content
<1>2. Mapped' BY DEF TypeOK, Mapped, Held
<1>3. Held' BY DEF TypeOK, Held
<1>4. Fresh' BY DEF TypeOK, Mapped, Held, Fresh, Waiting
<1>5. Locked' BY DEF TypeOK, Locked
<1>6. EncodedOnce' BY DEF TypeOK, Locked, EncodedOnce
<1>7. QED BY <1>1, <1>2, <1>3, <1>4, <1>5, <1>6

LEMMA OpenFrameIInv ==
    ASSUME IInv, NEW v \in Viewer, OpenFrame(v)
    PROVE  IInv'
<1> USE NoneAssumption, LimitAssumption, PointsAre
    DEF IInv, Points, OpenFrame, At, Goto, hls, file, pict
<1>1. TypeOK' BY DEF TypeOK, Content
<1>2. Mapped' BY DEF TypeOK, Mapped, Held
<1>3. Held' BY DEF TypeOK, Held
<1>4. Fresh' BY DEF TypeOK, Mapped, Held, Fresh, Waiting
<1>5. Locked' BY DEF TypeOK, Locked
<1>6. EncodedOnce' BY DEF TypeOK, Locked, EncodedOnce
<1>7. QED BY <1>1, <1>2, <1>3, <1>4, <1>5, <1>6

LEMMA DrawIInv ==
    ASSUME IInv, NEW v \in Viewer, Draw(v)
    PROVE  IInv'
<1> USE NoneAssumption, LimitAssumption, PointsAre
    DEF IInv, Points, Draw, At, Goto, hls, file, pict
<1>1. TypeOK' BY DEF TypeOK, Content
<1>2. Mapped' BY DEF TypeOK, Mapped, Held
<1>3. Held' BY DEF TypeOK, Held
<1>4. Fresh' BY DEF TypeOK, Mapped, Held, Fresh, Waiting
<1>5. Locked' BY DEF TypeOK, Locked
<1>6. EncodedOnce' BY DEF TypeOK, Locked, EncodedOnce
<1>7. QED BY <1>1, <1>2, <1>3, <1>4, <1>5, <1>6

LEMMA RemoveFrameIInv ==
    ASSUME IInv, NEW v \in Viewer, RemoveFrame(v)
    PROVE  IInv'
<1> USE NoneAssumption, LimitAssumption, PointsAre
    DEF IInv, Points, RemoveFrame, At, Goto, hls, file, pict
<1>1. TypeOK' BY DEF TypeOK, Content
<1>2. Mapped' BY DEF TypeOK, Mapped, Held
<1>3. Held' BY DEF TypeOK, Held
<1>4. Fresh' BY DEF TypeOK, Mapped, Held, Fresh, Waiting
<1>5. Locked' BY DEF TypeOK, Locked
<1>6. EncodedOnce' BY DEF TypeOK, Locked, EncodedOnce
<1>7. QED BY <1>1, <1>2, <1>3, <1>4, <1>5, <1>6

LEMMA ReleaseIInv ==
    ASSUME IInv, NEW v \in Viewer, Release(v)
    PROVE  IInv'
<1> USE NoneAssumption, LimitAssumption, PointsAre
    DEF IInv, Points, Release, At, Answer, hls, file, pict
<1>1. TypeOK' BY DEF TypeOK, Content
<1>2. Mapped' BY DEF TypeOK, Mapped, Held
<1>3. Held' BY DEF TypeOK, Held
<1>4. Fresh' BY DEF TypeOK, Mapped, Held, Fresh, Waiting
<1>5. Locked' BY DEF TypeOK, Locked
<1>6. EncodedOnce' BY DEF TypeOK, Locked, EncodedOnce
<1>7. QED BY <1>1, <1>2, <1>3, <1>4, <1>5, <1>6

LEMMA WriteSegmentIInv ==
    ASSUME IInv, NEW j \in Job, WriteSegment(j)
    PROVE  IInv'
<1> USE NoneAssumption, LimitAssumption, PointsAre
    DEF IInv, Points, WriteSegment, hls, file, pict
<1>1. TypeOK' BY DEF TypeOK, Content
<1>2. Mapped' BY DEF TypeOK, Mapped, Held
<1>3. Held' BY DEF TypeOK, Held
<1>4. Fresh' BY DEF TypeOK, Mapped, Held, Fresh, Waiting
<1>5. Locked' BY DEF TypeOK, Locked
<1>6. EncodedOnce' BY DEF TypeOK, Locked, EncodedOnce
<1>7. QED BY <1>1, <1>2, <1>3, <1>4, <1>5, <1>6

LEMMA FfmpegDoneIInv ==
    ASSUME IInv, NEW j \in Job, FfmpegDone(j)
    PROVE  IInv'
<1> USE NoneAssumption, LimitAssumption, PointsAre
    DEF IInv, Points, FfmpegDone, Become, hls, file, pict
<1>1. TypeOK' BY DEF TypeOK, Content
<1>2. Mapped' BY DEF TypeOK, Mapped, Held
<1>3. Held' BY DEF TypeOK, Held
<1>4. Fresh' BY DEF TypeOK, Mapped, Held, Fresh, Waiting
<1>5. Locked' BY DEF TypeOK, Locked
<1>6. EncodedOnce' BY DEF TypeOK, Locked, EncodedOnce
<1>7. QED BY <1>1, <1>2, <1>3, <1>4, <1>5, <1>6

LEMMA FfmpegFailsIInv ==
    ASSUME IInv, NEW j \in Job, FfmpegFails(j)
    PROVE  IInv'
<1> USE NoneAssumption, LimitAssumption, PointsAre
    DEF IInv, Points, FfmpegFails, Become, hls, file, pict
<1>1. TypeOK' BY DEF TypeOK, Content
<1>2. Mapped' BY DEF TypeOK, Mapped, Held
<1>3. Held' BY DEF TypeOK, Held
<1>4. Fresh' BY DEF TypeOK, Mapped, Held, Fresh, Waiting
<1>5. Locked' BY DEF TypeOK, Locked
<1>6. EncodedOnce' BY DEF TypeOK, Locked, EncodedOnce
<1>7. QED BY <1>1, <1>2, <1>3, <1>4, <1>5, <1>6

LEMMA CleanDirIInv ==
    ASSUME IInv, NEW j \in Job, CleanDir(j)
    PROVE  IInv'
<1> USE NoneAssumption, LimitAssumption, PointsAre
    DEF IInv, Points, CleanDir, Become, hls, file, pict
<1>1. TypeOK' BY DEF TypeOK, Content
<1>2. Mapped' BY DEF TypeOK, Mapped, Held
<1>3. Held' BY DEF TypeOK, Held
<1>4. Fresh' BY DEF TypeOK, Mapped, Held, Fresh, Waiting
<1>5. Locked' BY DEF TypeOK, Locked
<1>6. EncodedOnce' BY DEF TypeOK, Locked, EncodedOnce
<1>7. QED BY <1>1, <1>2, <1>3, <1>4, <1>5, <1>6

LEMMA UnmapIInv ==
    ASSUME IInv, NEW j \in Job, Unmap(j)
    PROVE  IInv'
<1> USE NoneAssumption, LimitAssumption, PointsAre
    DEF IInv, Points, Unmap, Become, hls, file, pict
<1>1. TypeOK' BY DEF TypeOK, Content
<1>2. Mapped' BY DEF TypeOK, Mapped, Held
<1>3. Held' BY DEF TypeOK, Held
<1>4. Fresh' BY DEF TypeOK, Mapped, Held, Fresh, Waiting
<1>5. Locked' BY DEF TypeOK, Locked
<1>6. EncodedOnce' BY DEF TypeOK, Locked, EncodedOnce
<1>7. QED BY <1>1, <1>2, <1>3, <1>4, <1>5, <1>6

LEMMA CloseDoneIInv ==
    ASSUME IInv, NEW j \in Job, CloseDone(j)
    PROVE  IInv'
<1> USE NoneAssumption, LimitAssumption, PointsAre
    DEF IInv, Points, CloseDone, Become, hls, file, pict
<1>1. TypeOK' BY DEF TypeOK, Content
<1>2. Mapped' BY DEF TypeOK, Mapped, Held
<1>3. Held' BY DEF TypeOK, Held
<1>4. Fresh' BY DEF TypeOK, Mapped, Held, Fresh, Waiting
<1>5. Locked' BY DEF TypeOK, Locked
<1>6. EncodedOnce' BY DEF TypeOK, Locked, EncodedOnce
<1>7. QED BY <1>1, <1>2, <1>3, <1>4, <1>5, <1>6

LEMMA NoticeIInv ==
    ASSUME IInv, NEW j \in Job, Notice(j)
    PROVE  IInv'
<1> USE NoneAssumption, LimitAssumption, PointsAre
    DEF IInv, Points, Notice, hls, file, pict
<1>1. TypeOK' BY DEF TypeOK, Content
<1>2. Mapped' BY DEF TypeOK, Mapped, Held
<1>3. Held' BY DEF TypeOK, Held
<1>4. Fresh' BY DEF TypeOK, Mapped, Held, Fresh, Waiting
<1>5. Locked' BY DEF TypeOK, Locked
<1>6. EncodedOnce' BY DEF TypeOK, Locked, EncodedOnce
<1>7. QED BY <1>1, <1>2, <1>3, <1>4, <1>5, <1>6

LEMMA CancelIdleIInv ==
    ASSUME IInv, NEW j \in Job, CancelIdle(j)
    PROVE  IInv'
<1> USE NoneAssumption, LimitAssumption, PointsAre
    DEF IInv, Points, CancelIdle, hls, file, pict
<1>1. TypeOK' BY DEF TypeOK, Content
<1>2. Mapped' BY DEF TypeOK, Mapped, Held
<1>3. Held' BY DEF TypeOK, Held
<1>4. Fresh' BY DEF TypeOK, Mapped, Held, Fresh, Waiting
<1>5. Locked' BY DEF TypeOK, Locked
<1>6. EncodedOnce' BY DEF TypeOK, Locked, EncodedOnce
<1>7. QED BY <1>1, <1>2, <1>3, <1>4, <1>5, <1>6

LEMMA TickIInv ==
    ASSUME IInv, Tick
    PROVE  IInv'
<1> USE NoneAssumption, LimitAssumption, PointsAre DEF IInv, Points, Tick, Waiting, Live, file, pict
<1>1. TypeOK'
  <2>1. idle' \in [Job -> 0 .. IdleLimit + 1] BY DEF TypeOK
  <2>2. waited' \in [Viewer -> 0 .. WaitLimit] BY DEF TypeOK
  <2>3. QED BY <2>1, <2>2 DEF TypeOK, Content
<1>2. Mapped' BY DEF Mapped
<1>3. Held' BY DEF Held
<1>4. Fresh'
  <2> SUFFICES ASSUME NEW v \in Viewer
               PROVE  /\ (Waiting(v))' => idle'[job'[v]] <= waited'[v]
                      /\ ~ (Waiting(v))' => waited'[v] = 0
      BY DEF Fresh
  <2>1. CASE Waiting(v)
    <3>1. job[v] \in Job BY <2>1 DEF TypeOK, Held
    <3>2. /\ idle[job[v]] \in Nat /\ waited[v] \in Nat
          /\ idle[job[v]] <= waited[v]
          /\ waited'[v] = waited[v] + 1
          /\ idle'[job[v]] \in {idle[job[v]], idle[job[v]] + 1}
      BY <2>1, <3>1 DEF TypeOK, Fresh
    <3>3. QED BY <2>1, <3>2
  <2>2. CASE ~ Waiting(v) BY <2>2 DEF TypeOK, Fresh
  <2>3. QED BY <2>1, <2>2
<1>5. Locked' BY DEF Locked
<1>6. EncodedOnce' BY DEF EncodedOnce
<1>7. QED BY <1>1, <1>2, <1>3, <1>4, <1>5, <1>6

LEMMA RestartIInv ==
    ASSUME IInv, Restart
    PROVE  IInv'
<1> USE NoneAssumption, LimitAssumption, PointsAre DEF IInv, Points, Restart, pict
<1>1. TypeOK' BY DEF TypeOK, Content
<1>2. Mapped' BY DEF Mapped
<1>3. Held' BY DEF Held
<1>4. Fresh' BY DEF Fresh, Waiting
<1>5. Locked' BY DEF Locked
<1>6. EncodedOnce' BY DEF EncodedOnce
<1>7. QED BY <1>1, <1>2, <1>3, <1>4, <1>5, <1>6

-----------------------------------------------------------------------------
(* The beginning, and the theorems.                                        *)

\* At the start nobody waits, no job runs and nothing is made.
LEMMA InitIInv == Init => IInv
<1> SUFFICES ASSUME Init PROVE IInv OBVIOUS
<1> USE NoneAssumption, LimitAssumption, PointsAre DEF Init, Points
<1>1. TypeOK
  <2>1. 0 \in 0 .. WaitLimit /\ 0 \in 0 .. IdleLimit + 1 BY LimitAssumption
  <2>2. waited \in [Viewer -> 0 .. WaitLimit] /\ idle \in [Job -> 0 .. IdleLimit + 1]
    BY <2>1
  <2>3. QED BY <2>2 DEF TypeOK, Content
<1>2. Mapped /\ Held /\ Fresh BY DEF Mapped, Held, Fresh, Waiting
<1>3. Locked /\ EncodedOnce BY DEF Locked, EncodedOnce
<1>4. QED BY <1>1, <1>2, <1>3 DEF IInv

LEMMA NextIInv == IInv /\ [Next]_vars => IInv'
<1> SUFFICES ASSUME IInv, [Next]_vars PROVE IInv' OBVIOUS
<1>1. CASE UNCHANGED vars
  BY <1>1 DEF IInv, TypeOK, Mapped, Held, Fresh, Waiting, Locked, EncodedOnce,
              vars, hls, file, pict
<1>2. ASSUME NEW v \in Viewer, Request(v) PROVE IInv'
  BY <1>2, HandleHLSManifestIInv, HandleHLSSegmentIInv, HandleHLSStopIInv,
     HandlePlayableContentIInv, HandleThumbnailIInv DEF Request
<1>3. ASSUME NEW v \in Viewer, View(v) PROVE IInv'
  BY <1>3, TouchJobIInv, SeeManifestIInv, SeeDoneIInv, TimeOutIInv, RecheckIInv,
     RenameIInv, UnlockIInv, SendIInv, GrabIInv, OpenFrameIInv, RemoveFrameIInv,
     ReleaseIInv DEF View
<1>4. ASSUME NEW v \in Viewer, Obtain(v) \/ Produce(v) PROVE IInv'
  BY <1>4, StartHLSJobIInv, LockIInv, AcquireIInv, EncodeIInv, DrawIInv DEF Obtain, Produce
<1>5. ASSUME NEW j \in Job, Transcode(j) \/ End(j) PROVE IInv'
  BY <1>5, WriteSegmentIInv, FfmpegDoneIInv, FfmpegFailsIInv, CleanDirIInv, UnmapIInv,
     CloseDoneIInv, NoticeIInv, CancelIdleIInv DEF Transcode, End, FfmpegKilled
<1>6. QED BY <1>1, <1>2, <1>3, <1>4, <1>5, TickIInv, RestartIInv DEF Next

\* The inductive invariant holds in every state (transcode.go, thumbnail.go).
THEOREM Invariance == Spec => []IInv
<1>1. QED BY InitIInv, NextIInv, PTL DEF Spec

\* The variables have their types (hlsJob, the map, the lock and the files).
THEOREM TypeCorrect == Spec => []TypeOK
<1>1. IInv => TypeOK BY DEF IInv
<1>2. QED BY Invariance, <1>1, PTL

\* One goroutine at most is at work in the directory of a stream: the deferred
\* calls of startHLSJob remove the directory, then the entry.
THEOREM OneWriterAtATime == Spec => []OneWriter
<1>1. IInv => OneWriter BY NoneAssumption DEF IInv, TypeOK, Mapped, OneWriter
<1>2. QED BY Invariance, <1>1, PTL

\* The idle watcher does not find a job idle that a viewer waits for.
THEOREM WatchedAreKept == Spec => []WatchedIsKept
<1>1. IInv => WatchedIsKept
  <2> SUFFICES ASSUME IInv, NEW v \in Viewer, Waiting(v)
               PROVE  idle[job[v]] <= IdleLimit
      BY DEF WatchedIsKept
  <2>1. job[v] \in Job BY DEF IInv, TypeOK, Held, Waiting
  <2>2. /\ idle[job[v]] \in Nat /\ waited[v] \in 0 .. WaitLimit
        /\ idle[job[v]] <= waited[v]
    BY <2>1, LimitAssumption DEF IInv, TypeOK, Fresh
  <2>3. QED BY <2>2, LimitAssumption
<1>2. QED BY Invariance, <1>1, PTL

\* An MP4 is never seen in part, nor encoded when it is there already.
THEOREM MP4IsEncodedOnce == Spec => []EncodedOnce
<1>1. IInv => EncodedOnce BY DEF IInv
<1>2. QED BY Invariance, <1>1, PTL
=============================================================================
