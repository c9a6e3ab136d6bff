---------------------------- MODULE JobLifecycle ----------------------------
(***************************************************************************)
(* What the jobs API promises of a job, with the worker, the handlers and  *)
(* the upload cache abstracted away: the life of a row of the jobs table   *)
(* and the one fact about the outside world it reports, that the file has  *)
(* reached the cloud.  Jobs implements this specification.                 *)
(***************************************************************************)
CONSTANT Job

VARIABLES state,     \* the status a client reads, "new" before creation
          delivered  \* jobs whose file is complete in the cloud

lvars == <<state, delivered>>

Waiting    == {"pending", "running"}
Unfinished == Waiting \cup {"paused"}
Existing   == Unfinished \cup {"success", "failed", "cancelled"}

LInit == state = [j \in Job |-> "new"] /\ delivered = {}

\* The job passes from a status in "from" to the status "to".
Move(j, from, to) ==
    /\ state[j] \in from
    /\ state' = [state EXCEPT ![j] = to]
    /\ UNCHANGED delivered

Submit(j) == Move(j, {"new"}, "pending")
Start(j)  == Move(j, {"pending"}, "running")
Pause(j)  == Move(j, Waiting, "paused")
Resume(j) == Move(j, {"paused"}, "pending")
Fail(j)   == Move(j, {"running"}, "failed")
Cancel(j) == Move(j, Existing, "cancelled")
Remove(j) == Move(j, Existing, "deleted")

Succeed(j) == j \in delivered /\ Move(j, {"running"}, "success")

\* The file of a submitted job reaches the cloud, once.
Arrive(j) ==
    /\ state[j] # "new" /\ j \notin delivered
    /\ delivered' = delivered \cup {j}
    /\ UNCHANGED state

LNext == \E j \in Job :
    \/ Submit(j) \/ Start(j) \/ Pause(j) \/ Resume(j) \/ Fail(j)
    \/ Cancel(j) \/ Remove(j) \/ Succeed(j) \/ Arrive(j)

LSpec == LInit /\ [][LNext]_lvars
=============================================================================
