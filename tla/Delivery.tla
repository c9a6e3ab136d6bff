------------------------------ MODULE Delivery ------------------------------
(***************************************************************************)
(* What the upload API promises of an upload, with requests, metadata,     *)
(* locks, temporary files and jobs abstracted away: bytes are received and *)
(* never lost, and once all are there the upload is stored, once and       *)
(* whole, or refused because its target exists.  Nothing is promised of an *)
(* upload that has gone astray (it was terminated, sent too much, or could *)
(* not be finalized), but that it touches no file beside its own target.   *)
(* Uploads implements this specification.                                  *)
(***************************************************************************)
EXTENDS Integers

CONSTANTS Upload, Length, Target, Cloud, None

VARIABLES dest,    \* where each upload goes; None before its creation
          bytes,   \* the positions received, of an upload that is neither over nor astray
          target,  \* the files at the targets, and the upload each came from
          remote,  \* the file the cloud storage has of each upload
          over,    \* uploads that were stored, handed over or refused
          astray

NoFile == {-1}
Whole(u) == 0 .. (Length[u] - 1)
dvars == <<dest, bytes, target, remote, over, astray>>

DInit ==
    /\ dest = [u \in Upload |-> None] /\ bytes = [u \in Upload |-> {}]
    /\ target = [t \in Target |-> [of |-> None, at |-> NoFile]]
    /\ remote = [u \in Upload |-> NoFile] /\ over = {} /\ astray = {}

Declare(u, d) ==
    /\ dest[u] = None /\ dest' = [dest EXCEPT ![u] = d]
    /\ UNCHANGED <<bytes, target, remote, over, astray>>

\* An upload under way, and one of which everything has been received.
Current(u) == dest[u] # None /\ u \notin over \cup astray
Complete(u) == Current(u) /\ bytes[u] = Whole(u)

Receive(u) ==
    /\ Current(u)
    /\ \E more \in SUBSET Whole(u) : bytes' = [bytes EXCEPT ![u] = @ \cup more]
    /\ UNCHANGED <<dest, target, remote, over, astray>>

\* The upload is over: it replaces what its target has by then, ...
Finish(u) ==
    /\ Complete(u)
    /\ bytes' = [bytes EXCEPT ![u] = {}] /\ over' = over \cup {u}
    /\ UNCHANGED <<dest, remote, astray>>
Store(u) ==
    /\ Finish(u) /\ dest[u] \in Target
    /\ target' = [target EXCEPT ![dest[u]] = [of |-> u, at |-> Whole(u)]]
\* ... or it is refused since there is a file, or is on its way to the cloud ...
Settle(u) ==
    /\ Finish(u) /\ (dest[u] = Cloud \/ target[dest[u]].at # NoFile)
    /\ UNCHANGED target
\* ... which gets it later.
Deliver(u) ==
    /\ u \in over /\ dest[u] = Cloud
    /\ remote[u] = NoFile /\ remote' = [remote EXCEPT ![u] = Whole(u)]
    /\ UNCHANGED <<dest, bytes, target, over, astray>>

\* One that goes or has gone astray may be stored all the same, with any content.
Stray(u) ==
    /\ dest[u] # None
    /\ astray' = astray \cup {u} /\ bytes' = [bytes EXCEPT ![u] = {}]
    /\ over' \in {over, over \cup {u}}
    /\ \A t \in Target \ {dest[u]} : target'[t] = target[t]
    /\ dest[u] \in Target => target'[dest[u]] = target[dest[u]] \/ target'[dest[u]].of = u
    /\ \A v \in Upload \ {u} : remote'[v] = remote[v]
    /\ UNCHANGED dest

DNext == \E u \in Upload :
    \/ \E d \in Target \cup {Cloud} : Declare(u, d)
    \/ Receive(u) \/ Store(u) \/ Settle(u) \/ Deliver(u) \/ Stray(u)

DSpec == DInit /\ [][DNext]_dvars
=============================================================================
