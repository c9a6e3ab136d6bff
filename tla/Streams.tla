------------------------------- MODULE Streams -------------------------------
(***************************************************************************)
(* The event stream and the benchmark of a pool that it carries            *)
(* (internal/events/handler.go, internal/storagepool/benchmark.go,         *)
(* BenchmarkGoogleDrive in internal/storage/google_drive.go).              *)
(*                                                                         *)
(* A client subscribes to samples (system, network, hardware, containers,  *)
(* I/O) and to the benchmark of one pool.  Each topic has a producer, a    *)
(* goroutine that puts events into the channel of the connection; the      *)
(* handler takes them out and writes them to the client, which may read as *)
(* slowly as it likes, or leave.  All clients benchmark one pool, on disks *)
(* or in the cloud.  Commands and statements may fail, and the process may *)
(* die.                                                                    *)
(*                                                                         *)
(* What is measured, the parameters of the request and its validation, and *)
(* the row that keeps the last result are left out: nothing depends on     *)
(* them.  An rclone that is killed is dead before another one has deleted  *)
(* its file.                                                               *)
(*                                                                         *)
(* A definition named Slip... is a plausible fault of the definition after *)
(* it, substituted to see that a property notices.                         *)
(***************************************************************************)
EXTENDS Integers, Sequences

CONSTANTS Client,   \* connections
          Sampling, \* those that may ask for samples
          None,
          Cap,      \* events that the channel holds (32)
          Chunks    \* progress events of each of the two stages of a benchmark

ASSUME SamplingAssumption == Sampling \subseteq Client
ASSUME BoundAssumption == Cap \in Nat \ {0} /\ Chunks \in Nat \ {0}

\* An event: a sample or an error of a sampler; one of a benchmark, numbered in
\* the order in which it was put into the channel, the last being its result.
Sample == 0
Last == 2 * Chunks + 1
Event == Sample .. Last
ASSUME NoneAssumption == None \notin Event

VARIABLES
    handler,     \* of each connection: where HandleEvents stands
    done,        \* its context is cancelled
    events, out, \* its channel, and the event that is being written
    got,         \* the last event of the benchmark that the client has
    sampler,     \* the producer of samples
    bench,       \* the producer of the benchmark
    cloud,       \* the pool is in the cloud, fixed
    sent,        \* how many events it has put into the channel
    file,        \* .yesnas-benchmark.tmp is there
    own, remote, \* a cloud benchmark's local files are there; the remote one
    left         \* history: file was left by a crash or a removal that failed

conn  == <<handler, done>>
chan  == <<events, out, got>>
temps == <<file, own, remote, left>>
vars  == <<conn, chan, sampler, bench, cloud, sent, temps>>

Init ==
    /\ handler = [c \in Client |-> "off"] /\ done = [c \in Client |-> FALSE]
    /\ events = [c \in Client |-> << >>] /\ out = [c \in Client |-> None]
    /\ got = [c \in Client |-> 0]
    /\ sampler = [c \in Client |-> "end"] /\ bench = [c \in Client |-> "end"]
    /\ cloud \in BOOLEAN /\ sent = [c \in Client |-> 0]
    /\ file = FALSE /\ own = [c \in Client |-> FALSE] /\ remote = [c \in Client |-> FALSE]
    /\ left = FALSE

-----------------------------------------------------------------------------
(* The handler of a connection.                                            *)

\* A connection is used again when nothing of the last one is left.
Ended(c) == handler[c] = "off" /\ sampler[c] = "end" /\ bench[c] = "end"

\* HandleEvents: the producers start, and "ready" is written first.
HandleEvents(c) ==
    /\ Ended(c)
    /\ handler' = [handler EXCEPT ![c] = "write"]
    /\ done' = [done EXCEPT ![c] = FALSE]
    /\ events' = [events EXCEPT ![c] = << >>] /\ out' = [out EXCEPT ![c] = Sample]
    /\ got' = [got EXCEPT ![c] = 0] /\ sent' = [sent EXCEPT ![c] = 0]
    /\ \E s \in {"collect", "end"}, b \in {"resolve", "end"} :
          /\ {s, b} # {"end"} /\ (s = "collect" => c \in Sampling)
          /\ sampler' = [sampler EXCEPT ![c] = s] /\ bench' = [bench EXCEPT ![c] = b]
    /\ UNCHANGED <<cloud, temps>>

\* The loop takes an event or writes a heartbeat.
Take(c) ==
    /\ handler[c] = "select" /\ events[c] # << >>
    /\ handler' = [handler EXCEPT ![c] = "write"]
    /\ out' = [out EXCEPT ![c] = Head(events[c])]
    /\ events' = [events EXCEPT ![c] = Tail(events[c])]
    /\ UNCHANGED <<done, got, sampler, bench, cloud, sent, temps>>
Heartbeat(c) ==
    /\ handler[c] = "select"
    /\ handler' = [handler EXCEPT ![c] = "write"]
    /\ out' = [out EXCEPT ![c] = Sample]
    /\ UNCHANGED <<done, events, got, sampler, bench, cloud, sent, temps>>
Write(c) ==
    /\ handler[c] = "write"
    /\ handler' = [handler EXCEPT ![c] = "select"]
    /\ out' = [out EXCEPT ![c] = None]
    /\ got' = [got EXCEPT ![c] = IF out[c] = Sample THEN got[c] ELSE out[c]]
    /\ UNCHANGED <<done, events, sampler, bench, cloud, sent, temps>>

\* HandleEvents returns when the context is cancelled or a write fails, and its
\* return cancels the context.
SlipReturn(c) ==
    /\ (handler[c] = "select" => done[c]) /\ handler[c] # "off"
    /\ handler' = [handler EXCEPT ![c] = "off"]
    /\ out' = [out EXCEPT ![c] = None] /\ got' = [got EXCEPT ![c] = 0]
    /\ UNCHANGED <<done, events, sampler, bench, cloud, sent, temps>>
Return(c) ==
    /\ (handler[c] = "select" => done[c]) /\ handler[c] # "off"
    /\ handler' = [handler EXCEPT ![c] = "off"] /\ done' = [done EXCEPT ![c] = TRUE]
    /\ out' = [out EXCEPT ![c] = None] /\ got' = [got EXCEPT ![c] = 0]
    /\ UNCHANGED <<events, sampler, bench, cloud, sent, temps>>

\* The client leaves; the server notices while it waits for it.
Leave(c) ==
    /\ handler[c] # "off" /\ ~ done[c]
    /\ done' = [done EXCEPT ![c] = TRUE]
    /\ UNCHANGED <<handler, chan, sampler, bench, cloud, sent, temps>>

-----------------------------------------------------------------------------
(* The producers.                                                          *)

\* emit waits for room in the channel, or for the end of the context.
SlipPut(c, e) ==
    /\ events' = [events EXCEPT ![c] = IF Len(@) < Cap THEN Append(@, e) ELSE @]
    /\ UNCHANGED <<out, got>>
Put(c, e) ==
    /\ Len(events[c]) < Cap
    /\ events' = [events EXCEPT ![c] = Append(@, e)]
    /\ UNCHANGED <<out, got>>

\* repeat, repeatWithDelay, the first sample of hardware and containers, and
\* produceStorageIO: a sample or an error, as long as the context goes on; after
\* some errors there are no more.
Collect(c) ==
    /\ sampler[c] = "collect"
    /\ sampler' = [sampler EXCEPT ![c] = IF done[c] THEN "end" ELSE "emit"]
    /\ UNCHANGED <<conn, chan, bench, cloud, sent, temps>>
EmitSample(c) ==
    /\ sampler[c] = "emit"
    /\ \/ /\ Put(c, Sample)
          /\ \E s \in {"collect", "end"} : sampler' = [sampler EXCEPT ![c] = s]
       \/ /\ done[c]
          /\ sampler' = [sampler EXCEPT ![c] = "end"] /\ UNCHANGED chan
    /\ UNCHANGED <<conn, bench, cloud, sent, temps>>

Goto(c, point) == bench' = [bench EXCEPT ![c] = point]

\* ResolveBenchmarkPool, whether the pool is online and has room; a cloud pool's
\* record, token and section of rclone.conf.
Resolve(c) ==
    /\ bench[c] = "resolve"
    /\ \E point \in {"prepare", "result"} : Goto(c, point)
    /\ UNCHANGED <<conn, chan, sampler, cloud, sent, temps>>

\* rm -f; whether it fails is not looked at.
Remove == \/ file' = FALSE /\ left' = FALSE
          \/ UNCHANGED file /\ left' = file
\* What a benchmark before this one has left, or this one's local files, which
\* are filled unless the client leaves or the disk is full.
Prepare(c) ==
    /\ bench[c] = "prepare"
    /\ \/ /\ ~ cloud /\ Remove
          /\ Goto(c, "transfer") /\ UNCHANGED <<own, remote>>
       \/ /\ cloud
          /\ own' = [own EXCEPT ![c] = TRUE]
          /\ \E point \in {"transfer", "clean"} : Goto(c, point)
          /\ UNCHANGED <<file, remote, left>>
    /\ UNCHANGED <<conn, chan, sampler, cloud, sent>>

\* One chunk written or read by dd, or some seconds of rclone.  A read fails when
\* another benchmark has removed the file; a write creates it.
Writing(c) == sent[c] < Chunks
Readable(c) == IF cloud THEN remote[c] ELSE file
Transfer(c) ==
    /\ bench[c] = "transfer"
    /\ \/ ~ done[c] /\ (Writing(c) \/ Readable(c)) /\ Goto(c, "progress")
       \/ Goto(c, "clean")
    /\ file' = (file \/ (Writing(c) /\ ~ cloud))
    /\ remote' = [remote EXCEPT ![c] = @ \/ (Writing(c) /\ cloud)]
    /\ UNCHANGED <<conn, chan, sampler, cloud, sent, own, left>>
EmitProgress(c) ==
    /\ bench[c] = "progress"
    /\ \/ /\ Put(c, sent[c] + 1)
          /\ sent' = [sent EXCEPT ![c] = @ + 1]
          /\ Goto(c, IF sent[c] + 1 < 2 * Chunks THEN "transfer" ELSE "record")
       \/ /\ done[c]
          /\ Goto(c, "clean") /\ UNCHANGED <<chan, sent>>
    /\ UNCHANGED <<conn, sampler, cloud, temps>>

\* UpdateBenchmarkResult.
Record(c) ==
    /\ bench[c] = "record"
    /\ Goto(c, "clean")
    /\ UNCHANGED <<conn, chan, sampler, cloud, sent, temps>>

\* The deferred removals, with a context of their own.  What a failed removal of a
\* remote file leaves, no later benchmark meets.
CleanUp(c) ==
    /\ bench[c] = "clean"
    /\ \/ /\ ~ cloud /\ Remove /\ UNCHANGED <<own, remote>>
       \/ /\ cloud
          /\ own' = [own EXCEPT ![c] = FALSE] /\ remote' = [remote EXCEPT ![c] = FALSE]
          /\ UNCHANGED <<file, left>>
    /\ Goto(c, "result")
    /\ UNCHANGED <<conn, chan, sampler, cloud, sent>>

\* The result, or an error.
EmitResult(c) ==
    /\ bench[c] = "result"
    /\ \/ Put(c, sent[c] + 1) /\ sent' = [sent EXCEPT ![c] = @ + 1]
       \/ done[c] /\ UNCHANGED <<chan, sent>>
    /\ Goto(c, "end")
    /\ UNCHANGED <<conn, sampler, cloud, temps>>

-----------------------------------------------------------------------------
\* The process dies: the temporaries of its benchmarks stay.  Those of a cloud
\* benchmark have names of their own, and no later one meets them.
Restart ==
    /\ left' = file
    /\ handler' = [c \in Client |-> "off"] /\ done' = [c \in Client |-> FALSE]
    /\ events' = [c \in Client |-> << >>] /\ out' = [c \in Client |-> None]
    /\ got' = [c \in Client |-> 0] /\ sent' = [c \in Client |-> 0]
    /\ sampler' = [c \in Client |-> "end"] /\ bench' = [c \in Client |-> "end"]
    /\ own' = [c \in Client |-> FALSE] /\ remote' = [c \in Client |-> FALSE]
    /\ UNCHANGED <<file, cloud>>

Serve(c) == Take(c) \/ Heartbeat(c) \/ Write(c) \/ Leave(c) \/ Return(c)
SampleStep(c) == Collect(c) \/ EmitSample(c)
BenchStep(c) ==
    \/ Resolve(c) \/ Prepare(c) \/ Transfer(c) \/ EmitProgress(c)
    \/ Record(c) \/ CleanUp(c) \/ EmitResult(c)

Next ==
    \/ \E c \in Client : HandleEvents(c) \/ Serve(c) \/ SampleStep(c) \/ BenchStep(c)
    \/ Restart

\* A producer that can go on does: commands and samples end, at the latest when
\* their context does.  A select takes a case at random, so that it does not pass
\* over the end of the context for ever.  Nothing makes a client read.
Fairness == \A c \in Client :
    WF_vars(SampleStep(c)) /\ WF_vars(BenchStep(c)) /\ SF_vars(done[c] /\ Return(c))

Spec == Init /\ [][Next]_vars /\ Fairness
-----------------------------------------------------------------------------
Point == {"end", "resolve", "prepare", "transfer", "progress", "record", "clean",
          "result"}
TypeOK ==
    /\ handler \in [Client -> {"off", "select", "write"}] /\ done \in [Client -> BOOLEAN]
    /\ events \in [Client -> Seq(Event)] /\ out \in [Client -> Event \cup {None}]
    /\ got \in [Client -> Event] /\ sent \in [Client -> Event]
    /\ sampler \in [Client -> {"end", "collect", "emit"}]
    /\ bench \in [Client -> Point] /\ cloud \in BOOLEAN
    /\ file \in BOOLEAN /\ left \in BOOLEAN
    /\ own \in [Client -> BOOLEAN] /\ remote \in [Client -> BOOLEAN]

\* While a client is served it gets every event of its benchmark, once and in
\* order, however slowly it reads: what is not with it is in the channel or being
\* written (emit, HandleEvents).
Numbers(c) == {events[c][i] : i \in 1 .. Len(events[c])} \cup {out[c]}
InOrder(c) ==
    /\ Numbers(c) \ {Sample, None} = (got[c] + 1) .. sent[c]
    /\ \A i, j \in 1 .. Len(events[c]) :
          i < j /\ events[c][j] # Sample => events[c][i] < events[c][j]
EveryEventInOrder == \A c \in Client : handler[c] # "off" => InOrder(c)

\* The temporaries of a benchmark go with it, whichever way it ends and whoever
\* else benchmarks the pool: those that are there belong to one that runs, or a
\* crash or a removal that failed has left the file, until the next benchmark
\* (BenchmarkPoolStream, BenchmarkGoogleDrive).
Busy(c) == bench[c] \in {"transfer", "progress", "record", "clean"}
TemporariesOwned ==
    /\ file => left \/ \E c \in Client : Busy(c) /\ ~ cloud
    /\ \A c \in Client : own[c] \/ remote[c] => Busy(c) /\ cloud

\* Where a benchmark stands tells how far it has counted; an event is being written
\* when the handler writes, and precedes those in the channel.
Counted ==
    \A c \in Client :
       /\ bench[c] \in {"resolve", "prepare"} => sent[c] = 0
       /\ bench[c] \in {"transfer", "progress"} => sent[c] < 2 * Chunks
       /\ bench[c] \in {"record", "clean", "result"} => sent[c] <= 2 * Chunks
Precedes(c) ==
    \A i \in 1 .. Len(events[c]) :
       out[c] # None /\ events[c][i] # Sample => out[c] < events[c][i]
WrittenFirst ==
    \A c \in Client :
       (handler[c] = "write" <=> out[c] # None) /\ got[c] <= sent[c] /\ Precedes(c)
IInv == TypeOK /\ Counted /\ WrittenFirst /\ EveryEventInOrder /\ TemporariesOwned

\* When a client has left or its handler has returned, its producers and its handler
\* end, wherever they stand: at a full channel, in a command or between two samples
\* (emit, repeat).
LeaverFreed == \A c \in Client : done[c] \/ handler[c] = "off" ~> Ended(c)
=============================================================================
