------------------------------ MODULE Transcode -----------------------------
(* The launcher's video path (display/__init__.py): the reader thread of a   *)
(* session routes every row to the one Foxglove server, which outlives the   *)
(* sessions; a decodable stream's frames go to a worker thread of their own, *)
(* through a bounded queue, to be decoded and published as JPEG. A switch of *)
(* device stops the reader, which stops its workers, and resets the server's *)
(* channels; every join is bounded.                                          *)
(*                                                                           *)
(* Frame n of a stream is a keyframe every second one. How far decoding is    *)
(* behind device time, and whether a frame is inside the rate cap, is any.   *)
EXTENDS Integers, Sequences, FiniteSets

CONSTANTS Streams, Raw,   \* video streams, and those no decoder here reads
          Queue,          \* VideoDecodeSink._QUEUE
          MaxFrames, MaxSessions   \* bounds

Sessions == 1..MaxSessions

VARIABLES session,  \* the session the launcher is in, 0 for none yet
          launcher, \* the thread that switches: [at, gaveUp]
          reader,   \* per session [at, stop, n], n rows read so far
          worker,   \* per session and stream, see NoWorker
          server    \* FoxgloveSink: [table, last]: who opened each channel

vars == <<session, launcher, reader, worker, server>>

NoWorker == [at |-> "none", told |-> FALSE, q |-> <<>>, msg |-> 0, skipping |-> FALSE, shown |-> 0]
Key(n) == n % 2 = 1

\* FoxgloveSink.write: the channel is looked up by stream id, which the next
\* device uses again, and opened for whoever writes first
Publish(id, s) ==
    LET table == IF server.table[id] = 0 THEN [server.table EXCEPT ![id] = s] ELSE server.table
    IN server' = [table |-> table, last |-> [by |-> s, under |-> table[id]]]

Ids == {"raw", "jpeg"} \X Streams
Reset(sv) == [sv EXCEPT !.table = [id \in Ids |-> 0]]

-----------------------------------------------------------------------------
(* The reader thread of a session.                                           *)

Submit(q, n) == Append(IF Len(q) >= Queue THEN Tail(q) ELSE q, n)

\* stop is looked at before each row, so the row in hand when it is set still goes
Route(s) ==
    /\ reader[s].at = "reading" /\ reader[s].stop # "seen" /\ reader[s].n < MaxFrames
    /\ \E v \in Streams :
         LET n == reader[s].n + 1
         IN /\ reader' = [reader EXCEPT ![s].n = n, ![s].stop = IF @ = "set" THEN "seen" ELSE @]
            /\ IF v \in Raw THEN Publish(<<"raw", v>>, s) /\ UNCHANGED worker
               ELSE /\ worker' = [worker EXCEPT ![s][v].q = Submit(@, n),
                                                ![s][v].at = IF @ = "none" THEN "waiting" ELSE @]
                    /\ UNCHANGED server
    /\ UNCHANGED <<session, launcher>>

\* The source ends, on its own or on the stop event; close() stops the workers
\* one after another
ReaderEnds(s) ==
    /\ reader[s].at = "reading"
    /\ reader' = [reader EXCEPT ![s].at = "closing"]
    /\ UNCHANGED <<session, launcher, worker, server>>

\* Mutant: close() does not join a worker that is busy
RunningIdle(s) == {v \in Streams : worker[s][v].at = "waiting"}

Running(s) == {v \in Streams : worker[s][v].at \in {"waiting", "working"}}

TellWorker(s) ==
    /\ reader[s].at = "closing"
    /\ \A v \in Running(s) : ~worker[s][v].told
    /\ \E v \in Running(s) : worker' = [worker EXCEPT ![s][v].told = TRUE]
    /\ UNCHANGED <<session, launcher, reader, server>>

\* join(timeout) gives up on a worker that is busy; it is left to end by itself
AbandonWorker(s) ==
    /\ reader[s].at = "closing"
    /\ \E v \in Streams : /\ worker[s][v].told /\ worker[s][v].at = "working"
                          /\ worker' = [worker EXCEPT ![s][v].at = "abandoned"]
    /\ launcher' = [launcher EXCEPT !.gaveUp = TRUE]
    /\ UNCHANGED <<session, reader, server>>

ReaderDone(s) ==
    /\ reader[s].at = "closing" /\ Running(s) = {}
    /\ reader' = [reader EXCEPT ![s].at = "done"]
    /\ UNCHANGED <<session, launcher, worker, server>>

-----------------------------------------------------------------------------
(* A worker.                                                                 *)

Take(s, v) ==
    /\ worker[s][v].at = "waiting"
    /\ LET w == worker[s][v]
       IN IF w.told THEN worker' = [worker EXCEPT ![s][v].at = "exited"]
          ELSE /\ w.q # <<>>
               /\ worker' = [worker EXCEPT ![s][v].at = "working", ![s][v].msg = Head(w.q), ![s][v].q = Tail(w.q)]
    /\ UNCHANGED <<session, launcher, reader, server>>

\* _pace: keyframes only once decoding is too far behind, until it is back
Lags == {"live", "between", "behind"}
Pace(w, lag) ==
    IF ~w.skipping /\ lag = "behind" THEN [w EXCEPT !.skipping = TRUE]
    ELSE IF w.skipping /\ lag = "live" THEN [w EXCEPT !.skipping = FALSE]
    ELSE w

\* The packet is decoded and a frame published, or none: a bad packet, one the
\* decoder skips, a frame inside the rate cap
Process(s, v) ==
    /\ worker[s][v].at \in {"working", "abandoned"}
    /\ \E lag \in Lags :
         LET w == worker[s][v]
             p == [Pace(w, lag) EXCEPT !.at = IF w.at = "abandoned" THEN "exited" ELSE "waiting"]
         IN \/ /\ p.skipping => Key(w.msg)
               /\ worker' = [worker EXCEPT ![s][v] = [p EXCEPT !.shown = w.msg]]
               /\ Publish(<<"jpeg", v>>, s)
            \/ worker' = [worker EXCEPT ![s][v] = p] /\ UNCHANGED server
    /\ UNCHANGED <<session, launcher, reader>>

-----------------------------------------------------------------------------
(* The launcher: BridgeManager.connect.                                      *)

Live == IF session = 0 THEN "done" ELSE reader[session].at

Connect ==
    /\ launcher.at = "idle" /\ session < MaxSessions
    /\ launcher' = [launcher EXCEPT !.at = "joining"]
    /\ reader' = IF session = 0 THEN reader ELSE [reader EXCEPT ![session].stop = "set"]
    /\ UNCHANGED <<session, worker, server>>

\* Joined, or the join timed out; the server is reset and the next reader starts
Joins(gaveUp) ==
    /\ launcher.at = "joining"
    /\ launcher' = [at |-> "idle", gaveUp |-> launcher.gaveUp \/ gaveUp]
    /\ server' = Reset(server)
    /\ session' = session + 1
    /\ reader' = [reader EXCEPT ![session + 1].at = "reading"]
    /\ UNCHANGED <<worker>>
Switched == Live = "done" /\ Joins(FALSE)
JoinTimesOut == Live # "done" /\ Joins(TRUE)

Init ==
    /\ session = 0 /\ launcher = [at |-> "idle", gaveUp |-> FALSE]
    /\ reader = [s \in Sessions |-> [at |-> "none", stop |-> "clear", n |-> 0]]
    /\ worker = [s \in Sessions |-> [v \in Streams |-> NoWorker]]
    /\ server = Reset([table |-> <<>>, last |-> [by |-> 0, under |-> 0]])

Reader(s) == Route(s) \/ ReaderEnds(s) \/ TellWorker(s) \/ AbandonWorker(s) \/ ReaderDone(s)
Work(s, v) == Take(s, v) \/ Process(s, v)
Next ==
    \/ Connect \/ Switched \/ JoinTimesOut
    \/ \E s \in Sessions : Reader(s) \/ \E v \in Streams : Work(s, v)

Spec == Init /\ [][Next]_vars
\* A stopped reader leaves its loop within a timeout and so does a told worker
\* once its frame is decoded; a join ends by itself
FairSpec ==
    /\ Spec /\ WF_vars(Switched \/ JoinTimesOut)
    /\ \A s \in Sessions : WF_vars(Reader(s)) /\ \A v \in Streams : WF_vars(Work(s, v))

-----------------------------------------------------------------------------
(* When every thread ended within its join, nothing of an earlier device is  *)
(* left in the server: each open channel was opened by this session and what *)
(* a session publishes goes out under a channel it opened itself. Always, a  *)
(* stream's frames are published in capture order, none twice, from a backlog*)
(* that is bounded.                                                          *)
SwitchIsClean ==
    /\ ~launcher.gaveUp => /\ \A id \in Ids : server.table[id] \in {0, session}
                           /\ server.last.by = server.last.under
    /\ \A s \in Sessions, v \in Streams :
         LET w == worker[s][v]
             backlog == (IF w.at = "working" THEN <<w.msg>> ELSE <<>>) \o w.q
         IN Len(w.q) <= Queue /\ \A i \in DOMAIN backlog : backlog[i] > (IF i = 1 THEN w.shown ELSE backlog[i - 1])

(* The workers are stopped "BEFORE the launcher resets/closes that sink".    *)
WorkersStopFirst == server.last.by = server.last.under

(* What a switch comes to, and the threads of a session that was stopped.    *)
SwitchOver == launcher.at # "joining"
ThreadsGone(s) ==
    reader[s].stop # "clear" => reader[s].at = "done" /\ \A v \in Streams : worker[s][v].at \in {"none", "exited"}
=============================================================================
