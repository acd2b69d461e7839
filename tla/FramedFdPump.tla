---------------------------- MODULE FramedFdPump ----------------------------
(***************************************************************************)
(* FramedFdEndpoint's write side (cpp/src/transport/framed_fd.cc): the     *)
(* three outboxes and the timed lane multiplexed over one fd by Pump, the  *)
(* stall detector, the bulk flush, and the producers that feed the lanes.  *)
(*                                                                         *)
(* Each outbox is reduced to how many frames it queues and how many bytes  *)
(* it has in flight (FramedOutbox says why those are enough); a frame is   *)
(* FrameBytes bytes.  The other end is the frame the wire is inside of.    *)
(***************************************************************************)
EXTENDS Integers, FiniteSets

CONSTANTS
  FrameBytes,        \* bytes of a frame
  LaneDepth,         \* bound of the control, reliable and bulk queues
  TimedDepth,        \* bound of timed_queue_ (16 in the code)
  MaxFramesPerPump,  \* kMaxFramesPerPump
  StallTime,         \* stall_ns_
  MaxSends,          \* bound: frames offered in a run
  MaxTime            \* bound: the clock

Lanes == {"ctrl", "reliable", "bulk"}

VARIABLES
  queued,          \* per lane: frames in its queue_
  left,            \* per lane: bytes of its in_flight_ not written
  timed_queue,     \* frames in timed_queue_
  timed_left,      \* bytes of timed_active_ not written; 0 when there is none
  timed_pending,   \* timed_pending_
  bulk_flush,      \* bulk_flush_
  link_stalled,    \* link_stalled_
  last_progress,   \* last_progress_ns_; 0 until armed
  withdraws,       \* whether this link's owners ever withdraw queued frames
                   \* (DiscardReliable, RequestBulkFlush)
  accepted,        \* the fd took bytes in this pass
  pc,              \* the I/O thread's place in Loop and Pump
  pick, frames,    \* Pump's locals: the lane picked, frames so far
  send,            \* a Send between its stall check and its enqueue
  up, reading,     \* fd_ >= 0; the peer takes bytes
  now, sends,      \* clock, frames offered
  passed,          \* a pass of Pump ended since the clock last moved
  wire, spliced,   \* the lane whose frame the wire is inside of; and whether
                   \* bytes of another frame were ever put inside one
  ctrl_waits       \* history: a control frame was queued at the last pick

lanes == <<queued, left, timed_queue, timed_left, timed_pending>>
link == <<link_stalled, last_progress, withdraws>>
locals == <<pc, pick, frames, accepted>>
peer == <<up, reading, wire, spliced>>
vars == <<lanes, link, locals, peer, bulk_flush, send, now, sends, passed, ctrl_waits>>

InFlightActive(l) == left[l] > 0
HasPending(l) == InFlightActive(l) \/ queued[l] > 0
AtBoundary == \A l \in Lanes : ~InFlightActive(l)

-----------------------------------------------------------------------------
(* Producers. *)

Kinds == {"ctrl", "decimatable", "bulk"}
NoSend == [kind |-> "none", stalled |-> FALSE]
LaneOf(kind) == IF kind = "bulk" THEN "bulk" ELSE "ctrl"

AtMost(n, max) == IF n > max THEN max ELSE n

(* SendBatch samples link_stalled_ once. *)
SendBegin(kind) ==
  /\ send = NoSend /\ sends < MaxSends
  /\ send' = [kind |-> kind, stalled |-> link_stalled]
  /\ sends' = sends + 1
  /\ UNCHANGED <<lanes, link, locals, peer, bulk_flush, now, passed,
                 ctrl_waits>>

(***************************************************************************)
(* EnqueueOne's door, then Enqueue: a full lane sheds its oldest frame.    *)
(***************************************************************************)
EnqueueOne ==
  /\ send # NoSend
  /\ LET l == LaneOf(send.kind)
         door == send.stalled /\ send.kind \in {"bulk", "decimatable"}
     IN  queued' = IF door THEN queued
                   ELSE [queued EXCEPT ![l] = AtMost(@ + 1, LaneDepth)]
  /\ send' = NoSend
  /\ UNCHANGED <<left, timed_queue, timed_left, timed_pending, link, locals,
                 peer, bulk_flush, now, sends, passed, ctrl_waits>>

(* TrySendReliable: refused when the link is down or the lane is full. *)
TrySendReliable ==
  /\ sends < MaxSends /\ up /\ queued["reliable"] < LaneDepth
  /\ queued' = [queued EXCEPT !["reliable"] = @ + 1]
  /\ sends' = sends + 1
  /\ UNCHANGED <<left, timed_queue, timed_left, timed_pending, link, locals,
                 peer, bulk_flush, send, now, passed, ctrl_waits>>

DiscardReliable ==
  /\ withdraws /\ queued["reliable"] > 0
  /\ queued' = [queued EXCEPT !["reliable"] = 0]
  /\ UNCHANGED <<left, timed_queue, timed_left, timed_pending, link, locals,
                 peer, bulk_flush, send, now, sends, passed,
                 ctrl_waits>>

(* A full timed queue sheds its oldest heartbeat. *)
SendTimed ==
  /\ sends < MaxSends
  /\ timed_queue' = AtMost(timed_queue + 1, TimedDepth)
  /\ timed_pending' = timed_pending + (timed_queue' - timed_queue)
  /\ sends' = sends + 1
  /\ UNCHANGED <<queued, left, timed_left, link, locals, peer, bulk_flush,
                 send, now, passed, ctrl_waits>>

RequestBulkFlush ==
  /\ withdraws /\ sends < MaxSends
  /\ bulk_flush' = TRUE
  /\ sends' = sends + 1
  /\ UNCHANGED <<lanes, link, locals, peer, send, now, passed, ctrl_waits>>

-----------------------------------------------------------------------------
(* Pump, on the I/O thread. *)

(* WriteSome: n of `have` bytes of lane l's frame reach the wire. *)
Write(l, n, have) ==
  /\ n \in (IF reading THEN 1 .. have ELSE {0})
  /\ accepted' = (accepted \/ n > 0)
  /\ spliced' = (spliced \/ (n > 0 /\ wire \notin {"none", l}))
  /\ wire' = IF n = 0 THEN wire
             ELSE IF (have - n) % FrameBytes = 0 THEN "none" ELSE l
  /\ UNCHANGED <<up, reading>>

(* The flush waits for a frame boundary of the bulk lane. *)
FlushDue == bulk_flush /\ ~InFlightActive("bulk")

(* poll returned: clear the bulk lane if a flush is due. *)
PumpBegin ==
  /\ pc = "poll" /\ up
  /\ IF FlushDue
     THEN /\ queued' = [queued EXCEPT !["bulk"] = 0]
          /\ left' = [left EXCEPT !["bulk"] = 0]
          /\ pc' = "flushed"
     ELSE pc' = "pick" /\ UNCHANGED <<queued, left>>
  /\ accepted' = FALSE /\ frames' = 0 /\ pick' = "bulk"
  /\ UNCHANGED <<timed_queue, timed_left, timed_pending, link, peer,
                 bulk_flush, send, now, sends, passed, ctrl_waits>>

(* bulk_flush_.store(false) *)
FlushDone ==
  /\ pc = "flushed"
  /\ bulk_flush' = FALSE
  /\ pc' = "pick"
  /\ UNCHANGED <<lanes, link, pick, frames, accepted, peer, send, now, sends, passed, ctrl_waits>>

(* The lane loop goes on, or ends after MaxFramesPerPump turns. *)
NextTurn ==
  /\ frames' = frames + 1
  /\ pc' = IF frames + 1 < MaxFramesPerPump THEN "pick" ELSE "stall"

TimedTurnActive == timed_left > 0     \* mutant: no heartbeat ever starts

TimedTurn == timed_left > 0 \/ (timed_pending > 0 /\ AtBoundary)

(* PumpTimed: start or finish one heartbeat. *)
PumpTimed ==
  /\ pc = "pick" /\ TimedTurn
  /\ \/ /\ timed_left = 0 /\ timed_queue = 0
        /\ NextTurn
        /\ UNCHANGED <<timed_queue, timed_left, timed_pending, accepted, peer>>
     \/ /\ timed_left > 0 \/ timed_queue > 0
        /\ LET have == IF timed_left > 0 THEN timed_left ELSE FrameBytes
           IN  \E n \in 0 .. have :
                 /\ Write("timed", n, have)
                 /\ timed_left' = have - n
                 /\ IF n = have
                    THEN timed_pending' = timed_pending - 1 /\ NextTurn
                    ELSE pc' = "stall" /\ UNCHANGED <<timed_pending, frames>>
        /\ timed_queue' = IF timed_left > 0 THEN timed_queue ELSE timed_queue - 1
  /\ UNCHANGED <<queued, left, link, pick, bulk_flush, send, now, sends, passed, ctrl_waits>>

(***************************************************************************)
(* The lane to drain: the one with a frame mid-write; at a boundary,       *)
(* control, then reliable, then bulk.  The mutant always lets control go   *)
(* first.                                                                  *)
(***************************************************************************)
PickControl ==
  CASE HasPending("ctrl")     -> "ctrl"
    [] ~HasPending("ctrl") /\ HasPending("reliable") -> "reliable"
    [] OTHER                  -> "bulk"

Pick ==
  CASE InFlightActive("ctrl")     -> "ctrl"
    [] ~InFlightActive("ctrl") /\ InFlightActive("reliable") -> "reliable"
    [] AtBoundary /\ HasPending("ctrl") -> "ctrl"
    [] AtBoundary /\ ~HasPending("ctrl") /\ HasPending("reliable") -> "reliable"
    [] OTHER                      -> "bulk"

PickLane ==
  /\ pc = "pick" /\ ~TimedTurn
  /\ pick' = Pick
  /\ ctrl_waits' = (queued["ctrl"] > 0)
  /\ pc' = IF InFlightActive(Pick) THEN "finish" ELSE "promote"
  /\ UNCHANGED <<lanes, link, frames, accepted, peer, bulk_flush, send, now,
                 sends, passed>>

(***************************************************************************)
(* Drain, phase 1: finish the frame in flight.  Only the reliable lane     *)
(* stops there (one_frame).                                                *)
(***************************************************************************)
DrainFinish ==
  /\ pc = "finish"
  /\ \E n \in 0 .. left[pick] :
       /\ Write(pick, n, left[pick])
       /\ left' = [left EXCEPT ![pick] = @ - n]
       /\ pc' = CASE n < left[pick]                       -> "stall"
                  [] n = left[pick] /\ pick = "reliable"  -> "drained"
                  [] n = left[pick] /\ pick # "reliable"  -> "promote"
  /\ UNCHANGED <<queued, timed_queue, timed_left, timed_pending, link, pick,
                 frames, bulk_flush, send, now, sends, passed,
                 ctrl_waits>>

(* Phase 3: commit the front frame; the control lane commits them all. *)
DrainPromote ==
  /\ pc = "promote"
  /\ IF queued[pick] = 0
     THEN pc' = "drained" /\ UNCHANGED <<queued, left>>
     ELSE LET n == IF pick = "ctrl" THEN queued[pick] ELSE 1
          IN  /\ queued' = [queued EXCEPT ![pick] = @ - n]
              /\ left' = [left EXCEPT ![pick] = n * FrameBytes]
              /\ pc' = "tail"
  /\ UNCHANGED <<timed_queue, timed_left, timed_pending, link, pick, frames,
                 accepted, peer, bulk_flush, send, now, sends, passed,
                 ctrl_waits>>

(* The trailing write of the frame just committed. *)
DrainTail ==
  /\ pc = "tail"
  /\ \E n \in 0 .. left[pick] :
       /\ Write(pick, n, left[pick])
       /\ left' = [left EXCEPT ![pick] = @ - n]
  /\ pc' = "drained"
  /\ UNCHANGED <<queued, timed_queue, timed_left, timed_pending, link, pick,
                 frames, bulk_flush, send, now, sends, passed,
                 ctrl_waits>>

(* Stop on a frame left in flight, or on three empty lanes. *)
Drained ==
  /\ pc = "drained"
  /\ IF InFlightActive(pick) \/ \A l \in Lanes : ~HasPending(l)
     THEN pc' = "stall" /\ UNCHANGED frames
     ELSE NextTurn
  /\ UNCHANGED <<lanes, link, pick, accepted, peer, bulk_flush, send, now,
                 sends, passed, ctrl_waits>>

AnyPending == timed_pending > 0 \/ \E l \in Lanes : HasPending(l)

Latches ==
  ~accepted /\ AnyPending /\ last_progress # 0 /\ now - last_progress > StallTime

(* Mutant: bytes accepted do not lift the latch once the lanes are empty. *)
LiftsOnlyPending == accepted /\ AnyPending
Lifts == accepted

(***************************************************************************)
(* UpdateStallState: bytes accepted clear the latch and flush the stale    *)
(* bulk backlog; pending bytes and none accepted for longer than StallTime *)
(* set it.                                                                 *)
(***************************************************************************)
UpdateStallState ==
  /\ pc = "stall"
  /\ last_progress' = IF accepted \/ ~AnyPending \/ last_progress = 0
                      THEN now ELSE last_progress
  /\ link_stalled' = IF Lifts THEN FALSE ELSE link_stalled \/ Latches
  /\ bulk_flush' = (bulk_flush \/ (link_stalled /\ Lifts))
  /\ pc' = "poll" /\ passed' = TRUE
  /\ UNCHANGED <<lanes, pick, frames, accepted, peer, send, now, sends,
                 withdraws, ctrl_waits>>

(* A write or a read fails: MarkLinkDead clears every lane. *)
MarkLinkDead ==
  /\ up /\ pc \in {"poll", "pick", "finish", "tail"}
  /\ up' = FALSE /\ wire' = "none"
  /\ queued' = [l \in Lanes |-> 0] /\ left' = [l \in Lanes |-> 0]
  /\ timed_queue' = 0 /\ timed_left' = 0 /\ timed_pending' = 0
  /\ link_stalled' = FALSE /\ last_progress' = 0
  /\ pc' = "poll"
  /\ UNCHANGED <<reading, spliced, pick, frames, accepted, bulk_flush, send,
                 now, sends, withdraws, passed, ctrl_waits>>

(* Tick reopens the fd. *)
Reopen ==
  /\ pc = "poll" /\ ~up
  /\ up' = TRUE
  /\ UNCHANGED <<lanes, link, locals, reading, wire, spliced, bulk_flush,
                 send, now, sends, passed, ctrl_waits>>

-----------------------------------------------------------------------------
(* The peer stops and resumes reading; time passes. *)

PeerToggles ==
  /\ reading' = ~reading
  /\ UNCHANGED <<lanes, link, locals, up, wire, spliced, bulk_flush, send,
                 now, sends, passed, ctrl_waits>>

(***************************************************************************)
(* A unit of time is longer than a pass of the loop, whose poll returns    *)
(* within kTickMs (200 ms, against a stall window of 3 s).                 *)
(***************************************************************************)
Tick ==
  /\ now < MaxTime /\ (passed \/ ~up)
  /\ now' = now + 1 /\ passed' = FALSE
  /\ UNCHANGED <<lanes, link, locals, peer, bulk_flush, send, sends,
                 ctrl_waits>>

Init ==
  /\ queued = [l \in Lanes |-> 0] /\ left = [l \in Lanes |-> 0]
  /\ timed_queue = 0 /\ timed_left = 0 /\ timed_pending = 0
  /\ bulk_flush = FALSE /\ link_stalled = FALSE /\ last_progress = 0
  /\ accepted = FALSE /\ pc = "poll" /\ pick = "bulk" /\ frames = 0
  /\ send = NoSend /\ up = TRUE /\ reading = TRUE /\ now = 1 /\ sends = 0
  /\ passed = FALSE /\ withdraws \in BOOLEAN
  /\ wire = "none" /\ spliced = FALSE /\ ctrl_waits = FALSE

Producer ==
  \/ \E kind \in Kinds : SendBegin(kind)
  \/ EnqueueOne
  \/ TrySendReliable \/ DiscardReliable
  \/ SendTimed
  \/ RequestBulkFlush

IoThread ==
  \/ PumpBegin \/ FlushDone
  \/ PumpTimed \/ PickLane
  \/ DrainFinish \/ DrainPromote \/ DrainTail \/ Drained
  \/ UpdateStallState
  \/ Reopen

Next == Producer \/ IoThread \/ MarkLinkDead \/ PeerToggles \/ Tick

Spec == Init /\ [][Next]_vars

(* The I/O thread keeps running: poll returns within a tick. *)
FairSpec == Spec /\ WF_vars(IoThread) /\ WF_vars(EnqueueOne)

-----------------------------------------------------------------------------
(* Properties. *)

(* Types. *)
TypeOK ==
  /\ queued \in [Lanes -> 0 .. LaneDepth]
  /\ left \in [Lanes -> 0 .. LaneDepth * FrameBytes]
  /\ timed_queue \in 0 .. TimedDepth /\ timed_left \in 0 .. FrameBytes
  /\ timed_pending \in 0 .. TimedDepth + 1
  /\ bulk_flush \in BOOLEAN /\ link_stalled \in BOOLEAN /\ accepted \in BOOLEAN
  /\ last_progress \in Nat /\ now \in Nat /\ sends \in Nat
  /\ pc \in {"poll", "flushed", "pick", "finish", "promote", "tail", "drained",
             "stall"}
  /\ pick \in Lanes /\ frames \in 0 .. MaxFramesPerPump
  /\ send \in [kind : Kinds \cup {"none"}, stalled : BOOLEAN]
  /\ up \in BOOLEAN /\ reading \in BOOLEAN /\ passed \in BOOLEAN
  /\ withdraws \in BOOLEAN
  /\ wire \in Lanes \cup {"timed", "none"} /\ spliced \in BOOLEAN
  /\ ctrl_waits \in BOOLEAN

(***************************************************************************)
(* No lane ever puts its bytes inside another lane's half-written frame,   *)
(* which would desync the reader's COBS framing.                           *)
(***************************************************************************)
NoSplice == ~spliced

(***************************************************************************)
(* The reason: at most one frame is in flight over all the lanes, and it   *)
(* is the one the wire is inside of.                                       *)
(***************************************************************************)
OneFrameInFlight ==
  /\ \A l, m \in Lanes : InFlightActive(l) /\ InFlightActive(m) => l = m
  /\ timed_left > 0 => AtBoundary
  /\ wire \in Lanes => InFlightActive(wire)
  /\ wire = "timed" => timed_left > 0

(***************************************************************************)
(* If the peer reads again for good, the stall latch clears.               *)
(***************************************************************************)
StallClears ==
  (<>[]reading /\ ~withdraws) => (link_stalled ~> ~link_stalled)

(***************************************************************************)
(* If the peer reads and the link stays up, everything queued is written   *)
(* or shed: no lane starves another, and timed_pending_, which Pump reads  *)
(* without the lock of the queue it counts, hides no heartbeat.            *)
(***************************************************************************)
LanesDrain ==
  <>[](reading /\ up) => <>[](~AnyPending /\ timed_queue = 0)

(***************************************************************************)
(* A link that is read again gets back to normal: the latch clears and     *)
(* every lane drains (Pump and UpdateStallState).                          *)
(***************************************************************************)
LinkRecovers == StallClears /\ LanesDrain

(***************************************************************************)
(* Pump's comment on a frame mid-write: "finish exactly that one", "then   *)
(* control goes first so a reply never waits behind the video backlog": a  *)
(* bulk frame is not committed past a control frame that was queued when   *)
(* the lane was picked.                                                    *)
(***************************************************************************)
ControlGoesFirst ==
  [][(pc = "promote" /\ pc' = "tail" /\ pick = "bulk") => ~ctrl_waits]_vars
=============================================================================
