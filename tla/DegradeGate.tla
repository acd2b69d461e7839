----------------------------- MODULE DegradeGate -----------------------------
(***************************************************************************)
(* The congestion tier of FramedFdEndpoint (src/transport/framed_fd.cc):   *)
(* a leg whose video outbox evicts is degraded to keyframes only, by one   *)
(* atomic deadline that the sender, the I/O thread and the leg's owner all *)
(* write.  The bus dispatch mutex admits one Send at a time.               *)
(*                                                                         *)
(* Frames refused at the stall door (FramedFdPump) and frames that are not *)
(* bulk never reach this gate and are left out.                            *)
(***************************************************************************)
EXTENDS Integers

CONSTANTS
  Streams,        \* the bulk streams of the leg, e.g. one per eye
  HoldTime,       \* degrade_hold_ns_
  MaxEvictions,   \* bound: evictions in a run
  MaxTime         \* bound: the clock

ASSUME GateAssumption ==
  /\ HoldTime \in Nat \ {0}
  /\ MaxEvictions \in Nat /\ MaxTime \in Nat

VARIABLES
  hold,            \* degrade_hold_until_ns_: 0, or the latch's deadline
  evictions,       \* outbox_.Dropped()
  evictions_seen,  \* evictions_seen_, private to the I/O thread
  up,              \* fd_ >= 0
  io,              \* the I/O thread's place, and what it has read
  send,            \* the Send in progress
  now,             \* MonotonicNs
  drops,           \* per stream: the drop of its rule in policy_
  broken,          \* history, per stream: a frame was refused here since the
                   \* last keyframe that was queued, on this link
  resumed_blind,   \* history, per stream: since then the latch was lifted by
                   \* a keyframe of another stream, or a keyframe of its own
                   \* was dropped by its rule
  at_open,         \* history: evictions when this link was opened
  requested        \* history: RequestVideoDegrade was called on this link

history == <<broken, resumed_blind, at_open, requested>>
vars == <<hold, evictions, evictions_seen, up, io, send, now, drops,
          history>>

Frames == [stream : Streams, keyframe : BOOLEAN, no_degrade : BOOLEAN]

NoSend == [pc |-> "none"]
Idle == [pc |-> "idle"]

-----------------------------------------------------------------------------
(* The sender: EnqueueOne from the gate on. *)

GateRefusesAll(f) == hold # 0 /\ ~f.no_degrade     \* mutant: keyframes too

(* Mutant: the deadline alone ends the hold, for any frame. *)
GateRefusesUntil(f) == hold # 0 /\ ~f.no_degrade /\ ~f.keyframe /\ now < hold

(* A degraded leg is offered keyframes only. *)
GateRefuses(f) == hold # 0 /\ ~f.no_degrade /\ ~f.keyframe

LoadHold(f) ==
  /\ send = NoSend
  /\ IF GateRefuses(f)
     THEN broken' = [broken EXCEPT ![f.stream] = TRUE] /\ UNCHANGED send
     ELSE /\ send' = [pc |-> IF hold # 0 /\ ~f.no_degrade THEN "lift" ELSE "enqueue",
                      frame |-> f, hold_ns |-> hold]
          /\ UNCHANGED broken
  /\ UNCHANGED <<hold, evictions, evictions_seen, up, io, now, drops,
                 resumed_blind, at_open, requested>>

(* What the sender's attempt to lift leaves in the latch. *)
LiftedByStore(hold_ns) == IF now >= hold_ns THEN 0 ELSE hold    \* mutant

LiftedHold(hold_ns) ==
  IF now >= hold_ns /\ hold = hold_ns THEN 0 ELSE hold

(* A keyframe past the deadline: compare_exchange(hold_ns, 0).  It lifts   *)
(* the latch of every stream of the leg. *)
Lift ==
  /\ send.pc = "lift"
  /\ hold' = LiftedHold(send.hold_ns)
  /\ resumed_blind' =
       [s \in Streams |-> resumed_blind[s]
                          \/ (broken[s] /\ s # send.frame.stream /\ hold # 0 /\ hold' = 0)]
  /\ send' = [send EXCEPT !.pc = "enqueue"]
  /\ UNCHANGED <<evictions, evictions_seen, up, io, now, drops, broken,
                 at_open, requested>>

(* RuleFor: the stream's rule drops it, only now that the gate is behind.  *)
DropByRule ==
  /\ send.pc = "enqueue" /\ drops[send.frame.stream]
  /\ resumed_blind' =
       IF send.frame.keyframe /\ broken[send.frame.stream]
       THEN [resumed_blind EXCEPT ![send.frame.stream] = TRUE] ELSE resumed_blind
  /\ send' = NoSend
  /\ UNCHANGED <<hold, evictions, evictions_seen, up, io, now, drops, broken,
                 at_open, requested>>

(* outbox_.Enqueue: a full outbox evicts. *)
Enqueue ==
  /\ send.pc = "enqueue" /\ ~drops[send.frame.stream]
  /\ \E n \in 0 .. 1 :
       /\ evictions + n <= MaxEvictions
       /\ evictions' = evictions + n
  /\ IF send.frame.keyframe
     THEN /\ broken' = [broken EXCEPT ![send.frame.stream] = FALSE]
          /\ resumed_blind' = [resumed_blind EXCEPT ![send.frame.stream] = FALSE]
     ELSE UNCHANGED <<broken, resumed_blind>>
  /\ send' = NoSend
  /\ UNCHANGED <<hold, evictions_seen, up, io, now, drops, at_open, requested>>

(* SetStreamPolicy, which the bus dispatch mutex keeps out of a Send. *)
SetStreamPolicy ==
  /\ send = NoSend
  /\ drops' \in [Streams -> BOOLEAN]
  /\ UNCHANGED <<hold, evictions, evictions_seen, up, io, send, now, history>>

(* The owner of the leg saw its previous link wedge. *)
RequestVideoDegrade ==
  /\ up
  /\ hold' = now + HoldTime
  /\ requested' = TRUE
  /\ UNCHANGED <<evictions, evictions_seen, up, io, send, now, drops, broken,
                 resumed_blind, at_open>>

-----------------------------------------------------------------------------
(* The I/O thread. *)

(***************************************************************************)
(* A pass of Pump, which returns at once while the fd is down: Drain may   *)
(* age frames out, then UpdateStallState reads the clock and the counter.  *)
(***************************************************************************)
ReadEvictions ==
  /\ io = Idle /\ up
  /\ \E n \in 0 .. 1 :
       /\ evictions + n <= MaxEvictions
       /\ evictions' = evictions + n
       /\ io' = [pc |-> "arm", at |-> now, evicted |-> evictions + n]
  /\ UNCHANGED <<hold, evictions_seen, up, send, now, drops, history>>

(* Any new eviction arms the latch, or extends it. *)
Arm ==
  /\ io.pc = "arm"
  /\ hold' = IF io.evicted # evictions_seen THEN io.at + HoldTime ELSE hold
  /\ evictions_seen' = io.evicted
  /\ io' = Idle
  /\ UNCHANGED <<evictions, up, send, now, drops, history>>

(* MarkLinkDead: the fd closes and the latch is lifted ... *)
MarkLinkDead ==
  /\ io = Idle /\ up
  /\ up' = FALSE /\ hold' = 0
  /\ io' = [pc |-> "resync"]
  /\ broken' = [s \in Streams |-> FALSE] /\ requested' = FALSE
  /\ resumed_blind' = [s \in Streams |-> FALSE]
  /\ UNCHANGED <<evictions, evictions_seen, send, now, drops, at_open>>

(* ... and the eviction cursor is brought up to date. *)
Resync ==
  /\ io.pc = "resync"
  /\ evictions_seen' = evictions
  /\ io' = Idle
  /\ UNCHANGED <<hold, evictions, up, send, now, drops, history>>

(* Tick: the factory gives a fresh fd. *)
Reopen ==
  /\ io = Idle /\ ~up
  /\ up' = TRUE
  /\ at_open' = evictions
  /\ UNCHANGED <<hold, evictions, evictions_seen, io, send, now, drops, broken,
                 resumed_blind, requested>>

Tick ==
  /\ now < MaxTime
  /\ now' = now + 1
  /\ UNCHANGED <<hold, evictions, evictions_seen, up, io, send, drops, history>>

-----------------------------------------------------------------------------
Init ==
  /\ hold = 0 /\ evictions = 0 /\ evictions_seen = 0
  /\ up = TRUE /\ io = Idle /\ send = NoSend /\ now = 1
  /\ drops = [s \in Streams |-> FALSE]
  /\ broken = [s \in Streams |-> FALSE]
  /\ resumed_blind = [s \in Streams |-> FALSE]
  /\ at_open = 0 /\ requested = FALSE

Sender == Lift \/ DropByRule \/ Enqueue
IoThread == ReadEvictions \/ Arm \/ MarkLinkDead \/ Resync \/ Reopen

Next ==
  \/ \E f \in Frames : LoadHold(f)
  \/ Sender
  \/ SetStreamPolicy
  \/ RequestVideoDegrade
  \/ IoThread
  \/ Tick

Spec == Init /\ [][Next]_vars

(***************************************************************************)
(* Fairness: both threads keep running, time passes, the fd comes back,    *)
(* and the encoder goes on emitting a keyframe every GOP.                  *)
(***************************************************************************)
SendsKeyframe ==
  \E f \in Frames : f.keyframe /\ ~f.no_degrade /\ LoadHold(f)

FairSpec ==
  /\ Spec
  /\ WF_vars(Sender) /\ WF_vars(Arm) /\ WF_vars(Resync) /\ WF_vars(Reopen)
  /\ WF_vars(Tick) /\ SF_vars(SendsKeyframe)

-----------------------------------------------------------------------------
(* Properties. *)

TypeOK ==
  /\ hold \in Nat /\ now \in Nat /\ at_open \in Nat
  /\ evictions \in 0 .. MaxEvictions /\ evictions_seen \in 0 .. MaxEvictions
  /\ up \in BOOLEAN /\ requested \in BOOLEAN
  /\ {drops, broken, resumed_blind} \subseteq [Streams -> BOOLEAN]
  /\ \/ send = NoSend
     \/ send \in [pc : {"lift", "enqueue"}, frame : Frames, hold_ns : Nat]
  /\ \/ io \in {Idle, [pc |-> "resync"]}
     \/ io \in [pc : {"arm"}, at : Nat, evicted : 0 .. MaxEvictions]

(***************************************************************************)
(* "A lost CAS means the I/O thread just re-armed on a fresh eviction -    *)
(* stay latched": on a live link the latch is lifted only once the         *)
(* deadline it holds at that moment has passed, whatever re-armed it       *)
(* between the sender's load and its exchange.                             *)
(***************************************************************************)
LiftedOnlyPastDeadline ==
  [][hold # 0 /\ hold' = 0 /\ up' => now >= hold]_vars

(***************************************************************************)
(* "full rate resumes exactly at a sync point the viewer can decode from"  *)
(* (framed_fd.cc), "never mid-GOP" (test_backpressure.cc), as far as the   *)
(* code keeps it: once the gate has refused a frame of a stream, a P-frame *)
(* of that stream that is not marked no_degrade is queued before a         *)
(* keyframe of it is, on the same link, only if a keyframe of another      *)
(* stream lifted the one latch they share, or a keyframe of its own got    *)
(* past the gate and was dropped by its rule.                              *)
(***************************************************************************)
ResumesAtKeyframe ==
  [][\A s \in Streams :
       (/\ Enqueue /\ send.frame.stream = s
        /\ ~send.frame.keyframe /\ ~send.frame.no_degrade)
       => ~broken[s] \/ resumed_blind[s]]_vars

(***************************************************************************)
(* "a healthy leg resumes at the first keyframe after the hold": no        *)
(* deadline stays latched for ever once it has passed.                     *)
(***************************************************************************)
DegradeEnds == \A h \in 1 .. MaxTime : hold = h ~> hold # h

(***************************************************************************)
(* "A fresh link starts ... undegraded" (framed_fd.cc), "a USB replug must *)
(* not begin at one frame per GOP" (test_backpressure.cc): a link is       *)
(* degraded only by a request, or by an eviction after it was opened.      *)
(***************************************************************************)
FreshLinkUndegraded == hold # 0 => requested \/ evictions > at_open
=============================================================================
