---------------------------- MODULE FramedOutbox ----------------------------
(***************************************************************************)
(* FramedOutbox (cpp/src/transport/framed_outbox.cc): the bounded outbound *)
(* queue of one lane of a streaming sink.  Producer threads Enqueue under  *)
(* mu_; the leg's I/O thread Drains, writing outside mu_.                  *)
(*                                                                         *)
(* One action per critical section or unlocked step.  The queue is a set   *)
(* of entries numbered in push order (see WritePolicy).  The buffer in     *)
(* flight is the set of its frames that are not wholly on the wire;        *)
(* in_flight_off counts the bytes of the first of them that are.           *)
(***************************************************************************)
EXTENDS WritePolicy

CONSTANTS
  Producers,          \* threads that enqueue
  MaxSize,            \* frame sizes are 1 .. MaxSize bytes
  Lanes,              \* the outboxes to consider, see LaneType
  MaxFrames,          \* bound: frames offered in a run
  MaxTime             \* bound: the clock

(***************************************************************************)
(* An outbox is built with a policy.  `reliable` is TRUE for the lane fed  *)
(* by TryEnqueue (with its queued_byte_limit) and drained one frame at a   *)
(* time, FALSE for the lanes fed by Enqueue.                               *)
(***************************************************************************)
LaneType ==
  [policy : Policies, reliable : BOOLEAN, queued_byte_limit : Nat]

ASSUME OutboxAssumption ==
  /\ MaxSize \in Nat \ {0}
  /\ Lanes \subseteq LaneType
  /\ \A l \in Lanes :                \* as drop_on_fail builds it
       l.policy.drop = "DropOnFail" => l.policy.protect_below_bytes = 0
  /\ MaxFrames \in Nat /\ MaxTime \in Nat

VARIABLES
  lane,                        \* what this outbox was built with
  queue, queue_bytes,          \* guarded by mu_
  in_flight, in_flight_off,    \* private to the I/O thread
  dropped,                     \* dropped_
  pending,                     \* per producer: the frame it is pushing
  pc,                          \* where the I/O thread is in Drain
  now,                         \* now_(), the monotonic clock
  next,                        \* frames offered so far
  sent, shed, gone             \* history: entries written, shed by the
                               \* policy (counted), discarded or refused

vars == <<lane, queue, queue_bytes, in_flight, in_flight_off, dropped,
          pending, pc, now, next, sent, shed, gone>>

Policy == lane.policy
Reliable == lane.reliable
QueuedByteLimit == lane.queued_byte_limit

Sizes == 1 .. MaxSize

Entries == [id : Nat, size : Sizes, keyframe : BOOLEAN, at : Nat]

NoFrame == [id |-> -1, size |-> 0, keyframe |-> FALSE, at |-> -1]

-----------------------------------------------------------------------------
(* Producer side. *)

(* Enqueue and TryEnqueue read the clock before they take mu_. *)
ReadClock(p, size, keyframe) ==
  /\ pending[p] = NoFrame
  /\ next + Cardinality({r \in Producers : pending[r] # NoFrame}) < MaxFrames
  /\ ~(Reliable /\ keyframe)
  /\ pending' = [pending EXCEPT
       ![p] = [id |-> -1, size |-> size, keyframe |-> keyframe, at |-> now]]
  /\ UNCHANGED <<lane, queue, queue_bytes, in_flight, in_flight_off, dropped,
                  pc, now, next, sent, shed, gone>>

(* The entry p is pushing, numbered by the order in which mu_ is taken;    *)
(* the mutant never numbers it.                                            *)
Unnumbered(p) == pending[p]

Entry(p) == [pending[p] EXCEPT !.id = next]

Enqueue(p) ==
  /\ pending[p] # NoFrame /\ ~Reliable
  /\ LET e == Entry(p)
         evicted == Evicted(Policy, queue, queue_bytes, e.size)
     IN  IF Admits(Policy, queue)
         THEN /\ queue' = (queue \ evicted) \cup {e}
              /\ queue_bytes' = queue_bytes - Bytes(evicted) + e.size
              /\ dropped' = dropped + Cardinality(evicted)
              /\ shed' = shed \cup evicted
         ELSE /\ dropped' = dropped + 1
              /\ shed' = shed \cup {e}
              /\ UNCHANGED <<queue, queue_bytes>>
  /\ next' = next + 1
  /\ pending' = [pending EXCEPT ![p] = NoFrame]
  /\ UNCHANGED <<lane, in_flight, in_flight_off, pc, now, sent, gone>>

(* TryEnqueue's room test. *)
Fits(size) ==
  size <= QueuedByteLimit /\ queue_bytes <= QueuedByteLimit - size

(* Bounded and non-shedding: a full lane refuses the new frame, uncounted. *)
TryEnqueue(p) ==
  /\ pending[p] # NoFrame /\ Reliable
  /\ LET e == Entry(p)
     IN  IF Fits(e.size)
         THEN /\ queue' = queue \cup {e}
              /\ queue_bytes' = queue_bytes + e.size
              /\ UNCHANGED gone
         ELSE /\ gone' = gone \cup {e}
              /\ UNCHANGED <<queue, queue_bytes>>
  /\ next' = next + 1
  /\ pending' = [pending EXCEPT ![p] = NoFrame]
  /\ UNCHANGED <<lane, in_flight, in_flight_off, dropped, pc, now, sent,
                  shed>>

(* Any thread; leaves committed bytes intact. *)
DiscardQueued ==
  /\ Reliable
  /\ queue' = {} /\ queue_bytes' = 0
  /\ gone' = gone \cup queue
  /\ UNCHANGED <<lane, in_flight, in_flight_off, dropped, pending, pc, now,
                  next, sent, shed>>

-----------------------------------------------------------------------------
(* I/O thread: Drain, phase by phase. *)

InFlightActive == in_flight # {}

(***************************************************************************)
(* wr(): the link takes some prefix of what is left of the buffer, which   *)
(* ends `off` bytes into the first frame it does not complete.             *)
(***************************************************************************)
Write(partial, whole) ==
  \E done \in SUBSET in_flight, off \in 0 .. MaxSize :
    LET rest == in_flight \ done
    IN  /\ \A e \in done, g \in rest : e.id < g.id
        /\ \A e \in Front(rest) : off < e.size
        /\ rest = {} => off = 0
        /\ done = {} => off >= in_flight_off
        /\ in_flight' = rest
        /\ in_flight_off' = off
        /\ sent' = sent \cup done
        /\ pc' = IF rest = {} THEN whole ELSE partial

(* Mutant: no early return on a partial write. *)
DrainInFlightNoReturn ==
  /\ pc = "idle"
  /\ IF InFlightActive
     THEN Write("locked", "locked")
     ELSE pc' = "locked" /\ UNCHANGED <<in_flight, in_flight_off, sent>>
  /\ UNCHANGED <<lane, queue, queue_bytes, dropped, pending, now, next, shed,
                  gone>>

(* Phase 1: finish the buffer in flight; one_frame stops there. *)
DrainInFlight ==
  /\ pc = "idle"
  /\ IF InFlightActive
     THEN Write("idle", IF Reliable THEN "idle" ELSE "locked")
     ELSE pc' = "locked" /\ UNCHANGED <<in_flight, in_flight_off, sent>>
  /\ UNCHANGED <<lane, queue, queue_bytes, dropped, pending, now, next, shed,
                  gone>>

(* Aged out: neither a sync point nor a protected small frame. *)
Stale ==
  {e \in queue :
     /\ Policy.drop = "StaleEviction" /\ Policy.max_age > 0
     /\ now - e.at > Policy.max_age
     /\ ~e.keyframe
     /\ ~(Policy.protect_below_bytes > 0 /\ e.size < Policy.protect_below_bytes)}

(* The entries PromoteToInFlight commits out of queue q. *)
Coalesces(q) == Policy.drain = "BatchAll" /\ Cardinality(q) > 1

PromotedIfMany(q) == IF Coalesces(q) THEN q ELSE {}           \* mutant

Promoted(q) == IF Coalesces(q) THEN q ELSE Front(q)

(* What the age sweep adds to dropped_; once it counted nothing. *)
AgeDropsUncounted == 0

AgeDrops == Cardinality(Stale)

(* queue_bytes_ once `front` is promoted out of `kept`. *)
BytesAfter(kept, front) ==
  IF Coalesces(kept) THEN 0 ELSE queue_bytes - Bytes(Stale) - Bytes(front)

(* Phases 2 and 3, under mu_: age-evict, then promote. *)
EvictAndPromote ==
  /\ pc = "locked"
  /\ LET kept == queue \ Stale
         front == Promoted(kept)
     IN  /\ dropped' = dropped + AgeDrops
         /\ shed' = shed \cup Stale
         /\ queue' = kept \ front
         /\ queue_bytes' = BytesAfter(kept, front)
         /\ in_flight' = front
         /\ pc' = IF front = {} THEN "idle" ELSE "tail"
  /\ UNCHANGED <<lane, in_flight_off, pending, now, next, sent, gone>>

(* The trailing best-effort write of the buffer just promoted. *)
DrainTail ==
  /\ pc = "tail"
  /\ Write("idle", "idle")
  /\ UNCHANGED <<lane, queue, queue_bytes, dropped, pending, now, next, shed,
                  gone>>

(***************************************************************************)
(* wr() reports the link dead, or a read does: Drain returns and the owner *)
(* Clears every lane before the link is reopened.                          *)
(***************************************************************************)
Clear ==
  /\ pc \in {"idle", "tail"}
  /\ queue' = {} /\ queue_bytes' = 0
  /\ in_flight' = {} /\ in_flight_off' = 0
  /\ gone' = gone \cup queue \cup in_flight
  /\ pc' = "idle"
  /\ UNCHANGED <<lane, dropped, pending, now, next, sent, shed>>

(* Time passes; it matters only to a policy with an age bound. *)
Tick ==
  /\ now < MaxTime /\ Policy.max_age > 0
  /\ now' = now + 1
  /\ UNCHANGED <<lane, queue, queue_bytes, in_flight, in_flight_off, dropped,
                  pending, pc, next, sent, shed, gone>>

-----------------------------------------------------------------------------
Init ==
  /\ lane \in Lanes
  /\ queue = {} /\ queue_bytes = 0
  /\ in_flight = {} /\ in_flight_off = 0
  /\ dropped = 0
  /\ pending = [p \in Producers |-> NoFrame]
  /\ pc = "idle" /\ now = 0 /\ next = 0
  /\ sent = {} /\ shed = {} /\ gone = {}

Producer(p) ==
  \/ \E size \in Sizes, keyframe \in BOOLEAN : ReadClock(p, size, keyframe)
  \/ Enqueue(p)
  \/ TryEnqueue(p)

Drain == DrainInFlight \/ EvictAndPromote \/ DrainTail

Next ==
  \/ \E p \in Producers : Producer(p)
  \/ DiscardQueued
  \/ Drain
  \/ Clear
  \/ Tick

Spec == Init /\ [][Next]_vars

(***************************************************************************)
(* Fairness.  The I/O thread's poll loop returns at least once a tick and  *)
(* Pumps, so a Drain step that can be taken is taken; and a peer that      *)
(* keeps reading lets the buffer in flight finish.                         *)
(***************************************************************************)
WriteCompletes ==
  (DrainInFlight \/ DrainTail) /\ in_flight # {} /\ in_flight' = {}

FairSpec == Spec /\ WF_vars(Drain) /\ WF_vars(WriteCompletes)

-----------------------------------------------------------------------------
(* Properties. *)

(***************************************************************************)
(* Types.  queue_bytes is left to Bounded, which says which number it is.  *)
(***************************************************************************)
TypeOK ==
  /\ lane \in Lanes
  /\ queue \subseteq Entries /\ IsFiniteSet(queue)
  /\ in_flight \subseteq Entries /\ in_flight_off \in Nat
  /\ dropped \in Nat
  /\ pending \in [Producers -> {NoFrame} \cup
       [id : {-1}, size : Sizes, keyframe : BOOLEAN, at : Nat]]
  /\ pc \in {"idle", "locked", "tail"}
  /\ now \in Nat /\ next \in Nat
  /\ sent \subseteq Entries /\ gone \subseteq Entries
  /\ shed \subseteq Entries /\ IsFiniteSet(shed)

(***************************************************************************)
(* The queue honours the bound its policy names, measured on a byte total  *)
(* that never drifts from the bytes it holds: five statements maintain     *)
(* queue_bytes_ (push, bound eviction, age eviction, promotion, clear),    *)
(* and an unsigned total that underflows evicts everything from then on.   *)
(* A frame larger than max_bytes is still queued, alone, and so is one on  *)
(* a lane of depth 0 (ApplyDropBound stops at the empty queue).            *)
(***************************************************************************)
Bounded ==
  /\ queue_bytes = Bytes(queue)
  /\ (~Reliable /\ Policy.drop \in {"DropOldest", "DropOnFail"}) =>
       \/ Cardinality(queue) <= Policy.max_depth
       \/ Policy.drop = "DropOldest" /\ Cardinality(queue) = 1
  /\ (~Reliable /\ Policy.drop = "StaleEviction") =>
       Bytes(queue) <= Policy.max_bytes \/ Cardinality(queue) = 1
  /\ Reliable => Bytes(queue) <= QueuedByteLimit

(***************************************************************************)
(* "the counter has to see every drop": dropped_ is the number of distinct *)
(* frames the policy shed, by whichever of the three paths.                *)
(***************************************************************************)
EveryShedCounted == dropped = Cardinality(shed)

(***************************************************************************)
(* What may be shed.  A small frame (below protect_below_bytes) is shed    *)
(* only when no bulk frame that was queued with it is left to shed in its  *)
(* place; and the age sweep never costs the decoder a sync point: only the *)
(* byte or depth bound, at a push, ever sheds a queued keyframe.           *)
(***************************************************************************)
ShedOrder ==
  [][\A e \in shed' \ shed :
       /\ e.size < Policy.protect_below_bytes =>
            \A g \in queue \cap queue' : ~IsBulk(Policy, g)
       /\ e.keyframe => next' = next + 1]_vars

(***************************************************************************)
(* The wire sees frames in the order mu_ admitted them, each once: what is *)
(* written precedes what is in flight, which precedes what is queued, and  *)
(* a shed frame is nowhere else.                                           *)
(***************************************************************************)
Accepted == queue \cup in_flight \cup sent \cup shed \cup gone

InOrder ==
  /\ \A e \in Accepted : e.id < next
  /\ \A e, g \in Accepted : e.id = g.id => e = g
  /\ \A e \in in_flight, g \in queue : e.id < g.id
  /\ \A e \in sent, g \in in_flight \cup queue : e.id < g.id
  /\ shed \cap (queue \cup in_flight \cup sent) = {}
  /\ pc = "locked" => in_flight = {}

(***************************************************************************)
(* The outbox is a lossy FIFO whose committed frames are never shed: the   *)
(* correctness property the header states for the in-flight buffer.        *)
(***************************************************************************)
Ids(S) == {e.id : e \in S}

Fifo == INSTANCE LossyFifo WITH
  waiting <- Ids(queue), committed <- Ids(in_flight),
  delivered <- Ids(sent), lost <- Ids(shed \cup gone)

ImplementsLossyFifo == Fifo!Spec

(***************************************************************************)
(* With a peer that reads, a queued frame is written, shed or discarded:   *)
(* no frame is parked in the outbox for ever.                              *)
(***************************************************************************)
NoFrameParked ==
  \A i \in 0 .. MaxFrames - 1 :
    i \in Ids(queue) ~> i \in Ids(sent \cup shed \cup gone)
=============================================================================
