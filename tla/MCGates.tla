------------------------------- MODULE MCGates -------------------------------
(***************************************************************************)
(* The gates EnqueueOne puts a message through, for TLC: the               *)
(* keyframes-only gate for video (DegradeGate) and the rate cap for        *)
(* everything else (RateGate).                                             *)
(*                                                                         *)
(* No message meets both (the cap is not for bulk) and they share no       *)
(* variable, so one is explored with the other at rest.                    *)
(***************************************************************************)
EXTENDS DegradeGate, FiniteSetTheorems, TLAPS

CONSTANTS RateStreams, MaxGap, EpochReset, MaxCapture, MaxMessages

ASSUME RateAssumption ==
  /\ MaxGap \in Nat /\ EpochReset \in Nat
  /\ MaxCapture \in Nat /\ MaxMessages \in Nat

VARIABLES
  focus,     \* the gate whose behaviour this is
  policy, grid, sent, passed, passes, newest

Rate == INSTANCE RateGate WITH Streams <- RateStreams, MaxTime <- MaxCapture

rate == <<policy, grid, sent, passed, passes, newest>>

MCInit == Init /\ Rate!Init /\ focus \in {"degrade", "rate"}

MCNext ==
  \/ focus = "degrade" /\ Next /\ UNCHANGED <<rate, focus>>
  \/ focus = "rate" /\ Rate!Next /\ UNCHANGED <<vars, focus>>

(* The fairness of DegradeGate's FairSpec. *)
MCSpec ==
  /\ MCInit /\ [][MCNext]_<<vars, rate, focus>>
  /\ WF_vars(focus = "degrade" /\ Sender)
  /\ WF_vars(focus = "degrade" /\ Arm)
  /\ WF_vars(focus = "degrade" /\ Resync)
  /\ WF_vars(focus = "degrade" /\ Reopen)
  /\ WF_vars(focus = "degrade" /\ Tick)
  /\ SF_vars(focus = "degrade" /\ SendsKeyframe)

(* Under a cap no two messages of an epoch pass in one slot, however often *)
(* an identical policy is installed again (SetStreamPolicy).               *)
CapHolds == Rate!CapHolds

(* No stream is muted by a rule, a changed rule or a stepped clock         *)
(* (PassesRateGate).                                                       *)
NotMuted == Rate!NotMuted
(* A cap holds what it says, and mutes nothing (RateGate).                 *)
CapIsFair == CapHolds /\ NotMuted

-----------------------------------------------------------------------------
(***************************************************************************)
(* For every set of streams, hold time and bound, the congestion latch of  *)
(* a leg is lifted only past its deadline, and full rate resumes for a     *)
(* stream only at a keyframe of it, unless another stream's lifted the     *)
(* latch or its own rule dropped one.  For every gap and epoch reset, the  *)
(* rate cap of a leg caps and mutes nothing.                               *)
(***************************************************************************)

(* Init establishes the types. *)
LEMMA InitType == Init => TypeOK
<1> SUFFICES ASSUME Init PROVE TypeOK
  OBVIOUS
<1>1. {drops, broken, resumed_blind} \subseteq [Streams -> BOOLEAN]
  BY DEF Init
<1>2. evictions \in 0 .. MaxEvictions /\ evictions_seen \in 0 .. MaxEvictions
  BY GateAssumption DEF Init
<1> QED BY <1>1, <1>2 DEF Init, TypeOK

(* A step of the sender or of the owner keeps them. *)
LEMMA SenderType ==
  ASSUME TypeOK,
         \/ \E f \in Frames : LoadHold(f)
         \/ Lift \/ DropByRule \/ Enqueue \/ SetStreamPolicy \/ RequestVideoDegrade
  PROVE  TypeOK'
<1> USE GateAssumption DEF TypeOK
<1>1. ASSUME NEW f \in Frames, LoadHold(f) PROVE TypeOK'
  <2>1. CASE GateRefuses(f)
    <3>1. broken' = [broken EXCEPT ![f.stream] = TRUE] /\ f.stream \in Streams
      BY <1>1, <2>1 DEF LoadHold, Frames
    <3>2. broken' \in [Streams -> BOOLEAN]
      BY <3>1
    <3> QED BY <1>1, <2>1, <3>2 DEF LoadHold
  <2>2. CASE ~GateRefuses(f)
    <3>1. send' \in [pc : {"lift", "enqueue"}, frame : Frames, hold_ns : Nat]
      BY <1>1, <2>2 DEF LoadHold
    <3> QED BY <1>1, <2>2, <3>1 DEF LoadHold
  <2> QED BY <2>1, <2>2
<1>2. CASE Lift
  <2>1. send \in [pc : {"lift", "enqueue"}, frame : Frames, hold_ns : Nat]
    BY <1>2 DEF Lift, NoSend
  <2>2. send' \in [pc : {"lift", "enqueue"}, frame : Frames, hold_ns : Nat]
    BY <1>2, <2>1 DEF Lift
  <2>3. resumed_blind' \in [Streams -> BOOLEAN]
    BY <1>2 DEF Lift
  <2> QED BY <1>2, <2>2, <2>3 DEF Lift, LiftedHold
<1>3. CASE DropByRule \/ Enqueue
  <2>1. send.frame.stream \in Streams
    BY <1>3 DEF DropByRule, Enqueue, NoSend, Frames
  <2>2. evictions' \in 0 .. MaxEvictions
    BY <1>3 DEF DropByRule, Enqueue
  <2>3. broken' \in [Streams -> BOOLEAN] /\ resumed_blind' \in [Streams -> BOOLEAN]
    BY <1>3, <2>1 DEF DropByRule, Enqueue
  <2> QED BY <1>3, <2>2, <2>3 DEF DropByRule, Enqueue
<1>4. CASE RequestVideoDegrade
  BY <1>4 DEF RequestVideoDegrade
<1>5. CASE SetStreamPolicy
  BY <1>5 DEF SetStreamPolicy, history
<1> QED BY <1>1, <1>2, <1>3, <1>4, <1>5

(* A step of the I/O thread or of the clock keeps them. *)
LEMMA IoType ==
  ASSUME TypeOK, IoThread \/ Tick
  PROVE  TypeOK'
<1> USE GateAssumption DEF TypeOK
<1>1. CASE ReadEvictions
  BY <1>1 DEF ReadEvictions, history
<1>2. CASE Arm
  BY <1>2 DEF Arm, Idle, history
<1>3. CASE MarkLinkDead
  BY <1>3 DEF MarkLinkDead
<1>4. CASE Resync
  BY <1>4 DEF Resync, history
<1>5. CASE Reopen
  BY <1>5 DEF Reopen
<1>6. CASE Tick
  BY <1>6 DEF Tick, history
<1> QED BY <1>1, <1>2, <1>3, <1>4, <1>5, <1>6 DEF IoThread

(* Every step keeps the types. *)
LEMMA NextType == TypeOK /\ [Next]_vars => TypeOK'
<1> SUFFICES ASSUME TypeOK, [Next]_vars PROVE TypeOK'
  OBVIOUS
<1>1. CASE UNCHANGED vars
  BY <1>1 DEF vars, history, TypeOK
<1> QED BY <1>1, SenderType, IoType DEF Next, Sender

(* Types of the gate, for every set of streams. *)
THEOREM GateTypes == Spec => []TypeOK
BY InitType, NextType, PTL DEF Spec

-----------------------------------------------------------------------------
(***************************************************************************)
(* EnqueueOne's compare_exchange: on a live link the latch is lifted only  *)
(* once the deadline it holds has passed, however the I/O thread and the   *)
(* owner re-arm it between the sender's load and its exchange.             *)
(***************************************************************************)
THEOREM LiftIsTimely == Spec => LiftedOnlyPastDeadline
<1>1. TypeOK /\ [Next]_vars =>
        [hold # 0 /\ hold' = 0 /\ up' => now >= hold]_vars
  <2> SUFFICES ASSUME TypeOK, Next, hold # 0, hold' = 0, up'
               PROVE  now >= hold
    BY DEF vars
  <2> USE GateAssumption DEF TypeOK
  <2>1. ASSUME NEW f \in Frames, LoadHold(f) PROVE FALSE
    BY <2>1 DEF LoadHold
  <2>2. CASE Lift
    BY <2>2 DEF Lift, LiftedHold, NoSend
  <2>3. CASE DropByRule \/ Enqueue \/ SetStreamPolicy
    BY <2>3 DEF DropByRule, Enqueue, SetStreamPolicy
  <2>4. CASE RequestVideoDegrade
    BY <2>4 DEF RequestVideoDegrade
  <2>5. CASE Arm
    BY <2>5 DEF Arm, Idle
  <2>6. CASE ReadEvictions \/ MarkLinkDead \/ Resync \/ Reopen \/ Tick
    BY <2>6 DEF ReadEvictions, MarkLinkDead, Resync, Reopen, Tick
  <2> QED BY <2>1, <2>2, <2>3, <2>4, <2>5, <2>6 DEF Next, Sender, IoThread
<1> QED BY <1>1, InitType, NextType, PTL DEF Spec, LiftedOnlyPastDeadline

-----------------------------------------------------------------------------
(***************************************************************************)
(* Why full rate resumes at a keyframe.  While a stream is broken the      *)
(* latch is set, or it was resumed blind, or the keyframe of its own that  *)
(* lifted the latch is on its way to the outbox; and a P-frame already     *)
(* past the gate belongs to a stream that is not broken or was resumed     *)
(* blind, since the gate refuses nothing while a Send is in progress.      *)
(***************************************************************************)
BrokenIsHeld ==
  \A s \in Streams : (broken[s] /\ ~resumed_blind[s] /\ hold = 0) =>
    send # NoSend /\ send.pc = "enqueue" /\ send.frame.keyframe /\ send.frame.stream = s

PassingIsWhole ==
  send # NoSend =>
    \/ send.frame.keyframe
    \/ /\ send.pc = "enqueue"
       /\ \/ send.frame.no_degrade
          \/ ~broken[send.frame.stream] \/ resumed_blind[send.frame.stream]

Decodable == TypeOK /\ BrokenIsHeld /\ PassingIsWhole

Sends == [pc : {"lift", "enqueue"}, frame : Frames, hold_ns : Nat]

(* A keyframe's exchange resumes its own stream at it, every other blind.  *)
LEMMA LiftDecodable ==
  ASSUME Decodable, TypeOK', Lift
  PROVE  Decodable'
<1>1. send \in Sends /\ send.pc = "lift" /\ send # NoSend
  BY DEF Lift, NoSend, Decodable, TypeOK, Sends
<1>2. /\ send' = [send EXCEPT !.pc = "enqueue"] /\ broken' = broken
      /\ hold' = LiftedHold(send.hold_ns)
  BY DEF Lift
<1>3. send'.pc = "enqueue" /\ send'.frame = send.frame
  BY <1>1, <1>2 DEF Sends
<1>4. send' # NoSend
  BY <1>3 DEF NoSend
<1>5. send.frame.keyframe
  BY <1>1 DEF Decodable, PassingIsWhole
<1>6. ASSUME NEW s \in Streams, broken'[s], ~resumed_blind'[s], hold' = 0
      PROVE  send.frame.stream = s
  <2>1. resumed_blind'[s] = (resumed_blind[s]
          \/ (broken[s] /\ s # send.frame.stream /\ hold # 0 /\ hold' = 0))
    BY DEF Lift
  <2>2. broken[s] /\ ~resumed_blind[s] /\ (s = send.frame.stream \/ hold = 0)
    BY <1>2, <1>6, <2>1
  <2>3. CASE hold = 0
    BY <1>1, <2>2, <2>3 DEF Decodable, BrokenIsHeld
  <2> QED BY <2>2, <2>3
<1>7. BrokenIsHeld'
  BY <1>3, <1>4, <1>5, <1>6 DEF BrokenIsHeld
<1>8. PassingIsWhole'
  BY <1>3, <1>5 DEF PassingIsWhole
<1> QED BY <1>7, <1>8 DEF Decodable

(* A frame that leaves the gate, for its rule's bin or for the outbox.     *)
LEMMA SentDecodable ==
  ASSUME Decodable, TypeOK', DropByRule \/ Enqueue
  PROVE  Decodable'
<1>1. send' = NoSend /\ hold' = hold /\ send \in Sends
  BY DEF DropByRule, Enqueue, NoSend, Decodable, TypeOK, Sends
<1>2. send.frame.stream \in Streams
  BY <1>1 DEF Sends, Frames
<1>3. PassingIsWhole'
  BY <1>1 DEF PassingIsWhole
<1>4. ASSUME NEW s \in Streams, broken'[s], ~resumed_blind'[s], hold = 0 PROVE FALSE
  <2>1. CASE s = send.frame.stream /\ send.frame.keyframe
    BY <1>2, <1>4, <2>1 DEF DropByRule, Enqueue, Decodable, TypeOK
  <2>2. CASE ~(s = send.frame.stream /\ send.frame.keyframe)
    <3>1. broken[s] /\ ~resumed_blind[s]
      BY <1>2, <1>4, <2>2 DEF DropByRule, Enqueue, Decodable, TypeOK
    <3> QED BY <1>4, <2>2, <3>1 DEF Decodable, BrokenIsHeld
  <2> QED BY <2>1, <2>2
<1>5. BrokenIsHeld'
  BY <1>1, <1>4 DEF BrokenIsHeld
<1> QED BY <1>3, <1>5 DEF Decodable

(* A frame at the gate. *)
LEMMA LoadDecodable ==
  ASSUME Decodable, TypeOK', NEW f \in Frames, LoadHold(f)
  PROVE  Decodable'
<1>0. f.stream \in Streams /\ send = NoSend /\ UNCHANGED <<hold, resumed_blind>>
  BY DEF Frames, LoadHold
<1>1. CASE GateRefuses(f)
  BY <1>0, <1>1 DEF Decodable, TypeOK, BrokenIsHeld, PassingIsWhole, LoadHold, GateRefuses
<1>2. CASE ~GateRefuses(f)
  <2>1. /\ send' = [pc |-> IF hold # 0 /\ ~f.no_degrade THEN "lift" ELSE "enqueue",
                    frame |-> f, hold_ns |-> hold]
        /\ broken' = broken
    BY <1>2 DEF LoadHold
  <2>2. \A s \in Streams : broken[s] /\ ~resumed_blind[s] => hold # 0
    BY <1>0 DEF Decodable, BrokenIsHeld
  <2>3. BrokenIsHeld'
    BY <1>0, <2>1, <2>2 DEF BrokenIsHeld
  <2>4. PassingIsWhole'
    BY <1>0, <1>2, <2>1, <2>2 DEF PassingIsWhole, GateRefuses
  <2> QED BY <2>3, <2>4 DEF Decodable
<1> QED BY <1>1, <1>2

(* Every step keeps BrokenIsHeld and PassingIsWhole. *)
LEMMA NextDecodable ==
  ASSUME Decodable, [Next]_vars
  PROVE  Decodable'
<1> USE GateAssumption
<1>0. TypeOK'
  BY NextType DEF Decodable
<1>1. CASE \E f \in Frames : LoadHold(f)
  BY <1>0, <1>1, LoadDecodable
<1>2. CASE Sender
  BY <1>0, <1>2, LiftDecodable, SentDecodable DEF Sender
<1>3. CASE SetStreamPolicy
  BY <1>0, <1>3 DEF SetStreamPolicy, history, Decodable, BrokenIsHeld, PassingIsWhole
<1>4. CASE RequestVideoDegrade
  BY <1>0, <1>4 DEF RequestVideoDegrade, Decodable, TypeOK, BrokenIsHeld, PassingIsWhole
<1>5. CASE Arm
  BY <1>0, <1>5 DEF Arm, Idle, history, Decodable, TypeOK, BrokenIsHeld, PassingIsWhole
<1>6. CASE ReadEvictions \/ Resync \/ Reopen \/ Tick \/ UNCHANGED vars
  BY <1>0, <1>6 DEF ReadEvictions, Resync, Reopen, Tick, vars, history, Decodable,
                   BrokenIsHeld, PassingIsWhole
<1>7. CASE MarkLinkDead
  <2>1. UNCHANGED send /\ \A s \in Streams : ~broken'[s]
    BY <1>7 DEF MarkLinkDead
  <2>2. PassingIsWhole'
    <3>1. CASE send = NoSend
      BY <2>1, <3>1 DEF PassingIsWhole
    <3>2. CASE send # NoSend
      <4>1. send.frame.stream \in Streams
        BY <3>2 DEF Decodable, TypeOK, Frames
      <4> QED BY <2>1, <4>1 DEF Decodable, PassingIsWhole
    <3> QED BY <3>1, <3>2
  <2> QED BY <1>0, <2>1, <2>2 DEF Decodable, BrokenIsHeld
<1> QED BY <1>1, <1>2, <1>3, <1>4, <1>5, <1>6, <1>7 DEF Next, IoThread

(***************************************************************************)
(* For every set of streams, once the gate has refused a frame of one no   *)
(* P-frame of it is queued before a keyframe of it is, unless it was       *)
(* resumed blind (EnqueueOne, SetStreamPolicy, MarkLinkDead).              *)
(***************************************************************************)
THEOREM ResumesAtSyncPoint == Spec => ResumesAtKeyframe
<1>1. Init => Decodable
  BY InitType DEF Init, Decodable, BrokenIsHeld, PassingIsWhole
<1>2. Decodable /\ [Next]_vars => Decodable'
  BY NextDecodable
<1>3. Decodable /\ [Next]_vars =>
        [\A s \in Streams :
           (/\ Enqueue /\ send.frame.stream = s
            /\ ~send.frame.keyframe /\ ~send.frame.no_degrade)
           => ~broken[s] \/ resumed_blind[s]]_vars
  <2>1. Enqueue => send # NoSend
    BY DEF Enqueue, NoSend
  <2> QED BY <2>1 DEF Decodable, PassingIsWhole
<1> QED BY <1>1, <1>2, <1>3, PTL DEF Spec, ResumesAtKeyframe

-----------------------------------------------------------------------------
(***************************************************************************)
(* Why the cap is fair.  Once a message has passed under a gap, the grid   *)
(* is the end of that message's own slot, wherever the stepping started,   *)
(* and no message of the epoch passed in a later slot.                     *)
(***************************************************************************)
Slotted(gap, end, last, times, count) ==
  IF last = 0 THEN end = 0 /\ times = {} /\ count = 0
  ELSE /\ gap # 0
       /\ end = gap * (last \div gap + 1)
       /\ \A t \in times : t \div gap <= last \div gap
       /\ count = Cardinality({t \div gap : t \in times})

RateTypes ==
  /\ policy \in [RateStreams -> Rate!Rules]
  /\ grid \in [RateStreams -> Nat]
  /\ newest \in [RateStreams -> Nat]
  /\ passes \in [RateStreams -> Nat]
  /\ passed \in [RateStreams -> SUBSET Nat]

RateIInv ==
  /\ RateTypes
  /\ \A s \in RateStreams :
       Slotted(policy[s].min_gap_us, grid[s], newest[s], passed[s], passes[s])

(* A time's slot is the one it lies in, and the only one. *)
LEMMA SlotBounds ==
  ASSUME NEW t \in Nat, NEW gap \in Nat \ {0}
  PROVE  /\ t \div gap \in Nat
         /\ gap * (t \div gap) <= t
         /\ t < gap * (t \div gap + 1)
<1>1. t \div gap \in Int
  OBVIOUS
<1>2. t = gap * (t \div gap) + (t % gap) /\ t % gap \in 0 .. gap - 1
  OBVIOUS
<1> QED BY <1>1, <1>2

(* A stamp lies in one slot of its gap only.                               *)
LEMMA SlotUnique ==
  ASSUME NEW t \in Nat, NEW gap \in Nat \ {0}, NEW k \in Nat,
         gap * k <= t, t < gap * (k + 1)
  PROVE  t \div gap = k
OBVIOUS

(* A slot later in the gap holds later stamps.                             *)
LEMMA SlotsOrdered ==
  ASSUME NEW gap \in Nat \ {0}, NEW k \in Int, NEW m \in Int
  PROVE  gap * k < gap * (m + 1) => k <= m
OBVIOUS

(* Stepping whole periods from the end of a slot ends in the message's. *)
LEMMA SteppedIsSlotEnd ==
  ASSUME NEW t \in Nat, NEW gap \in Nat \ {0}, NEW k \in Nat, t >= gap * k
  PROVE  gap * k + gap * (1 + (t - gap * k) \div gap) = gap * (t \div gap + 1)
<1> DEFINE d == t - gap * k
           q == d \div gap
<1>1. d \in Nat
  BY SMT
<1>2. q \in Nat /\ gap * q <= d /\ d < gap * (q + 1)
  BY <1>1, SlotBounds
<1>3. k + q \in Nat /\ gap * (k + q) = gap * k + gap * q
      /\ gap * (k + q + 1) = gap * k + gap * (q + 1)
  BY <1>2
<1>4. gap * k \in Int /\ gap * q \in Int /\ gap * (q + 1) \in Int
  BY <1>2
<1>5. gap * (k + q) <= t /\ t < gap * (k + q + 1)
  <2> HIDE DEF q
  <2> QED BY <1>2, <1>3, <1>4
<1>6. t \div gap = k + q
  <2> HIDE DEF q
  <2> QED BY <1>3, <1>5, SlotUnique
<1> HIDE DEF q
<1>7. gap * k + gap * (1 + q) = gap * (k + q + 1)
  BY <1>2
<1> QED BY <1>6, <1>7 DEF q

(* The slots of a set with one more time. *)
LEMMA SlotAdded ==
  ASSUME NEW times \in SUBSET Nat, NEW gap \in Nat \ {0}, NEW t \in Nat,
         NEW m \in Nat,
         \A u \in times : u \div gap <= m, m < t \div gap
  PROVE  /\ \A u \in times \cup {t} : u \div gap <= t \div gap
         /\ Cardinality({u \div gap : u \in times \cup {t}})
              = Cardinality({u \div gap : u \in times}) + 1
         /\ Cardinality({u \div gap : u \in times}) \in Nat
<1> DEFINE slots == {u \div gap : u \in times}
<1>1. slots \in SUBSET (0 .. m)
  BY SlotBounds
<1>2. IsFiniteSet(slots)
  <2>1. 0 \in Int /\ m \in Int
    OBVIOUS
  <2>2. IsFiniteSet(0 .. m)
    BY <2>1, FS_Interval, Zenon
  <2> QED BY <1>1, <2>2, FS_Subset, Zenon
<1>3. {u \div gap : u \in times \cup {t}} = slots \cup {t \div gap}
  OBVIOUS
<1>4. t \div gap \in Nat /\ t \div gap \notin slots
  BY <1>1, SlotBounds
<1>5. Cardinality(slots \cup {t \div gap}) = Cardinality(slots) + 1
  BY <1>2, <1>4, FS_AddElement
<1>6. \A u \in times : u \div gap \in Nat
  BY SlotBounds
<1>7. \A u \in times \cup {t} : u \div gap <= t \div gap
  BY <1>4, <1>6
<1>8. Cardinality(slots) \in Nat
  BY <1>2, FS_CardinalityType, Zenon
<1> QED BY <1>3, <1>5, <1>7, <1>8

(* A message that passed is alone in its slot of its epoch                 *)
(* (RateGate.allow).                                                       *)
LEMMA SlotAlone ==
  ASSUME NEW t \in Nat, NEW gap \in Nat \ {0}
  PROVE  Cardinality({u \div gap : u \in {t}}) = 1
<1>1. {u \div gap : u \in {t}} = {t \div gap}
  OBVIOUS
<1> QED BY <1>1, FS_Singleton

(* A message that passes leaves the grid at the end of its slot. *)
LEMMA PassKeepsSlots ==
  ASSUME NEW gap \in Nat \ {0}, NEW end \in Nat, NEW last \in Nat,
         NEW times \in SUBSET Nat, NEW count \in Nat, NEW t \in Nat \ {0},
         Slotted(gap, end, last, times, count), EpochReset \in Nat,
         t >= end \/ end - gap - t > EpochReset
  PROVE  LET from == IF t < end THEN 0 ELSE end
             fresh == last - t > EpochReset
         IN  /\ Slotted(gap, from + gap * (1 + (t - from) \div gap), t,
                        IF fresh THEN {t} ELSE times \cup {t},
                        IF fresh THEN 1 ELSE count + 1)
             /\ from + gap * (1 + (t - from) \div gap) \in Nat
<1> DEFINE from == IF t < end THEN 0 ELSE end
           fresh == last - t > EpochReset
           m == last \div gap
<1>0. t \div gap \in Nat /\ m \in Nat
  BY SlotBounds
<1>1. \E k \in Nat : from = gap * k /\ t >= gap * k
  <2>1. CASE t < end \/ last = 0
    BY <2>1 DEF Slotted
  <2>2. CASE t >= end /\ last # 0
    <3>1. from = gap * (m + 1) /\ t >= gap * (m + 1)
      BY <2>2 DEF Slotted
    <3>2. m + 1 \in Nat
      BY <1>0
    <3> QED BY <3>1, <3>2, Zenon
  <2> QED BY <2>1, <2>2
<1>2. from + gap * (1 + (t - from) \div gap) = gap * (t \div gap + 1)
  <2>1. PICK k \in Nat : from = gap * k /\ t >= gap * k
    BY <1>1
  <2>2. gap * k + gap * (1 + (t - gap * k) \div gap) = gap * (t \div gap + 1)
    BY <2>1, SteppedIsSlotEnd
  <2> HIDE DEF from
  <2> QED BY <2>1, <2>2, Zenon
<1>3. gap * (t \div gap + 1) \in Nat
  BY <1>0
<1>4. CASE fresh
  <2>1. \A u \in {t} : u \div gap <= t \div gap
    BY <1>0
  <2>2. Slotted(gap, gap * (t \div gap + 1), t, {t}, 1)
    BY <2>1, SlotAlone DEF Slotted
  <2>3. /\ (IF fresh THEN {t} ELSE times \cup {t}) = {t}
        /\ (IF fresh THEN 1 ELSE count + 1) = 1
    BY <1>4
  <2> QED BY <1>2, <1>3, <2>2, <2>3
<1>5. CASE ~fresh /\ last = 0
  <2>1. times = {} /\ count = 0
    BY <1>5 DEF Slotted
  <2> QED BY <1>2, <1>3, <1>5, <2>1, SlotAlone DEF Slotted
<1>6. CASE ~fresh /\ last # 0
  <2>1. gap * m <= last /\ last < gap * (m + 1) /\ end = gap * (m + 1)
    BY <1>6, SlotBounds DEF Slotted
  <2>2. gap * (m + 1) = gap * m + gap
    BY <1>0
  <2>3. t >= end
    <3> HIDE DEF m
    <3> QED BY <1>0, <1>6, <2>1, <2>2
  <2>4. m < t \div gap
    <3>1. gap * (m + 1) < gap * (t \div gap + 1)
      BY <1>0, <2>1, <2>3, SlotBounds
    <3>2. m + 1 <= t \div gap
      BY <1>0, <3>1, SlotsOrdered
    <3> QED BY <1>0, <3>2
  <2>5. (\A u \in times : u \div gap <= m)
        /\ count = Cardinality({u \div gap : u \in times})
    BY <1>6 DEF Slotted
  <2>6. /\ \A u \in times \cup {t} : u \div gap <= t \div gap
        /\ Cardinality({u \div gap : u \in times \cup {t}}) = count + 1
    BY <1>0, <2>4, <2>5, SlotAdded
  <2> QED BY <1>2, <1>3, <1>6, <2>6 DEF Slotted
<1> QED BY <1>4, <1>5, <1>6

(* A gate that has let nothing pass.                                       *)
LEMMA RateInit == Rate!Init => RateIInv
<1> SUFFICES ASSUME Rate!Init PROVE RateIInv
  OBVIOUS
<1>1. RateTypes
  BY RateAssumption DEF Rate!Init, RateTypes, Rate!Rules, Rate!NoRule
<1>2. ASSUME NEW s \in RateStreams
      PROVE  Slotted(policy[s].min_gap_us, grid[s], newest[s], passed[s],
                     passes[s])
  BY <1>2 DEF Rate!Init, Slotted
<1> QED BY <1>1, <1>2 DEF RateIInv

(* A message that is sent. *)
LEMMA SendSlots ==
  ASSUME RateIInv, NEW s \in RateStreams, NEW t \in Rate!Times,
         NEW bulk \in BOOLEAN, Rate!Send(s, t, bulk)
  PROVE  RateIInv'
<1> DEFINE rule == policy[s]
           gap == rule.min_gap_us
           capped == ~rule.drop /\ gap # 0 /\ ~bulk
           fresh == newest[s] - t > EpochReset
           from == IF t < grid[s] THEN 0 ELSE grid[s]
<1>1. rule \in Rate!Rules /\ gap \in Nat /\ t \in Nat \ {0} /\ policy' = policy
  BY RateAssumption
  DEF RateIInv, RateTypes, Rate!Rules, Rate!Times, Rate!Send
<1>2. CASE capped /\ Rate!PassesRateGate(s, t, gap)
  <2>1. /\ grid' = [grid EXCEPT ![s] = from + gap * (1 + (t - from) \div gap)]
        /\ newest' = [newest EXCEPT ![s] = t]
        /\ passed' = [passed EXCEPT ![s] = IF fresh THEN {t} ELSE @ \cup {t}]
        /\ passes' = [passes EXCEPT ![s] = IF fresh THEN 1 ELSE @ + 1]
    BY <1>2 DEF Rate!Send, Rate!Stepped
  <2>2. /\ gap \in Nat \ {0} /\ grid[s] \in Nat /\ newest[s] \in Nat
        /\ passed[s] \in SUBSET Nat /\ passes[s] \in Nat
        /\ Slotted(gap, grid[s], newest[s], passed[s], passes[s])
    BY <1>1, <1>2 DEF RateIInv, RateTypes
  <2>3. t >= grid[s] \/ grid[s] - gap - t > EpochReset
    BY <1>2 DEF Rate!PassesRateGate, Rate!NewEpoch
  <2>4. /\ Slotted(gap, from + gap * (1 + (t - from) \div gap), t,
                   IF fresh THEN {t} ELSE passed[s] \cup {t},
                   IF fresh THEN 1 ELSE passes[s] + 1)
        /\ from + gap * (1 + (t - from) \div gap) \in Nat
    BY <1>1, <2>2, <2>3, RateAssumption, PassKeepsSlots
  <2>5. RateTypes'
    BY <1>1, <2>1, <2>2, <2>4 DEF RateIInv, RateTypes
  <2>6. /\ grid'[s] = from + gap * (1 + (t - from) \div gap)
        /\ newest'[s] = t
        /\ passed'[s] = (IF fresh THEN {t} ELSE passed[s] \cup {t})
        /\ passes'[s] = (IF fresh THEN 1 ELSE passes[s] + 1)
    BY <2>1 DEF RateIInv, RateTypes
  <2>7. \A r \in RateStreams \ {s} :
          /\ grid'[r] = grid[r] /\ newest'[r] = newest[r]
          /\ passed'[r] = passed[r] /\ passes'[r] = passes[r]
    BY <2>1 DEF RateIInv, RateTypes
  <2>8. ASSUME NEW r \in RateStreams
        PROVE  Slotted(policy'[r].min_gap_us, grid'[r], newest'[r], passed'[r],
                       passes'[r])
    <3>1. CASE r = s
      BY <1>1, <2>4, <2>6, <3>1, Zenon
    <3>2. CASE r # s
      BY <1>1, <2>7, <3>2, Zenon DEF RateIInv
    <3> QED BY <3>1, <3>2
  <2> QED BY <2>5, <2>8 DEF RateIInv
<1>3. CASE ~(capped /\ Rate!PassesRateGate(s, t, gap))
  BY <1>1, <1>3, Zenon DEF Rate!Send, RateIInv, RateTypes
<1> QED BY <1>2, <1>3

(* A policy installed. *)
LEMMA PolicySlots ==
  ASSUME RateIInv, NEW p \in [RateStreams -> Rate!Rules],
         Rate!SetStreamPolicy(p)
  PROVE  RateIInv'
<1>1. RateTypes'
  BY DEF Rate!SetStreamPolicy, RateIInv, RateTypes
<1>2. ASSUME NEW s \in RateStreams
      PROVE  Slotted(policy'[s].min_gap_us, grid'[s], newest'[s], passed'[s],
                     passes'[s])
  <2>1. policy'[s] = p[s]
    BY DEF Rate!SetStreamPolicy
  <2>2. CASE Rate!SameGap(s, p)
    <3>1. /\ grid'[s] = grid[s] /\ newest'[s] = newest[s]
          /\ passed'[s] = passed[s] /\ passes'[s] = passes[s]
      BY <2>2 DEF Rate!SetStreamPolicy, Rate!KeepsPhase
    <3>2. p[s].min_gap_us = policy[s].min_gap_us
      BY <2>2 DEF Rate!SameGap
    <3> QED BY <2>1, <3>1, <3>2, Zenon DEF RateIInv
  <2>3. CASE ~Rate!SameGap(s, p)
    <3>1. newest'[s] = 0 /\ grid'[s] = 0 /\ passed'[s] = {} /\ passes'[s] = 0
      BY <2>3 DEF Rate!SetStreamPolicy, Rate!KeepsPhase
    <3> QED BY <3>1 DEF Slotted
  <2> QED BY <2>2, <2>3
<1> QED BY <1>1, <1>2 DEF RateIInv

(* Every message, install and epoch reset keeps the invariant (RateGate).  *)
LEMMA RateNext == RateIInv /\ [Rate!Next]_rate => RateIInv'
<1> SUFFICES ASSUME RateIInv, [Rate!Next]_rate PROVE RateIInv'
  OBVIOUS
<1>1. CASE UNCHANGED rate
  BY <1>1, Zenon DEF rate, RateIInv, RateTypes
<1> QED BY <1>1, SendSlots, PolicySlots DEF Rate!Next

(* RateGate counts with the same Cardinality. *)
LEMMA SameCount == \A S : Rate!Cardinality(S) = Cardinality(S)
BY Zenon DEF Cardinality, Rate!Cardinality

(* What the grid says of a message follows from its slot. *)
LEMMA SlotsAreFair == RateIInv => CapIsFair
<1> SUFFICES ASSUME RateIInv PROVE CapIsFair
  OBVIOUS
<1>1. ASSUME NEW s \in RateStreams, policy[s].min_gap_us # 0
      PROVE  passes[s] = Cardinality({t \div policy[s].min_gap_us : t \in passed[s]})
  <2>1. Slotted(policy[s].min_gap_us, grid[s], newest[s], passed[s], passes[s])
    BY DEF RateIInv
  <2>2. CASE newest[s] = 0
    <3>1. passed[s] = {} /\ passes[s] = 0
      BY <2>1, <2>2 DEF Slotted
    <3>2. {t \div policy[s].min_gap_us : t \in passed[s]} = {}
      BY <3>1
    <3> QED BY <3>1, <3>2, FS_EmptySet
  <2>3. CASE newest[s] # 0
    BY <2>1, <2>3, Zenon DEF Slotted
  <2> QED BY <2>2, <2>3
<1>2. ASSUME NEW s \in RateStreams, policy[s].min_gap_us # 0,
             NEW t \in Rate!Times,
             \/ newest[s] = 0
             \/ t >= newest[s] + policy[s].min_gap_us
             \/ newest[s] - t >= EpochReset + policy[s].min_gap_us
      PROVE  Rate!PassesRateGate(s, t, policy[s].min_gap_us)
  <2> DEFINE gap == policy[s].min_gap_us
             m == newest[s] \div gap
  <2>1. gap \in Nat \ {0} /\ t \in Nat /\ newest[s] \in Nat /\ grid[s] \in Nat
        /\ EpochReset \in Nat
    BY <1>2, RateAssumption DEF RateIInv, RateTypes, Rate!Rules, Rate!Times
  <2>2. Slotted(gap, grid[s], newest[s], passed[s], passes[s])
    BY DEF RateIInv
  <2>3. CASE newest[s] = 0
    BY <2>1, <2>2, <2>3 DEF Slotted, Rate!PassesRateGate
  <2>4. CASE newest[s] # 0
    <3>1. m \in Nat /\ gap * m <= newest[s] /\ newest[s] < gap * (m + 1)
      BY <2>1, SlotBounds
    <3>2. grid[s] = gap * (m + 1)
      BY <2>2, <2>4 DEF Slotted
    <3>3. gap * (m + 1) = gap * m + gap
      BY <2>1, <3>1
    <3>4. grid[s] <= newest[s] + gap /\ grid[s] > newest[s]
      <4> HIDE DEF gap, m
      <4> QED BY <2>1, <3>1, <3>2, <3>3
    <3> HIDE DEF m
    <3> QED BY <1>2, <2>1, <2>4, <3>4 DEF Rate!PassesRateGate, Rate!NewEpoch
  <2> QED BY <2>3, <2>4
<1>3. \A s \in RateStreams :
        policy[s].min_gap_us # 0 =>
          passes[s] = Cardinality({t \div policy[s].min_gap_us : t \in passed[s]})
  BY <1>1
<1>4. NotMuted
  BY <1>2, Zenon DEF NotMuted, Rate!NotMuted
<1>5. CapHolds
  BY <1>3, SameCount DEF CapHolds, Rate!CapHolds
<1> QED BY <1>4, <1>5 DEF CapIsFair

(***************************************************************************)
(* The cap holds and mutes nothing: no two messages of an epoch pass in    *)
(* one slot of the gap, and one a period later or an epoch earlier always  *)
(* passes, for every set of streams, gap and epoch reset, in whatever      *)
(* order messages are stamped and policies installed (PassesRateGate,      *)
(* SetStreamPolicy).                                                       *)
(***************************************************************************)
THEOREM RateCapIsFair == MCSpec => []CapIsFair
<1>1. MCInit => RateIInv
  BY RateInit DEF MCInit
<1>2. RateIInv /\ [MCNext]_<<vars, rate, focus>> => RateIInv'
  BY RateNext DEF MCNext, rate
<1> QED BY <1>1, <1>2, SlotsAreFair, PTL DEF MCSpec
=============================================================================
