------------------------------ MODULE MCLinks ------------------------------
(***************************************************************************)
(* The life of a link, for TLC: FramedFdLink, fixed or reopenable, the     *)
(* SerialWatchdog that decides when the serial link is reopened, and the   *)
(* Pump that writes the lanes to it (FramedFdPump).                        *)
(*                                                                         *)
(* They share no variable, so a behaviour of all is a behaviour of each;   *)
(* this module explores the behaviours of one with the others at rest,     *)
(* which costs the sum of their states and not the product.                *)
(***************************************************************************)
EXTENDS FramedFdLink, TLAPS

CONSTANTS ReaderProof, StallTicks, BaseRetry, MaxRetry, BackoffStartAt,
          UsbPoll, StallTime

CONSTANTS
  Focus,             \* the components explored
  FrameBytes, LaneDepth, TimedDepth, MaxFramesPerPump, PumpStall, \* the pump's
  MaxSends, MaxTime  \* bounds of the pump's: frames offered, its clock

ASSUME WatchdogAssumption ==
  /\ ReaderProof \in Nat \ {0} /\ StallTicks \in Nat \ {0}
  /\ BaseRetry \in Nat \ {0} /\ MaxRetry \in Nat /\ BaseRetry <= MaxRetry
  /\ BackoffStartAt \in Nat /\ UsbPoll \in Nat /\ StallTime \in Nat

ASSUME PumpAssumption ==
  /\ FrameBytes \in Nat \ {0} /\ LaneDepth \in Nat \ {0}
  /\ TimedDepth \in Nat \ {0} /\ MaxFramesPerPump \in Nat \ {0}
  /\ PumpStall \in Nat /\ MaxSends \in Nat /\ MaxTime \in Nat

VARIABLES
  focus,     \* the component whose behaviour this is
  prev_usb, moved, proof, had_reader, no_drain_ticks, since_reopen, failures,
  usb, sampled, since_sample, open, pending, reading, ticked, action,
  link_bytes, frozen,
  \* FramedFdPump
  queued, left, timed_queue, timed_left, timed_pending, bulk_flush,
  link_stalled, last_progress, withdraws, accepted, turn, pick, frames, send,
  up, peer_reads, now, sends, passed, wire, spliced, ctrl_waits

Watchdog == INSTANCE SerialWatchdog

dog == <<prev_usb, moved, proof, had_reader, no_drain_ticks, since_reopen,
         failures, usb, sampled, since_sample, open, pending, reading, ticked,
         action, link_bytes, frozen>>

Pump == INSTANCE FramedFdPump WITH
  StallTime <- PumpStall, pc <- turn, reading <- peer_reads

lanes ==
  <<queued, left, timed_queue, timed_left, timed_pending, bulk_flush,
    link_stalled, last_progress, withdraws, accepted, turn, pick, frames,
    send, up, peer_reads, now, sends, passed, wire, spliced, ctrl_waits>>

AtRest == "at rest"
link_rests ==
  /\ fixed = AtRest /\ fd = AtRest /\ reliable_link_up = AtRest
  /\ reliable = AtRest /\ rx = AtRest /\ stop = AtRest /\ closed = AtRest
  /\ pc = AtRest /\ polled = AtRest /\ flagged = AtRest /\ fresh = AtRest
  /\ owner = AtRest /\ opened = AtRest /\ dead = AtRest /\ links = AtRest
  /\ stale_read = AtRest /\ misdelivered = AtRest
dog_rests ==
  /\ prev_usb = AtRest /\ moved = AtRest /\ proof = AtRest
  /\ had_reader = AtRest /\ no_drain_ticks = AtRest /\ since_reopen = AtRest
  /\ failures = AtRest /\ usb = AtRest /\ sampled = AtRest
  /\ since_sample = AtRest /\ open = AtRest /\ pending = AtRest
  /\ reading = AtRest /\ ticked = AtRest /\ action = AtRest
  /\ link_bytes = AtRest /\ frozen = AtRest
pump_rests ==
  /\ queued = AtRest /\ left = AtRest /\ timed_queue = AtRest
  /\ timed_left = AtRest /\ timed_pending = AtRest /\ bulk_flush = AtRest
  /\ link_stalled = AtRest /\ last_progress = AtRest /\ withdraws = AtRest
  /\ accepted = AtRest /\ turn = AtRest /\ pick = AtRest /\ frames = AtRest
  /\ send = AtRest /\ up = AtRest /\ peer_reads = AtRest /\ now = AtRest
  /\ sends = AtRest /\ passed = AtRest /\ wire = AtRest
  /\ spliced = AtRest /\ ctrl_waits = AtRest

(* The watchdog's action property and the link's temporal ones are         *)
(* evaluated in each other's states: these two rest as they start.         *)
MCInit ==
  /\ focus \in Focus
  /\ IF focus = "pump"
     THEN Pump!Init /\ link_rests /\ dog_rests
     ELSE Init /\ Watchdog!Init /\ pump_rests

MCNext ==
  \/ focus = "link" /\ Next /\ UNCHANGED <<dog, lanes, focus>>
  \/ focus = "watchdog" /\ Watchdog!Next /\ UNCHANGED <<vars, lanes, focus>>
  \/ focus = "pump" /\ Pump!Next /\ UNCHANGED <<vars, dog, focus>>

(* The fairness of FramedFdLink, of the watchdog's clock, and of the pump. *)
MCSpec ==
  /\ MCInit /\ [][MCNext]_<<vars, dog, lanes, focus>>
  /\ WF_vars(focus = "link" /\ IoThread)
  /\ SF_vars(focus = "link" /\ (PumpDone \/ PumpFails))
  /\ WF_vars(focus = "link" /\ Stop)
  /\ WF_dog(focus = "watchdog" /\ Watchdog!Clock)
  /\ WF_dog(focus = "watchdog" /\ \E opens \in BOOLEAN : Watchdog!Tick(opens))
  /\ WF_lanes(focus = "pump" /\ Pump!IoThread)
  /\ WF_lanes(focus = "pump" /\ Pump!EnqueueOne)

(* A link is reopened as stalled only if this very link took the bytes     *)
(* that prove a reader (SerialWatchdog::tick's had_reader_ gate).          *)
StallNeedsReader == Watchdog!StallNeedsReader

(* A link whose host stopped reading for good is reopened, even if the     *)
(* stall was first seen while reopening was rate-limited, and one that is  *)
(* down is retried for ever (SerialWatchdog::tick's backoff).              *)
StaleLinkReopened == focus = "watchdog" => Watchdog!StaleLinkReopened

(* One link's bytes, frames and descriptors never become another's         *)
(* (FramedFdEndpoint::MarkLinkDead and AdoptFd).                           *)
LinksSound == focus = "link" => LinksStayApart /\ DescriptorsOwned

(* A link's end is reported once, and Stop returns (FramedFdEndpoint).     *)
LinkEnds == focus = "link" => DeathReportedOnce /\ StopReturns

(* The serial link is reopened when its reader is gone, and only then      *)
(* (SerialWatchdog::tick).                                                 *)
ReopenedWhenStale == StallNeedsReader /\ StaleLinkReopened

(* No lane's bytes are put inside another lane's half-written frame, which *)
(* would desync the reader's COBS framing (Pump).                          *)
NoSplice == focus = "pump" => Pump!NoSplice

(* A link that is read again gets back to normal: the latch clears and     *)
(* every lane drains (Pump and UpdateStallState).                          *)
LinkRecovers == focus = "pump" => Pump!LinkRecovers

-----------------------------------------------------------------------------
(***************************************************************************)
(* The proof of LinksSound.  Its inductive invariant says where the I/O    *)
(* thread and the owner may be for each state of the link: a link that is  *)
(* down has nothing in its lane and admits nothing, a descriptor being     *)
(* adopted is the only one open, and the owner closes the last one only    *)
(* after the thread has gone.                                              *)
(***************************************************************************)
Kinds ==
  /\ fd \in Nat /\ fresh \in Nat /\ polled \in Nat /\ links \in Nat \ {0}
  /\ reliable \in Seq(Nat)
  /\ stop \in BOOLEAN /\ reliable_link_up \in BOOLEAN

(* Every frame in the lane was accepted for the current link. *)
LaneIsOfLink == \A i \in 1 .. Len(reliable) : reliable[i] = fd

DownAdmitsNothing ==
  /\ fd = 0 => reliable = <<>> /\ (reliable_link_up => stop)
  /\ pc \in {"close_write", "close_read"} =>
       reliable = <<>> /\ (reliable_link_up => stop)

AdoptsWhileDown ==
  /\ IF pc = "adopt" THEN fd = 0 /\ fresh = links ELSE fresh = 0
  /\ pc = "admit" => fd # 0

StopsInOrder ==
  /\ owner # "running" => stop
  /\ owner = "stopped" => pc = "exited"

LinkIInv ==
  /\ Kinds /\ LaneIsOfLink /\ DownAdmitsNothing /\ AdoptsWhileDown
  /\ StopsInOrder /\ LinksStayApart /\ DescriptorsOwned

(* A lane extended for the current link, or shortened, is still its own. *)
LEMMA LaneKept ==
  ASSUME NEW q \in Seq(Nat), NEW f \in Nat,
         \A i \in 1 .. Len(q) : q[i] = f
  PROVE  /\ Append(q, f) \in Seq(Nat)
         /\ \A i \in 1 .. Len(Append(q, f)) : Append(q, f)[i] = f
         /\ q # <<>> => /\ Head(q) = f
                        /\ Tail(q) \in Seq(Nat)
                        /\ \A i \in 1 .. Len(Tail(q)) : Tail(q)[i] = f
<1>1. \A i \in 1 .. Len(Append(q, f)) : Append(q, f)[i] = f
  BY SMT
<1>2. ASSUME q # <<>>
      PROVE  Head(q) = f /\ \A i \in 1 .. Len(Tail(q)) : Tail(q)[i] = f
  BY <1>2, SMT
<1> QED BY <1>1, <1>2, SMT

(* No link open, nothing queued or received.                               *)
LEMMA LinkInit == Init => LinkIInv
<1> SUFFICES ASSUME Init PROVE LinkIInv
  OBVIOUS
<1>1. Kinds /\ LaneIsOfLink
  <2>1. reliable = <<>> /\ fd = 1 /\ fresh = 0 /\ polled = 0 /\ links = 1
    BY DEF Init
  <2>2. stop \in BOOLEAN /\ reliable_link_up \in BOOLEAN
    BY DEF Init
  <2> QED BY <2>1, <2>2 DEF Kinds, LaneIsOfLink
<1>2. DownAdmitsNothing /\ AdoptsWhileDown /\ StopsInOrder
  BY DEF Init, DownAdmitsNothing, AdoptsWhileDown, StopsInOrder
<1>3. LinksStayApart /\ DescriptorsOwned
  BY DEF Init, LinksStayApart, DescriptorsOwned
<1> QED BY <1>1, <1>2, <1>3 DEF LinkIInv

(* The lane's own steps: a frame comes in, leaves, or the lane is cleared. *)
LEMMA LaneSteps ==
  LinkIInv /\ (TrySendReliable \/ DiscardReliable \/ PumpFrame) => LinkIInv'
<1> SUFFICES ASSUME LinkIInv, TrySendReliable \/ DiscardReliable \/ PumpFrame
             PROVE  LinkIInv'
  OBVIOUS
<1> USE DEF LinkIInv, Kinds, LaneIsOfLink, DownAdmitsNothing, AdoptsWhileDown,
            StopsInOrder, LinksStayApart, DescriptorsOwned, io, world, history
<1>1. CASE TrySendReliable
  BY <1>1, LaneKept DEF TrySendReliable
<1>2. CASE DiscardReliable
  BY <1>2 DEF DiscardReliable
<1>3. CASE PumpFrame
  BY <1>3, LaneKept DEF PumpFrame
<1> QED BY <1>1, <1>2, <1>3

(* The I/O thread's other steps keep the invariant. *)
LEMMA IoSteps == LinkIInv /\ IoThread => LinkIInv'
<1> SUFFICES ASSUME LinkIInv, IoThread PROVE LinkIInv'
  OBVIOUS
<1>1. CASE PumpFrame
  BY <1>1, LaneSteps
<1> USE DEF LinkIInv, Kinds, LaneIsOfLink, DownAdmitsNothing, AdoptsWhileDown,
            StopsInOrder, LinksStayApart, DescriptorsOwned, io, world, history
<1>2. CASE LoopPoll
  BY <1>2 DEF LoopPoll
<1>3. CASE LoopWoken
  BY <1>3 DEF LoopWoken
<1>4. CASE PumpDone \/ PumpFails
  BY <1>4 DEF PumpDone, PumpFails
<1>5. CASE MarkNotAdmitting
  <2>1. reliable' = <<>> /\ reliable' \in Seq(Nat) /\ LaneIsOfLink'
    BY <1>5 DEF MarkNotAdmitting
  <2>2. pc' \in {"close_write", "close_read"} /\ pc # "adopt" /\ pc # "exited"
    BY <1>5 DEF MarkNotAdmitting
  <2> QED BY <1>5, <2>1, <2>2 DEF MarkNotAdmitting
<1>6. CASE CloseLink
  BY <1>6 DEF CloseLink
<1>7. CASE SkipRead \/ ReadFails
  BY <1>7 DEF SkipRead, ReadFails
<1>8. CASE ReadInbound
  BY <1>8 DEF ReadInbound
<1>9. CASE Tick
  BY <1>9 DEF Tick
<1>10. CASE AdoptFd
  BY <1>10 DEF AdoptFd
<1>11. CASE AdoptAdmits
  BY <1>11 DEF AdoptAdmits
<1> QED
  BY <1>1, <1>2, <1>3, <1>4, <1>5, <1>6, <1>7, <1>8, <1>9, <1>10, <1>11
  DEF IoThread

(* Every step of the link keeps the invariant. *)
LEMMA LinkNext == LinkIInv /\ [Next]_vars => LinkIInv'
<1> SUFFICES ASSUME LinkIInv, [Next]_vars PROVE LinkIInv'
  OBVIOUS
<1>1. CASE TrySendReliable \/ DiscardReliable
  BY <1>1, LaneSteps
<1>2. CASE IoThread
  BY <1>2, IoSteps
<1> USE DEF LinkIInv, Kinds, LaneIsOfLink, DownAdmitsNothing, AdoptsWhileDown,
            StopsInOrder, LinksStayApart, DescriptorsOwned, io, world, history
<1>3. CASE StopBegin
  BY <1>3 DEF StopBegin
<1>4. CASE StopAdmissions
  BY <1>4 DEF StopAdmissions
<1>5. CASE StopJoined
  BY <1>5 DEF StopJoined
<1>6. ASSUME NEW l \in 1 .. MaxLinks, PeerDies(l) PROVE LinkIInv'
  BY <1>6 DEF PeerDies
<1>7. CASE UNCHANGED vars
  BY <1>7 DEF vars
<1> QED
  BY <1>1, <1>2, <1>3, <1>4, <1>5, <1>6, <1>7 DEF Next, Stop, Terminated

(***************************************************************************)
(* One link's frames and bytes never become another's and no descriptor    *)
(* leaks or is closed in use, for any number of links and any lane         *)
(* (TrySendReliable, MarkLinkDead, AdoptFd, Stop).                         *)
(***************************************************************************)
THEOREM LinksAreSound == MCSpec => []LinksSound
<1> DEFINE Inv == focus = "link" => LinkIInv
<1>1. MCInit => Inv
  BY LinkInit, Zenon DEF MCInit
<1>2. Inv /\ [MCNext]_<<vars, dog, lanes, focus>> => Inv'
  <2>1. [MCNext]_<<vars, dog, lanes, focus>> =>
          focus' = focus /\ (focus = "link" => [Next]_vars)
    BY Zenon DEF MCNext
  <2> QED BY <2>1, LinkNext, Zenon
<1>3. Inv => LinksSound
  BY Zenon DEF LinkIInv, LinksSound
<1> QED BY <1>1, <1>2, <1>3, PTL DEF MCSpec

-----------------------------------------------------------------------------
(***************************************************************************)
(* The proof of NoSplice, whatever the frame size, the bounds of the lanes *)
(* and the length of a pass: at most one frame is in flight, and it is the *)
(* one the wire is inside of.                                              *)
(***************************************************************************)
(* The types the argument needs. *)
PumpTypes ==
  /\ left \in [Pump!Lanes -> Nat] /\ queued \in [Pump!Lanes -> Nat]
  /\ timed_left \in Nat /\ timed_queue \in Nat
  /\ pick \in Pump!Lanes /\ wire \in Pump!Lanes \cup {"timed", "none"}
  /\ spliced \in BOOLEAN

(***************************************************************************)
(* Where Drain is at work: no heartbeat is active, the lane it finishes or *)
(* writes is the only one in flight, and nothing is when it promotes.      *)
(***************************************************************************)
DrainAlone ==
  /\ turn \in {"finish", "promote", "tail"} => timed_left = 0
  /\ turn \in {"finish", "tail"} =>
       \A l \in Pump!Lanes : Pump!InFlightActive(l) => l = pick
  /\ turn = "promote" => Pump!AtBoundary

PumpIInv == PumpTypes /\ Pump!OneFrameInFlight /\ DrainAlone /\ Pump!NoSplice

(* Nothing is left of a frame that is wholly written. *)
LEMMA ZeroMod == 0 % FrameBytes = 0
BY PumpAssumption

(* Init establishes the invariant. *)
LEMMA PumpInit == Pump!Init => PumpIInv
<1> SUFFICES ASSUME Pump!Init PROVE PumpIInv
  OBVIOUS
<1>1. PumpTypes
  BY DEF Pump!Init, PumpTypes, Pump!Lanes
<1>2. Pump!OneFrameInFlight /\ DrainAlone
  BY DEF Pump!Init, Pump!OneFrameInFlight, DrainAlone, Pump!Lanes, Pump!InFlightActive, Pump!AtBoundary
<1>3. Pump!NoSplice
  BY Zenon DEF Pump!Init, Pump!NoSplice
<1> QED BY <1>1, <1>2, <1>3 DEF PumpIInv

(***************************************************************************)
(* A write by the only frame in flight splices nothing, and leaves the     *)
(* wire inside that frame exactly while bytes of it remain.                *)
(***************************************************************************)
LEMMA WriteAlone ==
  ASSUME PumpTypes, Pump!NoSplice, NEW l \in Pump!Lanes \cup {"timed"}, NEW n \in Nat,
         NEW have \in Nat, n <= have, Pump!Write(l, n, have),
         wire \in {"none", l}
  PROVE  /\ Pump!NoSplice' /\ spliced' \in BOOLEAN
         /\ wire' \in {"none", l}
         /\ wire' = l => have - n > 0 \/ (n = 0 /\ wire = l)
<1>1. Pump!NoSplice' /\ spliced' \in BOOLEAN
  BY Zenon DEF Pump!Write, Pump!NoSplice, PumpTypes
<1>2. wire' \in {"none", l}
  BY DEF Pump!Write
<1>3. wire' = l => have - n > 0 \/ (n = 0 /\ wire = l)
  <2>1. SUFFICES ASSUME wire' = l, ~(n = 0 /\ wire = l) PROVE have - n > 0
    OBVIOUS
  <2>2. l # "none"
    BY DEF Pump!Lanes
  <2>3. CASE n = 0
    BY <2>1, <2>2, <2>3 DEF Pump!Write
  <2>4. CASE n # 0
    <3>1. (have - n) % FrameBytes # 0
      BY <2>1, <2>2, <2>4 DEF Pump!Write
    <3>2. have - n # 0
      BY <3>1, ZeroMod
    <3> QED BY <3>2
  <2> QED BY <2>3, <2>4
<1> QED BY <1>1, <1>2, <1>3

(* Finishing a frame in flight keeps the invariant. *)
LEMMA FinishKeeps ==
  ASSUME PumpIInv, Pump!DrainFinish \/ Pump!DrainTail
  PROVE  PumpIInv'
<1>1. /\ turn \in {"finish", "tail"} /\ pick \in Pump!Lanes
      /\ left \in [Pump!Lanes -> Nat] /\ left[pick] \in Nat
      /\ timed_left = 0
      /\ \A l \in Pump!Lanes : left[l] > 0 => l = pick
  BY DEF Pump!DrainFinish, Pump!DrainTail, PumpIInv, PumpTypes, DrainAlone, Pump!InFlightActive
<1>2. PICK n \in 0 .. left[pick] :
        /\ Pump!Write(pick, n, left[pick])
        /\ left' = [left EXCEPT ![pick] = @ - n]
        /\ UNCHANGED <<queued, timed_queue, timed_left, pick>>
        /\ turn' \in {"stall", "drained", "promote"}
        /\ turn' = "promote" => n = left[pick]
  BY <1>1 DEF Pump!DrainFinish, Pump!DrainTail
<1>3. wire \in {"none", pick}
  BY <1>1 DEF PumpIInv, PumpTypes, Pump!OneFrameInFlight, Pump!InFlightActive
<1>4. /\ Pump!NoSplice' /\ spliced' \in BOOLEAN
      /\ wire' \in {"none", pick}
      /\ wire' = pick => left[pick] - n > 0 \/ (n = 0 /\ wire = pick)
  BY <1>1, <1>2, <1>3, WriteAlone DEF PumpIInv
<1>5. /\ left'[pick] = left[pick] - n /\ left'[pick] \in Nat
      /\ \A l \in Pump!Lanes : l # pick => left'[l] = left[l]
      /\ left' \in [Pump!Lanes -> Nat]
  BY <1>1, <1>2
<1>6. \A l \in Pump!Lanes : left'[l] > 0 => l = pick
  BY <1>1, <1>5
<1>7. PumpTypes'
  BY <1>2, <1>4, <1>5 DEF PumpIInv, PumpTypes
<1>8. Pump!OneFrameInFlight'
  <2>1. wire' = pick => left'[pick] > 0
    <3>1. wire = pick => left[pick] > 0
      BY <1>1 DEF PumpIInv, Pump!OneFrameInFlight, Pump!InFlightActive
    <3> QED BY <1>1, <1>4, <1>5, <3>1
  <2>2. pick # "timed" /\ pick # "none"
    BY <1>1 DEF Pump!Lanes
  <2> QED BY <1>1, <1>2, <1>4, <1>6, <2>1, <2>2
          DEF Pump!OneFrameInFlight, Pump!InFlightActive, Pump!AtBoundary, Pump!Lanes
<1>9. DrainAlone'
  BY <1>1, <1>2, <1>5, <1>6 DEF DrainAlone, Pump!InFlightActive, Pump!AtBoundary
<1> QED BY <1>4, <1>7, <1>8, <1>9 DEF PumpIInv

(* A heartbeat starts only at a boundary and then has the wire alone. *)
LEMMA TimedKeeps ==
  ASSUME PumpIInv, Pump!PumpTimed
  PROVE  PumpIInv'
<1>1. /\ UNCHANGED <<queued, left, pick>>
      /\ turn' \in {"pick", "stall"}
      /\ Pump!AtBoundary
  BY DEF Pump!PumpTimed, Pump!TimedTurn, Pump!NextTurn, PumpIInv, Pump!OneFrameInFlight
<1>2. CASE timed_left = 0 /\ timed_queue = 0
  BY <1>1, <1>2
     DEF Pump!PumpTimed, Pump!peer, PumpIInv, PumpTypes, Pump!OneFrameInFlight, DrainAlone, Pump!NoSplice,
         Pump!InFlightActive, Pump!AtBoundary
<1>3. CASE ~(timed_left = 0 /\ timed_queue = 0)
  <2> DEFINE have == IF timed_left > 0 THEN timed_left ELSE FrameBytes
  <2>1. PICK n \in 0 .. have :
          /\ Pump!Write("timed", n, have)
          /\ timed_left' = have - n
    BY <1>3 DEF Pump!PumpTimed
  <2>2. have \in Nat /\ timed_left \in Nat /\ timed_queue \in Nat
    BY PumpAssumption DEF PumpIInv, PumpTypes
  <2>3. timed_queue' \in Nat
    BY <1>3, <2>2 DEF Pump!PumpTimed
  <2>4. wire \in {"none", "timed"}
    BY <1>1 DEF PumpIInv, PumpTypes, Pump!OneFrameInFlight, Pump!AtBoundary
  <2>5. /\ Pump!NoSplice' /\ spliced' \in BOOLEAN
        /\ wire' \in {"none", "timed"}
        /\ wire' = "timed" => have - n > 0 \/ (n = 0 /\ wire = "timed")
    BY <2>1, <2>2, <2>4, WriteAlone DEF PumpIInv
  <2>6. wire' = "timed" => timed_left' > 0
    BY <2>1, <2>2, <2>5 DEF PumpIInv, Pump!OneFrameInFlight
  <2>7. timed_left' \in Nat
    BY <2>1, <2>2
  <2>8. Pump!AtBoundary'
    BY <1>1 DEF Pump!AtBoundary, Pump!InFlightActive
  <2> HIDE DEF have
  <2>9. PumpTypes'
    BY <1>1, <2>3, <2>5, <2>7 DEF PumpIInv, PumpTypes
  <2>10. Pump!OneFrameInFlight'
    BY <2>5, <2>6, <2>8 DEF Pump!OneFrameInFlight, Pump!AtBoundary, Pump!Lanes
  <2>11. DrainAlone'
    BY <1>1 DEF DrainAlone
  <2> QED BY <2>5, <2>9, <2>10, <2>11 DEF PumpIInv
<1> QED BY <1>2, <1>3

(* The lane picked is the only one that can be in flight. *)
LEMMA PickIsAlone ==
  ASSUME PumpIInv
  PROVE  /\ Pump!Pick \in Pump!Lanes
         /\ Pump!InFlightActive(Pump!Pick) \/ Pump!AtBoundary
BY DEF PumpIInv, Pump!OneFrameInFlight, Pump!Pick, Pump!AtBoundary, Pump!Lanes, Pump!InFlightActive

(* Every step keeps the invariant. *)
LEMMA PumpKeeps == PumpIInv /\ [Pump!Next]_(Pump!vars) => PumpIInv'
<1> SUFFICES ASSUME PumpIInv, [Pump!Next]_(Pump!vars) PROVE PumpIInv'
  OBVIOUS
<1> USE DEF PumpIInv, PumpTypes, Pump!OneFrameInFlight, DrainAlone, Pump!NoSplice,
            Pump!InFlightActive, Pump!AtBoundary
<1>1. CASE \E kind \in Pump!Kinds : Pump!SendBegin(kind)
  BY <1>1 DEF Pump!SendBegin, Pump!lanes, Pump!locals, Pump!peer
<1>2. CASE Pump!EnqueueOne
  BY <1>2, PumpAssumption DEF Pump!EnqueueOne, Pump!AtMost, Pump!LaneOf, Pump!Lanes, Pump!locals, Pump!peer
<1>3. CASE Pump!TrySendReliable \/ Pump!DiscardReliable
  BY <1>3 DEF Pump!TrySendReliable, Pump!DiscardReliable, Pump!Lanes, Pump!locals, Pump!peer
<1>4. CASE Pump!SendTimed
  BY <1>4, PumpAssumption DEF Pump!SendTimed, Pump!AtMost, Pump!locals, Pump!peer
<1>5. CASE Pump!RequestBulkFlush \/ Pump!Reopen \/ Pump!PeerToggles \/ Pump!Tick \/ Pump!FlushDone
           \/ Pump!UpdateStallState \/ Pump!Drained
  <2>1. /\ UNCHANGED <<Pump!lanes, wire, spliced, pick>>
        /\ turn' \in {turn, "pick", "poll", "stall"}
    BY <1>5 DEF Pump!RequestBulkFlush, Pump!Reopen, Pump!PeerToggles, Pump!Tick, Pump!FlushDone,
                Pump!UpdateStallState, Pump!Drained, Pump!NextTurn, Pump!locals, Pump!peer
  <2> QED BY <2>1 DEF Pump!lanes
<1>6. CASE Pump!PumpBegin
  BY <1>6 DEF Pump!PumpBegin, Pump!FlushDue, Pump!peer, Pump!Lanes
<1>7. CASE Pump!PumpTimed
  BY <1>7, TimedKeeps
<1>8. CASE Pump!PickLane
  BY <1>8, PickIsAlone DEF Pump!PickLane, Pump!TimedTurn, Pump!lanes, Pump!peer
<1>9. CASE Pump!DrainFinish \/ Pump!DrainTail
  BY <1>9, FinishKeeps
<1>10. CASE Pump!DrainPromote
  BY <1>10, PumpAssumption DEF Pump!DrainPromote, Pump!peer, Pump!Lanes
<1>11. CASE Pump!MarkLinkDead
  <2>1. /\ left' \in [Pump!Lanes -> Nat] /\ \A l \in Pump!Lanes : left'[l] = 0
        /\ queued' \in [Pump!Lanes -> Nat] /\ timed_left' = 0 /\ timed_queue' = 0
        /\ wire' = "none" /\ turn' = "poll" /\ UNCHANGED <<spliced, pick>>
    BY <1>11 DEF Pump!MarkLinkDead
  <2> QED BY <2>1 DEF Pump!Lanes
<1>12. CASE UNCHANGED Pump!vars
  BY <1>12 DEF Pump!vars, Pump!lanes, Pump!locals, Pump!peer
<1> QED
  BY <1>1, <1>2, <1>3, <1>4, <1>5, <1>6, <1>7, <1>8, <1>9, <1>10, <1>11, <1>12
     DEF Pump!Next, Pump!Producer, Pump!IoThread

(***************************************************************************)
(* Along every behaviour of the pump, what is in flight is the invariant's.*)
(***************************************************************************)
LEMMA PumpHolds == MCSpec => [](focus = "pump" => PumpIInv)
<1> DEFINE Inv == focus = "pump" => PumpIInv
<1>1. MCInit => Inv
  BY PumpInit, Zenon DEF MCInit
<1>2. Inv /\ [MCNext]_<<vars, dog, lanes, focus>> => Inv'
  <2>1. [MCNext]_<<vars, dog, lanes, focus>> =>
          focus' = focus /\ (focus = "pump" => Pump!Next \/ UNCHANGED lanes)
    BY Zenon DEF MCNext
  <2>2. UNCHANGED lanes => UNCHANGED Pump!vars
    BY DEF lanes, Pump!vars, Pump!lanes, Pump!link, Pump!locals, Pump!peer
  <2>3. focus' = focus /\ Inv /\ (focus = "pump" => Pump!Next \/ UNCHANGED Pump!vars) => Inv'
    BY PumpKeeps, Zenon
  <2> QED BY <2>1, <2>2, <2>3, Zenon
<1> QED BY <1>1, <1>2, PTL DEF MCSpec

(***************************************************************************)
(* The reader never finds one lane's bytes inside another lane's frame.    *)
(***************************************************************************)
THEOREM FramesNeverSplice == MCSpec => []NoSplice
<1>1. (focus = "pump" => PumpIInv) => NoSplice
  BY Zenon DEF PumpIInv, NoSplice
<1> QED BY PumpHolds, <1>1, PTL

(***************************************************************************)
(* At most one frame is in flight over the four lanes together.            *)
(***************************************************************************)
THEOREM LanesShareTheWire == MCSpec => [](focus = "pump" => Pump!OneFrameInFlight)
<1>1. (focus = "pump" => PumpIInv) => (focus = "pump" => Pump!OneFrameInFlight)
  BY Zenon DEF PumpIInv
<1> QED BY PumpHolds, <1>1, PTL
=============================================================================
