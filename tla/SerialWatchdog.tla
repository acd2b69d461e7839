--------------------------- MODULE SerialWatchdog ---------------------------
(***************************************************************************)
(* SerialWatchdog and the SerialEndpoint that drives it                    *)
(* (transport/serial_watchdog.hpp, cpp/src/transport/serial.cc): when the  *)
(* serial gadget node must be reopened, inferred from the USB state, from  *)
(* bytes the fd stopped taking, and from the link being down.              *)
(*                                                                         *)
(* Only differences of the code's clocks and byte counters are ever used,  *)
(* so the model keeps those: times since an event, saturating at the       *)
(* largest value anything compares them with.                              *)
(***************************************************************************)
EXTENDS Integers

CONSTANTS
  ReaderProof,     \* kReaderProofBytes
  StallTicks,      \* kStallTicks
  BaseRetry,       \* kBaseRetryMs
  MaxRetry,        \* kMaxRetryMs
  BackoffStartAt,  \* kBackoffStartAt
  UsbPoll,         \* kUsbStatePollNs
  StallTime        \* the no-progress time kStallTicks stands for

VARIABLES
  prev_usb,        \* prev_usb_state_
  moved,           \* accepted # last_accepted_
  proof,           \* accepted - accepted_at_open_
  had_reader,      \* had_reader_
  no_drain_ticks,  \* no_drain_ticks_
  since_reopen,    \* now_ms - last_reopen_ms_
  failures,        \* consec_retry_failures_
  usb, sampled,    \* the gadget's state, and last_usb_state_
  since_sample,    \* now_ns - last_usb_read_ns_
  open, pending,   \* the link's fd is open; its outboxes hold bytes
  reading,         \* a host reads the other end
  ticked,          \* Tick ran since the clock or the link last changed
  action,          \* what the last tick returned
  link_bytes,      \* history: bytes the fd took since this link opened
  frozen           \* history: time since the fd last took a byte

env == <<usb, reading>>
history == <<link_bytes, frozen>>
vars == <<prev_usb, moved, proof, had_reader, no_drain_ticks, since_reopen,
          failures, sampled, since_sample, open, pending, ticked, action, env,
          history>>

UsbStates == {"CONFIGURED", "CONNECTED", "DISCONNECTED", ""}

UpTo(n, max) == IF n > max THEN max ELSE n

MaxShift == 5

-----------------------------------------------------------------------------
(* The environment: host, gadget, outbox and clock. *)

UsbChanges(s) ==
  /\ usb # s /\ usb' = s
  /\ UNCHANGED <<prev_usb, moved, proof, had_reader, no_drain_ticks,
                 since_reopen, failures, sampled, since_sample, open, pending,
                 ticked, action, reading, history>>

HostChanges ==
  /\ reading' = ~reading
  /\ UNCHANGED <<prev_usb, moved, proof, had_reader, no_drain_ticks,
                 since_reopen, failures, sampled, since_sample, open, pending,
                 ticked, action, usb, history>>

(* Pump: a host that reads takes bytes, and may empty the outboxes. *)
FdTakesBytes ==
  /\ open /\ pending /\ reading
  /\ moved' = TRUE
  /\ proof' = UpTo(proof + 1, ReaderProof)
  /\ link_bytes' = UpTo(link_bytes + 1, ReaderProof)
  /\ frozen' = 0
  /\ pending' \in BOOLEAN
  /\ UNCHANGED <<prev_usb, had_reader, no_drain_ticks, since_reopen, failures,
                 sampled, since_sample, open, ticked, action, env>>

MessageQueued ==
  /\ ~pending /\ pending' = TRUE
  /\ UNCHANGED <<prev_usb, moved, proof, had_reader, no_drain_ticks,
                 since_reopen, failures, sampled, since_sample, open, ticked,
                 action, env, history>>

(* A write or a read fails: MarkLinkDead. *)
LinkDies ==
  /\ open /\ open' = FALSE
  /\ pending' = FALSE /\ ticked' = FALSE
  /\ UNCHANGED <<prev_usb, moved, proof, had_reader, no_drain_ticks,
                 since_reopen, failures, sampled, since_sample, action, env,
                 history>>

(* kTickMs: the I/O loop wakes at least once per unit of time. *)
Clock ==
  /\ ticked /\ ticked' = FALSE
  /\ since_reopen' = UpTo(since_reopen + 1, MaxRetry)
  /\ since_sample' = UpTo(since_sample + 1, UsbPoll)
  /\ frozen' = UpTo(frozen + 1, StallTime)
  /\ UNCHANGED <<prev_usb, moved, proof, had_reader, no_drain_ticks, failures,
                 sampled, open, pending, action, env, link_bytes>>

-----------------------------------------------------------------------------
(* SerialWatchdog::tick, called with USB state s. *)

Edge(s) == prev_usb \notin {"", "CONFIGURED"} /\ s = "CONFIGURED"

ReaderSeen == had_reader \/ (open /\ proof >= ReaderProof)

(* The fd is open, has something to write and took nothing. *)
NotDraining == open /\ pending /\ ~moved

NoDrainTicks ==
  CASE NotDraining /\ ReaderSeen  -> UpTo(no_drain_ticks + 1, StallTicks + 1)
    [] NotDraining /\ ~ReaderSeen -> no_drain_ticks
    [] ~NotDraining               -> 0

(* Mutant: the tick count is compared for equality. *)
StalledOnce(s) ==
  NotDraining /\ ReaderSeen /\ NoDrainTicks = StallTicks /\ s = "CONFIGURED"

Stalled(s) ==
  NotDraining /\ ReaderSeen /\ NoDrainTicks >= StallTicks /\ s = "CONFIGURED"

Backoff(n) ==
  IF n < BackoffStartAt THEN BaseRetry
  ELSE UpTo(BaseRetry * 2 ^ UpTo(n - BackoffStartAt + 1, MaxShift), MaxRetry)

MinInterval(s) ==
  IF ~open /\ ~Edge(s) /\ ~Stalled(s) THEN Backoff(failures) ELSE BaseRetry

Action(s) ==
  CASE since_reopen < MinInterval(s)         -> "None"
    [] since_reopen >= MinInterval(s) /\ Edge(s) -> "ReopenEdge"
    [] since_reopen >= MinInterval(s) /\ ~Edge(s) /\ Stalled(s) -> "ReopenStalled"
    [] since_reopen >= MinInterval(s) /\ ~Edge(s) /\ ~Stalled(s) /\ ~open
         -> "ReopenRetry"
    [] OTHER                                 -> "None"

ProofKept == proof         \* mutant: the last link's traffic vouches
ProofAfterReopen == 0      \* accepted_at_open_ = accepted

(***************************************************************************)
(* SerialEndpoint::Tick, on every wakeup of the I/O loop: sample the USB   *)
(* state if it is due, ask the watchdog, and act on its answer with        *)
(* MarkLinkDead and Reopen, whose factory may fail.                        *)
(***************************************************************************)
Tick(opened) ==
  LET s == IF since_sample >= UsbPoll THEN usb ELSE sampled
      act == Action(s)
  IN  /\ sampled' = s
      /\ since_sample' = IF since_sample >= UsbPoll THEN 0 ELSE since_sample
      /\ prev_usb' = IF s = "" THEN prev_usb ELSE s
      /\ moved' = FALSE
      /\ action' = act
      /\ ticked' = TRUE
      /\ IF act = "None"
         THEN /\ ~opened
              /\ had_reader' = ReaderSeen /\ no_drain_ticks' = NoDrainTicks
              /\ UNCHANGED <<proof, since_reopen, failures, open, pending,
                             history>>
         ELSE /\ had_reader' = FALSE /\ no_drain_ticks' = 0
              /\ proof' = ProofAfterReopen /\ since_reopen' = 0
              /\ open' = opened /\ pending' = FALSE
              /\ failures' = IF opened THEN 0
                             ELSE UpTo(failures + 1, BackoffStartAt + MaxShift)
              /\ link_bytes' = 0 /\ frozen' = 0
      /\ UNCHANGED env

-----------------------------------------------------------------------------
Init ==
  /\ prev_usb = "" /\ moved = FALSE /\ proof = 0 /\ had_reader = FALSE
  /\ no_drain_ticks = 0 /\ since_reopen = MaxRetry /\ failures = 0
  /\ usb = "DISCONNECTED" /\ sampled = "" /\ since_sample = UsbPoll
  /\ open \in BOOLEAN /\ pending = FALSE /\ reading = FALSE
  /\ ticked = FALSE /\ action = "None" /\ link_bytes = 0 /\ frozen = 0

Next ==
  \/ \E s \in UsbStates : UsbChanges(s)
  \/ HostChanges \/ FdTakesBytes \/ MessageQueued \/ LinkDies
  \/ Clock
  \/ \E opened \in BOOLEAN : Tick(opened)

Spec == Init /\ [][Next]_vars

(* The I/O loop wakes every kTickMs at the latest, and time passes. *)
FairSpec ==
  Spec /\ WF_vars(Clock) /\ WF_vars(\E opened \in BOOLEAN : Tick(opened))

-----------------------------------------------------------------------------
(* Properties. *)

(* This step is a tick that reopens a link as stalled. *)
ReopensStalled ==
  since_reopen # 0 /\ since_reopen' = 0 /\ action' = "ReopenStalled"

(***************************************************************************)
(* "Without this gate 'nobody ever read' looks identical to 'reader went   *)
(* away'": a link is reopened as stalled only if it, and not a link before *)
(* it, took kReaderProofBytes.                                             *)
(***************************************************************************)
StallNeedsReader ==
  [][ReopensStalled => link_bytes >= ReaderProof]_vars

(***************************************************************************)
(* A link whose host stopped reading for good, with USB still configured   *)
(* and bytes to write, does not stay that way: it is reopened, even if the *)
(* stall was first seen while reopening was still rate-limited.  A link    *)
(* that is down is retried for ever, whatever the backoff has grown to.    *)
(***************************************************************************)
Stale ==
  /\ open /\ pending /\ ~reading
  /\ usb = "CONFIGURED" /\ link_bytes >= ReaderProof

StaleLinkReopened == []<>~Stale /\ []<>(open \/ since_reopen = 0)

(***************************************************************************)
(* "kStallTicks = 3;  // ~6 s at 2 s ticks": a link is reopened as stalled *)
(* only after its fd took nothing for that long.                           *)
(***************************************************************************)
StallIsSustained ==
  [][ReopensStalled => frozen >= StallTime]_vars
=============================================================================
