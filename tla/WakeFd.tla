------------------------------- MODULE WakeFd -------------------------------
(***************************************************************************)
(* WakeFd (cpp/include/visio_schema/transport/wake_fd.hpp): the pollable   *)
(* wakeup of an I/O loop, with the write(2) elided while a wakeup is       *)
(* already pending, and the part of FramedFdEndpoint::Loop that waits on   *)
(* it.                                                                     *)
(*                                                                         *)
(* Producers queue work, then Signal; the loop polls, Drains, and handles  *)
(* all the work it sees.  Every atomic operation is a step of its own.     *)
(***************************************************************************)
EXTENDS Integers, FiniteSets

CONSTANTS
  Producers,     \* threads that queue work and Signal
  MaxWork,       \* bound: pieces of work queued in a run
  MaxReopens     \* bound: Close/Open cycles

ASSUME WakeAssumption == MaxWork \in Nat /\ MaxReopens \in Nat

VARIABLES
  open,          \* read_fd_ >= 0
  readable,      \* the eventfd counter is nonzero
  signalled,     \* signalled_
  work,          \* something is queued that the loop has not seen
  signal,        \* per producer: its place in Signal
  loop,          \* the loop thread's place, or the owner's once it is joined
  queued,        \* pieces of work queued so far
  reopens,       \* Close/Open cycles so far
  straddled      \* history: a Signal was past its check when Open began

vars == <<open, readable, signalled, work, signal, loop, queued, reopens,
          straddled>>

Idle(p) == signal[p] = "idle"

-----------------------------------------------------------------------------
(* Producers. *)

Enqueue(p) ==
  /\ Idle(p) /\ queued < MaxWork
  /\ work' = TRUE
  /\ queued' = queued + 1
  /\ signal' = [signal EXCEPT ![p] = "check"]
  /\ UNCHANGED <<open, readable, signalled, loop, reopens, straddled>>

(* if (write_fd_ < 0) return *)
SignalCheck(p) ==
  /\ signal[p] = "check"
  /\ signal' = [signal EXCEPT ![p] = IF open THEN "exchange" ELSE "idle"]
  /\ UNCHANGED <<open, readable, signalled, work, loop, queued, reopens,
                 straddled>>

(* if (signalled_.exchange(true)) return *)
SignalExchange(p) ==
  /\ signal[p] = "exchange"
  /\ signalled' = TRUE
  /\ signal' = [signal EXCEPT ![p] = IF signalled THEN "idle" ELSE "write"]
  /\ UNCHANGED <<open, readable, work, loop, queued, reopens, straddled>>

(* The write is unchecked: on a closed fd it is lost. *)
SignalWrite(p) ==
  /\ signal[p] = "write"
  /\ readable' = (readable \/ open)
  /\ signal' = [signal EXCEPT ![p] = "idle"]
  /\ UNCHANGED <<open, signalled, work, loop, queued, reopens, straddled>>

-----------------------------------------------------------------------------
(* The loop thread. *)

(* poll returns for the wakeup fd. *)
PollWoken ==
  /\ loop = "poll" /\ readable
  /\ loop' = "read"
  /\ UNCHANGED <<open, readable, signalled, work, signal, queued, reopens,
                 straddled>>

(* poll returns at the end of its tick. *)
PollTick ==
  /\ loop = "poll" /\ ~readable
  /\ loop' = "pump"
  /\ UNCHANGED <<open, readable, signalled, work, signal, queued, reopens,
                 straddled>>

(* Mutant: the flag is cleared before the fd is read. *)
DrainFlagFirst ==
  /\ \/ /\ loop = "read" /\ loop' = "reset"
        /\ signalled' = FALSE
        /\ UNCHANGED readable
     \/ /\ loop = "reset" /\ loop' = "pump"
        /\ readable' = FALSE
        /\ UNCHANGED signalled
  /\ UNCHANGED <<open, work, signal, queued, reopens, straddled>>

(* Drain: read the fd empty, then clear the flag. *)
Drain ==
  /\ \/ /\ loop = "read" /\ loop' = "reset"
        /\ readable' = FALSE
        /\ UNCHANGED signalled
     \/ /\ loop = "reset" /\ loop' = "pump"
        /\ signalled' = FALSE
        /\ UNCHANGED readable
  /\ UNCHANGED <<open, work, signal, queued, reopens, straddled>>

(* The loop body handles everything queued so far. *)
Pump ==
  /\ loop = "pump"
  /\ work' = FALSE
  /\ loop' = "poll"
  /\ UNCHANGED <<open, readable, signalled, signal, queued, reopens, straddled>>

-----------------------------------------------------------------------------
(* The owner, once the loop thread is joined. *)

Close ==
  /\ loop = "poll" /\ reopens < MaxReopens
  /\ open' = FALSE /\ readable' = FALSE /\ signalled' = FALSE
  /\ loop' = "closed"
  /\ reopens' = reopens + 1
  /\ UNCHANGED <<work, signal, queued, straddled>>

(* Mutant: Open trusts the flag Close left. *)
OpenKeepsFlag ==
  /\ loop = "closed"
  /\ loop' = "opening"
  /\ straddled' =
       (straddled \/ \E p \in Producers : signal[p] \in {"exchange", "write"})
  /\ UNCHANGED <<open, readable, signalled, work, signal, queued, reopens>>

(* Open clears the flag first, then creates the fd. *)
OpenResetFlag ==
  /\ loop = "closed"
  /\ signalled' = FALSE
  /\ loop' = "opening"
  /\ straddled' =
       (straddled \/ \E p \in Producers : signal[p] \in {"exchange", "write"})
  /\ UNCHANGED <<open, readable, work, signal, queued, reopens>>

OpenFd ==
  /\ loop = "opening"
  /\ open' = TRUE /\ readable' = FALSE
  /\ loop' = "pump"     \* pending bytes make the first poll return at once
  /\ UNCHANGED <<signalled, work, signal, queued, reopens, straddled>>

-----------------------------------------------------------------------------
Init ==
  /\ open = TRUE /\ readable = FALSE /\ signalled = FALSE
  /\ work = FALSE
  /\ signal = [p \in Producers |-> "idle"]
  /\ loop = "poll"
  /\ queued = 0 /\ reopens = 0 /\ straddled = FALSE

Signal(p) == SignalCheck(p) \/ SignalExchange(p) \/ SignalWrite(p)

Woken == PollWoken \/ Drain \/ Pump

Next ==
  \/ \E p \in Producers : Enqueue(p) \/ Signal(p)
  \/ Woken
  \/ PollTick
  \/ Close \/ OpenResetFlag \/ OpenFd

Spec == Init /\ [][Next]_vars

(***************************************************************************)
(* Threads that are running keep running.  poll's timeout gets no          *)
(* fairness: the point of the wakeup is not to wait for it.                *)
(***************************************************************************)
FairSpec ==
  /\ Spec
  /\ \A p \in Producers : WF_vars(Signal(p))
  /\ WF_vars(Woken) /\ WF_vars(OpenResetFlag \/ OpenFd)

-----------------------------------------------------------------------------
(* Properties. *)

(* Types; the fd is open exactly while a loop thread may be polling it. *)
TypeOK ==
  /\ open <=> loop \notin {"closed", "opening"}
  /\ open \in BOOLEAN /\ readable \in BOOLEAN /\ signalled \in BOOLEAN
  /\ work \in BOOLEAN /\ straddled \in BOOLEAN
  /\ signal \in [Producers -> {"idle", "check", "exchange", "write"}]
  /\ loop \in {"poll", "read", "reset", "pump", "closed", "opening"}
  /\ queued \in Nat /\ reopens \in Nat

(***************************************************************************)
(* A set flag means a wakeup is on its way: the fd is readable, or the     *)
(* producer that set the flag is about to write, or the loop is between    *)
(* its read and its reset.  So eliding a write never loses a wakeup,       *)
(* unless a Signal spans a whole Close and Open.                           *)
(***************************************************************************)
FlagMeansWake ==
  (signalled /\ open /\ ~straddled) =>
    readable \/ loop = "reset" \/ \E p \in Producers : signal[p] = "write"

(***************************************************************************)
(* The loop never goes to sleep on queued work: it polls with work queued  *)
(* and the fd not readable only while some producer is inside Signal and   *)
(* will write.                                                             *)
(***************************************************************************)
WillWrite(p) ==
  signal[p] = "write" \/ (signal[p] \in {"check", "exchange"} /\ ~signalled)

NoSleepOnWork ==
  (loop = "poll" /\ work /\ ~straddled) =>
    readable \/ \E p \in Producers : WillWrite(p)

(***************************************************************************)
(* Every piece of work is handled even if poll never times out.            *)
(***************************************************************************)
WorkIsSeen == (work /\ ~straddled) ~> (~work \/ straddled)

(***************************************************************************)
(* What the comment in Open promises of a Signal racing a Close: "Fresh    *)
(* fd, fresh flag", that is, no flag left set over an empty fd.            *)
(***************************************************************************)
FreshFdFreshFlag ==
  (loop = "poll" /\ signalled /\ \A p \in Producers : Idle(p)) => readable
=============================================================================
