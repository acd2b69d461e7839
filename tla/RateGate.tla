------------------------------ MODULE RateGate ------------------------------
(***************************************************************************)
(* A viewer's delivery filter on one leg (SetStreamPolicy, PassesRateGate  *)
(* and the rule checks of EnqueueOne, cpp/src/transport/framed_fd.cc): a   *)
(* stream is dropped, capped to one message per min_gap_us of capture      *)
(* time, or kept.  Every call is serialized by the bus dispatch mutex.     *)
(*                                                                         *)
(* Capture times are drawn in any order: a producer may step its clock,    *)
(* replay, or mix stamped and unstamped messages, and all the gate sees of *)
(* that is the time it computes.                                           *)
(***************************************************************************)
EXTENDS Integers, FiniteSets

CONSTANTS
  Streams,       \* stream ids
  MaxGap,        \* rules cap at gaps 1 .. MaxGap
  EpochReset,    \* kDecimEpochResetUs
  MaxTime,       \* bound: capture times
  MaxMessages    \* bound: messages sent in a run

Times == 1 .. MaxTime

(* A StreamRule; a stream with no rule is kept at full rate. *)
Rules == [drop : BOOLEAN, min_gap_us : 0 .. MaxGap]
NoRule == [drop |-> FALSE, min_gap_us |-> 0]

VARIABLES
  policy,    \* policy_: the rule of each stream
  grid,      \* decim_grid_us_: per stream, 0 when absent
  sent,      \* messages sent so far
  passed,    \* history, per stream: the capture times that passed under this
             \* gap and in this epoch ...
  passes,    \* ... how many messages they were ...
  newest     \* ... and the last of them; 0 when there is none

vars == <<policy, grid, sent, passed, passes, newest>>

-----------------------------------------------------------------------------
(* Too far behind the slot of the last message to be jitter. *)
NewEpoch(s, t, gap) == grid[s] - gap - t > EpochReset

PassesRateGate(s, t, gap) == t >= grid[s] \/ NewEpoch(s, t, gap)

(***************************************************************************)
(* The grid after a message passes: the first slot strictly after it,      *)
(* stepping whole periods from the grid, or from 0 in a new epoch.         *)
(***************************************************************************)
Stepped(s, t, gap) ==
  LET from == IF t < grid[s] THEN 0 ELSE grid[s]
  IN  from + gap * (1 + (t - from) \div gap)

(* The rule checks of EnqueueOne, for a message captured at t. *)
Send(s, t, bulk) ==
  LET rule == policy[s]
      capped == ~rule.drop /\ rule.min_gap_us # 0 /\ ~bulk
      fresh == newest[s] - t > EpochReset
  IN  /\ sent < MaxMessages
      /\ sent' = sent + 1
      /\ IF capped /\ PassesRateGate(s, t, rule.min_gap_us)
         THEN /\ grid' = [grid EXCEPT ![s] = Stepped(s, t, rule.min_gap_us)]
              /\ newest' = [newest EXCEPT ![s] = t]
              /\ passed' = [passed EXCEPT ![s] = IF fresh THEN {t} ELSE @ \cup {t}]
              /\ passes' = [passes EXCEPT ![s] = IF fresh THEN 1 ELSE @ + 1]
         ELSE UNCHANGED <<grid, newest, passed, passes>>
      /\ UNCHANGED policy

SameGap(s, p) ==
  p[s].min_gap_us # 0 /\ p[s].min_gap_us = policy[s].min_gap_us

KeepsNone(s, p) == FALSE                        \* mutant: clear wholesale
KeepsCapped(s, p) == p[s].min_gap_us # 0        \* mutant: keep a stale grid

(* Which streams keep their phase across an install. *)
KeepsPhase(s, p) == SameGap(s, p)

SetStreamPolicy(p) ==
  /\ policy' = p
  /\ grid' = [s \in Streams |-> IF KeepsPhase(s, p) THEN grid[s] ELSE 0]
  /\ newest' = [s \in Streams |-> IF SameGap(s, p) THEN newest[s] ELSE 0]
  /\ passed' = [s \in Streams |-> IF SameGap(s, p) THEN passed[s] ELSE {}]
  /\ passes' = [s \in Streams |-> IF SameGap(s, p) THEN passes[s] ELSE 0]
  /\ UNCHANGED sent

-----------------------------------------------------------------------------
Init ==
  /\ policy = [s \in Streams |-> NoRule]
  /\ grid = [s \in Streams |-> 0]
  /\ sent = 0
  /\ passed = [s \in Streams |-> {}]
  /\ passes = [s \in Streams |-> 0]
  /\ newest = [s \in Streams |-> 0]

Next ==
  \/ \E s \in Streams, t \in Times, bulk \in BOOLEAN : Send(s, t, bulk)
  \/ \E p \in [Streams -> Rules] : SetStreamPolicy(p)

Spec == Init /\ [][Next]_vars

-----------------------------------------------------------------------------
(* Properties. *)

(***************************************************************************)
(* The cap holds: within an epoch no two messages pass in one slot of      *)
(* min_gap_us, however often an identical policy is installed again        *)
(* ("each clear restarts the phase and lets one extra message through").   *)
(***************************************************************************)
CapHolds ==
  \A s \in Streams :
    LET gap == policy[s].min_gap_us
    IN  gap # 0 =>
          passes[s] = Cardinality({t \div gap : t \in passed[s]})

(***************************************************************************)
(* No stream is muted: under the rule in force a message a whole period    *)
(* after the last that passed goes through, and so does one from an epoch  *)
(* long before it.                                                         *)
(***************************************************************************)
NotMuted ==
  \A s \in Streams :
    LET gap == policy[s].min_gap_us
    IN  gap # 0 =>
          \A t \in Times :
            (\/ newest[s] = 0
             \/ t >= newest[s] + gap
             \/ newest[s] - t >= EpochReset + gap)
              => PassesRateGate(s, t, gap)
=============================================================================
