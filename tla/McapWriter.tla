----------------------------- MODULE McapWriter -----------------------------
(***************************************************************************)
(* McapWriter (cpp/src/mcap/writer/record.cc and continuation.cc): each    *)
(* message is written into the current part or, while a cut waits for      *)
(* every selected camera's keyframe, staged.  Two policies: the legacy one *)
(* cuts at a keyframe and warms every stream up again in each part; the    *)
(* continuation policy loses nothing across a cut.                         *)
(*                                                                         *)
(* One thread owns the writer, so a call is one step.  What the            *)
(* constructor is given is w.cfg, chosen in FileInit.  Fields of w after   *)
(* "observed" are not in the code: they record what the properties are     *)
(* about.                                                                  *)
(***************************************************************************)
EXTENDS McapParts

CONSTANTS
  Configs,       \* the constructor's arguments, with max_calls, max_faults (bounds)
  Frames,        \* messages, for a configuration without co-phased cameras
  MaxFrame,      \* the largest payload
  FrameSize,     \* FrameSize[key]: payload bytes of a co-phased camera's frame
  Skews          \* their capture times within a tick of 2

ASSUME RecordsAssumption ==
  /\ MaxFrame \in Nat /\ Skews \subseteq Nat
  /\ \A key \in BOOLEAN : FrameSize[key] \in 0 .. MaxFrame
  /\ \A m \in Frames : m.key \in BOOLEAN /\ m.size \in 0 .. MaxFrame

(* rotate_on_keyframe requires co-phased cameras (writer.hpp:102), whose   *)
(* siblings the guard holds together.                                      *)
ASSUME ConfigsAssumption ==
  \A cfg \in Configs :
    /\ cfg.continuation \in BOOLEAN /\ cfg.on_keyframe \in BOOLEAN
    /\ cfg.max_bytes \in Nat /\ cfg.max_staged \in Nat /\ cfg.guard \in Nat
    /\ ~cfg.continuation /\ cfg.on_keyframe =>
         cfg.co_phased /\ \A s, t \in Skews : s - t <= cfg.guard

(* The stage has room for the keyframe that begins a candidate.  The code  *)
(* does not see to it, and PartsStartDecodable fails without it.           *)
FitsStage(cfg) ==
  cfg.continuation =>
    \A m \in Frames : m.key /\ m.point # NoPoint => m.size <= cfg.max_staged

KeyframesFit == \A cfg \in Configs : FitsStage(cfg)

VARIABLES
  w,             \* the writer
  calls,         \* calls of Write so far
  grid           \* the co-phased cameras: tick, keyframes?, cameras to come

file_vars == <<w, calls, grid>>

IsVideo(m) == m.chan \in Cameras
Selected(v, m) == m.chan \in v.cfg.selected

-----------------------------------------------------------------------------
(* WriteRecord. *)

(* Mutant: the sibling of a keyframe already written starts a new pair. *)
StartsAnyPair(v, m) == IsVideo(m) /\ m.key /\ m.stamp > v.max_video_ts - v.cfg.guard

StartsNewPair(v, m) ==
  IsVideo(m) /\ m.key /\ (m.stamp > v.max_video_ts + v.cfg.guard
                            \/ v.max_video_ts = -1)

(* Mutant: while keyframes stall, nothing but a lossy part is cut. *)
NoCeiling(v) == MustCut(v)

HardCeiling(v) == MustCut(v) \/ (v.cfg.max_bytes > 0 /\ v.bytes >= Ceiling(v))

(* The legacy policy's cut, before the record that begins the next part. *)
LegacyRoll(v, m) ==
  IF v.cfg.continuation \/ ~Rotating(v) THEN {v}
  ELSE IF v.cfg.on_keyframe
       THEN IF ShouldRoll(v) /\ StartsNewPair(v, m)
            THEN Roll([v EXCEPT !.at_keyframe = TRUE])
            ELSE IF HardCeiling(v) THEN Roll([v EXCEPT !.at_keyframe = FALSE])
                 ELSE {v}
       ELSE IF ShouldRoll(v) THEN Roll([v EXCEPT !.at_keyframe = FALSE])
            ELSE {v}

(* The record goes to storage, which may refuse it. *)
Appended(v, m) ==
  {IF u.refused THEN u
   ELSE [u EXCEPT
           !.bytes = @ + m.size,
           !.owed = IF u.status = "Ready" /\ u.cfg.continuation THEN @ - 1
                    ELSE @,
           !.max_video_ts = IF IsVideo(m) /\ ~u.cfg.continuation /\ m.stamp > @
                            THEN m.stamp ELSE @,
           !.starts = IF IsVideo(m) /\ u.starts[m.chan] = NoFrame
                      THEN [@ EXCEPT ![m.chan] =
                              [key |-> m.key, point |-> m.point]]
                      ELSE @] :
     u \in Stored([v EXCEPT !.after_end = @ \/ storage_refused(v)], TRUE)}

(* Mutant: a stream that was primed in an earlier part passes the gate. *)
GatedOnce(v, m) ==
  IsVideo(m) /\ (v.cfg.continuation => Selected(v, m)) /\ m.chan \notin v.ever

(* The keyframe gate: a stream of this part waits for its first keyframe. *)
Gated(v, m) ==
  IsVideo(m) /\ (v.cfg.continuation => Selected(v, m)) /\ m.chan \notin v.primed

WarmedUp(v, m) ==
  IF ~Gated(v, m) THEN Appended(v, m)
  ELSE IF ~m.key
       THEN {[v EXCEPT !.hole = @ \/ (m.chan \in v.ever /\ v.at_keyframe)]}
       ELSE Appended([v EXCEPT !.primed = @ \cup {m.chan},
                               !.ever = @ \cup {m.chan}], m)

Writable(v) == ~v.closed /\ v.open /\ ~storage_refused(v)

WriteRecord(v, m) ==
  IF ~Writable(v) THEN {v}
  ELSE Then(LegacyRoll(v, m),
            LAMBDA u : IF ~u.open \/ u.refused THEN {u} ELSE WarmedUp(u, m))

(* A record written while the stage holds older ones of its channel. *)
WriteDirectly(v, m) ==
  WriteRecord([v EXCEPT !.overtook =
                 @ \/ \E i \in DOMAIN v.staged : v.staged[i].chan = m.chan], m)

-----------------------------------------------------------------------------
(* Staging. *)

RollAs(v, reason) == Roll([v EXCEPT !.reason = reason])

ForceRollIfDue(v) == IF ForcedCutDue(v) THEN RollAs(v, "forced") ELSE {v}

Unstaged(v) == [v EXCEPT !.staged = <<>>, !.cand = {}, !.owed = 0]

FailStart(v) == [Unstaged(v) EXCEPT !.status = "TimedOut", !.late = FALSE]

(* One turn of FlushStaged's loop, for the entry at the front. *)
FlushFront(v, m, rotate, allow_forced) ==
  Then(IF allow_forced /\ (~rotate \/ MustCut(v)) THEN ForceRollIfDue(v)
       ELSE {v},
       LAMBDA u : {[x EXCEPT !.staged = Tail(@)] : x \in WriteRecord(u, m)})

(* What precedes the first entry: the cut, or the start's metadata. *)
FlushCut(v, rotate) ==
  IF ~rotate THEN {v}
  ELSE IF v.status = "Waiting" THEN {[v EXCEPT !.meta.point = v.point]}
  ELSE RollAs(v, "aligned")

(* The loop, over the entries there were at its start. *)
Flushed(v, rotate, allow_forced) ==
  LET after[n \in 0 .. Len(v.staged)] ==
        IF n = 0 THEN FlushCut(v, rotate)
        ELSE Then(after[n - 1], LAMBDA u :
                    FlushFront(u, v.staged[n], rotate, allow_forced))
  IN  after[Len(v.staged)]

FlushStaged(v, rotate, allow_forced) ==
  IF v.staged = <<>> THEN {v}
  ELSE Then(Flushed(v, rotate, allow_forced), LAMBDA u :
         {[u EXCEPT !.cand = {}, !.late = FALSE,
                    !.status = IF v.status = "Waiting" /\ rotate THEN "Ready"
                               ELSE @]})

(* Mutant: only the start has a deadline. *)
HasStartDeadline(v) == v.status = "Waiting"

(* rotation_deadline: there is one while a cut is staged or a start waits. *)
HasDeadline(v) == v.staged # <<>> \/ v.status = "Waiting"

FlushDue(v) ==
  IF ~HasDeadline(v) \/ ~v.late THEN {v}
  ELSE IF v.status = "Waiting" THEN {FailStart(v)}
       ELSE FlushStaged(v, FALSE, TRUE)

-----------------------------------------------------------------------------
(* WriteContinuation. *)

(* No candidate is staged: the record goes to the part, which is not       *)
(* begun while the start waits.                                            *)
Unheld(v, m) == IF v.status = "Waiting" THEN {v} ELSE WriteDirectly(v, m)

(* The candidate's point, and its deadline counted from now. *)
BeginCandidate(v, m) ==
  [v EXCEPT !.point = m.point, !.lo = m.stamp, !.hi = m.stamp,
            !.cand = {m.chan},
            !.late = IF v.status = "Waiting" THEN @ ELSE FALSE]

JoinCandidate(v, m) ==
  [v EXCEPT !.cand = @ \cup {m.chan},
            !.lo = IF m.stamp < @ THEN m.stamp ELSE @,
            !.hi = IF m.stamp > @ THEN m.stamp ELSE @]

StagedBytes(v) ==
  LET sum[n \in 0 .. Len(v.staged)] ==
        IF n = 0 THEN 0 ELSE sum[n - 1] + v.staged[n].size
  IN  sum[Len(v.staged)]

HasRoom(v, m) == StagedBytes(v) + m.size <= v.cfg.max_staged

(* Mutant: the record that finds no room is written ahead of the stage. *)
StageOvertaken(v, m) ==
  IF v.status = "Waiting" THEN {FailStart(v)} ELSE WriteDirectly(v, m)

(* No room in the stage: the cut is given up. *)
StageOverflow(v, m) ==
  IF v.status = "Waiting" THEN {FailStart(v)}
  ELSE Then(Then(FlushStaged(v, FALSE, TRUE), ForceRollIfDue),
            LAMBDA u : WriteDirectly(u, m))

StageFillsPart(v) ==
  /\ v.status # "Waiting" /\ v.cfg.max_bytes > 0
  /\ v.bytes + StagedBytes(v) >= Ceiling(v)

Stage(v, m, idr) ==
  LET held == [v EXCEPT !.staged = Append(@, m)]
      joined == IF idr /\ m.point = v.point /\ m.chan \notin v.cand
                THEN JoinCandidate(held, m) ELSE held
  IN  IF ~HasRoom(v, m) THEN StageOverflow(v, m)
      ELSE IF joined.cand = v.cfg.selected THEN FlushStaged(joined, TRUE, TRUE)
      ELSE IF StageFillsPart(joined) THEN FlushStaged(joined, FALSE, TRUE)
      ELSE {joined}

(* The cut cannot or need not wait for keyframes. *)
CutsAtOnce(v) ==
  v.status # "Waiting" /\ \/ ForcedCutDue(v)
                          \/ v.cfg.selected = {} \/ ~v.cfg.on_keyframe

(* With no candidate: a cut that is due is made, or a candidate begun. *)
Decided(v, m, idr) ==
  LET due == v.status = "Waiting" \/ (Rotating(v) /\ ShouldRoll(v))
  IN  IF v.cand # {} THEN Stage(v, m, idr)
      ELSE IF due /\ CutsAtOnce(v)
           THEN Then(RollAs(v, "forced"), LAMBDA u : Unheld(u, m))
      ELSE IF due /\ idr THEN Stage(BeginCandidate(v, m), m, idr)
      ELSE Unheld(v, m)

(* A frame captured before the candidate stays in the old part. *)
Precedes(v, m) == m.stamp < v.lo - v.cfg.tolerance

Preceding(v, m) ==
  IF v.status = "Waiting" THEN {v}
  ELSE Then(IF ForcedCutDue(v)
            THEN Then(FlushStaged(v, FALSE, TRUE), ForceRollIfDue) ELSE {v},
            LAMBDA u : WriteDirectly(u, m))

Spread(v, m) ==
  (IF m.stamp > v.hi THEN m.stamp ELSE v.hi)
    - (IF m.stamp < v.lo THEN m.stamp ELSE v.lo)

(* A frame of a camera that the candidate still waits for. *)
Outsider(v, m) == v.cand # {} /\ Selected(v, m) /\ m.chan \notin v.cand

FitsCandidate(v, m, idr) ==
  idr /\ m.point = v.point /\ Spread(v, m) <= v.cfg.tolerance

Placed(v, m, idr) ==
  IF ~Outsider(v, m) THEN Decided(v, m, idr)
  ELSE IF Precedes(v, m) THEN Preceding(v, m)
  ELSE IF FitsCandidate(v, m, idr) THEN Stage(v, m, idr)
  ELSE IF v.status = "Waiting" THEN {FailStart(v)}
  ELSE Then(FlushStaged(v, FALSE, TRUE), LAMBDA u : Decided(u, m, idr))

(* Before the start: a first frame that is not the armed target's. *)
MissesTarget(v, m) ==
  /\ v.status = "Waiting" /\ v.cfg.target # NoPoint
  /\ Selected(v, m) /\ m.chan \notin v.cand
  /\ ~m.key \/ m.point # v.cfg.target

IsIdr(v, m) ==
  /\ Selected(v, m) /\ m.key /\ m.point # NoPoint
  /\ v.cand # {} \/ v.status = "Waiting" \/ m.point # v.point

(* The frame is part of this recording: no camera joins it later. *)
Belongs(v, m) == IsVideo(m) => Selected(v, m)

Accepted(v, m) ==
  IF v.status = "TimedOut" \/ ~Belongs(v, m) \/ MissesTarget(v, m) THEN {v}
  ELSE Placed(v, m, IsIdr(v, m))

WriteContinuation(v, m) == Then(FlushDue(v), LAMBDA u : Accepted(u, m))

-----------------------------------------------------------------------------
(* The calls. *)

(* Every frame the recording has to keep is owed to it until written. *)
Owed(v, m) ==
  IF v.cfg.continuation /\ v.status = "Ready" /\ Belongs(v, m)
  THEN [v EXCEPT !.owed = @ + 1] ELSE v

Outcomes(v, m) ==
  IF ~Writable(v) THEN {v}
  ELSE IF v.cfg.continuation THEN WriteContinuation(Owed(v, m), m)
       ELSE WriteRecord(v, m)

(* A call on a writer that takes nothing more changes nothing.             *)
Write(m) ==
  /\ calls < w.cfg.max_calls \/ ~Writable(w)
  /\ calls' = IF Writable(w) THEN calls + 1 ELSE calls
  /\ \E v \in Outcomes(w, m) : w' = [v EXCEPT !.threw = FALSE]

WriteFrame ==
  ~w.cfg.co_phased /\ UNCHANGED grid /\ \E m \in Frames : Write(m)

(* Co-phased cameras: each sends one frame of a tick before any sends one  *)
(* of the next, and their keyframes fall on the same ticks.                *)
CoPhased(c, skew) ==
  [chan |-> c, key |-> grid.key, point |-> NoPoint,
   stamp |-> 2 * grid.tick + skew, size |-> FrameSize[grid.key]]

NextGrid(left) ==
  IF left # {} THEN grid' = [grid EXCEPT !.left = left]
  ELSE \E key \in BOOLEAN :
         grid' = [tick |-> grid.tick + 1, key |-> key, left |-> Cameras]

WriteCoPhased ==
  /\ w.cfg.co_phased
  /\ \E c \in grid.left, skew \in Skews :
       /\ Write(CoPhased(c, skew))
       /\ IF Writable(w) THEN NextGrid(grid.left \ {c}) ELSE UNCHANGED grid

(* The writer thread's call between two batches; not after an exception.   *)
CallFlushDue ==
  /\ HasDeadline(w) /\ w.late /\ ~storage_refused(w) /\ ~w.closed
  /\ \E v \in FlushDue(w) : w' = [v EXCEPT !.threw = FALSE]
  /\ UNCHANGED <<calls, grid>>

Finished(v) ==
  LET u == [v EXCEPT !.closed = TRUE]
  IN  IF u.open THEN CloseCurrentPart(u) ELSE {u}

CloseFile ==
  /\ ~w.closed
  /\ w' \in Then(IF w.status = "Ready" THEN FlushStaged(w, FALSE, FALSE)
                 ELSE {Unstaged(w)}, Finished)
  /\ UNCHANGED <<calls, grid>>

(* Time: the part grows older, or the current deadline passes.  A cut      *)
(* staged by duration is due by the time a forced one is.                  *)
GrowsOlder ==
  /\ w.cfg.by_duration /\ w.age < 2 /\ ~w.closed
  /\ w' = [w EXCEPT !.age = @ + 1,
                    !.late = @ \/ (w.age = 1 /\ w.cfg.max_bytes = 0
                                     /\ w.status = "Ready" /\ w.staged # <<>>)]
  /\ UNCHANGED <<calls, grid>>

DeadlinePasses ==
  /\ HasDeadline(w) /\ ~w.late /\ ~w.closed
  /\ w' = [w EXCEPT !.late = TRUE]
  /\ UNCHANGED <<calls, grid>>
-----------------------------------------------------------------------------
(* The constructor: its first part may already fail to open. *)
New(cfg) ==
  [cfg |-> cfg,
   status |-> IF cfg.continuation /\ cfg.selected # {} THEN "Waiting"
              ELSE "Ready",
   closed |-> FALSE, open |-> FALSE, part |-> 0, bytes |-> 0, age |-> 0,
   lost |-> FALSE, failed |-> FALSE, refused |-> FALSE, ended |-> FALSE,
   reason |-> "initial", point |-> NoPoint, cand |-> {}, lo |-> 0, hi |-> 0,
   late |-> FALSE, staged |-> <<>>, primed |-> {}, ever |-> {},
   max_video_ts |-> -1, attempts |-> 0, skips |-> 0, threw |-> FALSE,
   faults |-> cfg.max_faults,
   (* observed *)
   file |-> NoPart, meta |-> [reason |-> "initial", point |-> NoPoint],
   starts |-> [c \in Cameras |-> NoFrame], kept |-> {}, taken |-> {},
   closed_twice |-> FALSE, after_end |-> FALSE, owed |-> 0,
   overtook |-> FALSE, hole |-> FALSE, at_keyframe |-> FALSE]

FileInit ==
  /\ \E cfg \in Configs : \E v \in OpenPart(New(cfg)) : ~v.threw /\ w = v
  /\ calls = 0
  /\ grid = [tick |-> 0, key |-> TRUE, left |-> Cameras]

FileNext ==
  \/ WriteFrame \/ WriteCoPhased
  \/ CallFlushDue \/ CloseFile \/ GrowsOlder \/ DeadlinePasses

FileSpec == FileInit /\ [][FileNext]_file_vars

(* The endpoint's timed wait ends at the deadline and calls FlushDue.      *)
FairFileSpec == FileSpec /\ WF_file_vars(DeadlinePasses \/ CallFlushDue)

-----------------------------------------------------------------------------
(* Properties. *)

(***************************************************************************)
(* Every part that claims to stand alone does: a camera's first frame in   *)
(* it is a keyframe (the gate in WriteRecord), and in a part the metadata  *)
(* marks as the start or as an aligned cut, the keyframe of the very sync  *)
(* point the metadata names (FlushStaged, WriteRotationMetadata).          *)
(***************************************************************************)
PartsStartDecodable ==
  \A c \in Cameras : w.starts[c] # NoFrame =>
    \/ w.cfg.continuation /\ w.meta.reason = "forced"
    \/ w.starts[c].key /\ (w.cfg.continuation => w.starts[c].point = w.meta.point)

(***************************************************************************)
(* A cut at a keyframe costs co-phased cameras no frame: no pair is split  *)
(* by it, so that no sibling waits a GOP at the gate (rotate_on_keyframe). *)
(***************************************************************************)
NoHoleAtKeyframeCut == ~w.hole

(***************************************************************************)
(* Once started, the continuation policy keeps every frame it is given, in *)
(* the order of its channel: it is written or staged, whatever becomes of  *)
(* the cut, until storage ends the recording; closing loses none           *)
(* (WriteContinuation, FlushStaged, CloseFile).                            *)
(***************************************************************************)
ContinuationLossless ==
  w.cfg.continuation /\ w.status = "Ready" /\ ~storage_refused(w) =>
    /\ w.owed = Len(w.staged) /\ ~w.overtook
    /\ w.closed => w.staged = <<>>

(***************************************************************************)
(* A reader takes a gap in the part numbers for a lost part: each number   *)
(* below the current one is a finished part or a name some other file      *)
(* holds.  No part is closed twice, even when its successor could not be   *)
(* opened, and nothing is written or opened after the recording ended      *)
(* (OpenPart, Roll, CloseCurrentPart, Write).                              *)
(***************************************************************************)
PartSequence ==
  /\ 0 .. w.part - 1 \subseteq w.kept \cup w.taken
  /\ w.kept \cap w.taken = {}
  /\ ~w.closed_twice /\ ~w.after_end

(* A part outgrows the byte ceiling by a frame and what was staged at most *)
(* (ShouldRoll, ForcedCutDue and the stage's share in WriteContinuation;   *)
(* the start's group and what Close drains go to one part, uncut).         *)
PartBounded ==
  w.cfg.max_bytes > 0 =>
    w.bytes < Ceiling(w) + MaxFrame
                + (IF w.cfg.continuation THEN w.cfg.max_staged ELSE 0)

(* Every part that claims to be decodable alone is, and a cut at a         *)
(* keyframe opens no hole (WriteRecord's gate and starts_new_pair, and     *)
(* FlushStaged's aligned cut).                                             *)
CutsDecodable == PartsStartDecodable /\ NoHoleAtKeyframeCut

(* The parts hold everything, in order, each in its number and its bound   *)
(* (WriteContinuation, OpenPart, Roll, ForcedCutDue).                      *)
PartsSound == ContinuationLossless /\ PartSequence /\ PartBounded

(* What is staged is written in the end, though no camera may ever send    *)
(* again (rotation_deadline, FlushDue).                                    *)
StagedIsFlushed ==
  w.staged # <<>> ~> w.staged = <<>> \/ storage_refused(w)
=============================================================================
