----------------------------- MODULE McapParts -----------------------------
(***************************************************************************)
(* The parts of a recording (McapWriter, cpp/src/mcap/writer/parts.cc, and *)
(* PartOutcome, cpp/src/mcap/part_outcome.hpp): opened, with retries; cut; *)
(* closed and handed to storage.                                           *)
(*                                                                         *)
(* The writer is one record w, and a procedure of the source an operator   *)
(* from w to the set of its outcomes: storage may fail at every step, as   *)
(* long as w.faults lasts.  A procedure that throws ends in an outcome     *)
(* with w.threw, which no later step of its callers touches.               *)
(***************************************************************************)
EXTENDS Integers, Sequences, FiniteSets

CONSTANTS
  Cameras,       \* channels of the compressed-video schema
  MaxAttempts,   \* kPartOpenAttempts
  MaxSkips       \* kPartNamesSkipped

ASSUME PartsAssumption ==
  MaxAttempts \in Nat \ {0} /\ MaxSkips \in Nat

NoPart == -1
NoPoint == 0     \* a SyncPoint that is not valid()
NoFrame == [key |-> FALSE, point |-> -1]

(* P, then Op unless P threw. *)
Then(outcomes, Op(_)) ==
  UNION {IF v.threw THEN {v} ELSE Op(v) : v \in outcomes}

(***************************************************************************)
(* PartOutcome::Note: the part has a failed step, and a lossy one may have *)
(* cost bytes; a step the volume will not get past refuses the recording.  *)
(***************************************************************************)
Note(w, lossy, ends) ==
  [w EXCEPT !.failed = TRUE, !.lost = @ \/ lossy, !.refused = @ \/ ends,
            !.faults = @ - 1]

(* A storage step of the current part: it succeeds or is noted. *)
Stored(w, lossy) ==
  {w} \cup {Note(w, lossy, ends) :
              ends \in IF w.faults > 0 THEN BOOLEAN ELSE {}}

storage_refused(w) == w.refused \/ w.ended

Rotating(w) == w.cfg.max_bytes > 0 \/ w.cfg.by_duration
Ceiling(w) == w.cfg.max_bytes + w.cfg.max_bytes \div 8

-----------------------------------------------------------------------------
(* When a part is cut.  w.age is 1 past max_duration, 2 past the waits     *)
(* that ForcedCutDue adds.                                                 *)

MustCut(w) == Rotating(w) /\ w.bytes > 0 /\ w.lost

ShouldRoll(w) ==
  w.bytes > 0 /\ \/ MustCut(w)
                 \/ w.cfg.max_bytes > 0 /\ w.bytes >= w.cfg.max_bytes
                 \/ w.cfg.by_duration /\ w.age >= 1

ForcedCutDue(w) ==
  \/ MustCut(w)
  \/ w.cfg.max_bytes > 0 /\ w.bytes >= Ceiling(w)
  \/ w.cfg.max_bytes = 0 /\ w.cfg.by_duration /\ w.bytes > 0 /\ w.age = 2

-----------------------------------------------------------------------------
(* OpenPart. *)

(* TryOpenPart up to the file: the part's own state starts again. *)
Begun(w) ==
  [w EXCEPT !.primed = IF w.cfg.continuation THEN @ ELSE {},
            !.max_video_ts = -1, !.bytes = 0, !.age = 0,
            !.failed = FALSE, !.lost = FALSE]

(* The part is open: its header and metadata are written. *)
Opened(w) ==
  Stored([w EXCEPT !.open = TRUE, !.file = w.part, !.attempts = 0, !.skips = 0,
                   !.after_end = @ \/ storage_refused(w),
                   !.starts = [c \in Cameras |-> NoFrame],
                   !.meta = [reason |-> w.reason, point |-> w.point]], TRUE)

EndOpening(w, ends) ==
  [w EXCEPT !.refused = @ \/ ends, !.failed = @ \/ ends, !.ended = TRUE,
            !.threw = TRUE, !.attempts = 0, !.skips = 0]

OpenMayRetry(w, name_taken) ==
  /\ name_taken => Rotating(w)
  /\ w.attempts < MaxAttempts /\ w.skips <= MaxSkips

(* A retry keeps the part's number unless a file holds the name. *)
NextName(w, name_taken) == IF name_taken THEN w.part + 1 ELSE w.part

(* OpenPart after an attempt that failed for a reason storage may get past. *)
Retried(w, name_taken) ==
  IF OpenMayRetry(w, name_taken)
  THEN [w EXCEPT !.part = NextName(w, name_taken),
                 !.taken = IF name_taken THEN @ \cup {w.part} ELSE @]
  ELSE EndOpening(w, FALSE)

(***************************************************************************)
(* One turn of OpenPart's loop.  A failed attempt leaves no file, or one   *)
(* that cannot be removed (both cost an attempt), or found another file    *)
(* under the name (which costs a skip), or met a volume that refuses.      *)
(***************************************************************************)
TryOpenPart(w) ==
  LET b == Begun(w)
      failed == [b EXCEPT !.faults = @ - 1]
      tried == [failed EXCEPT !.attempts = @ + 1]
      skipped == [failed EXCEPT !.skips = @ + 1]
  IN  Opened(b) \cup
        IF b.faults = 0 THEN {}
        ELSE {Retried(tried, FALSE), Retried(tried, TRUE),
              Retried(skipped, TRUE), EndOpening(failed, TRUE)}

(* One more turn, unless the part is open already. *)
NextTurn(outcomes) ==
  Then(outcomes, LAMBDA v : IF v.open THEN {v} ELSE TryOpenPart(v))

OpenPart(w) ==
  LET after[turns \in 0 .. MaxAttempts + MaxSkips] ==
        IF turns = 0 THEN {w} ELSE NextTurn(after[turns - 1])
  IN  after[MaxAttempts + MaxSkips]

-----------------------------------------------------------------------------
(* CloseCurrentPart and Roll. *)

DropsPart(w) ==
  /\ w.part > 0 \/ (w.cfg.continuation /\ w.status # "Ready")
  /\ w.bytes = 0 /\ ~w.failed

(* The file is closed; w.closed_twice says that it was not open. *)
FileClosed(w) ==
  [w EXCEPT !.file = NoPart, !.closed_twice = @ \/ w.file # w.part]

(* A part is dropped if it is empty and sound, else synced and completed. *)
CloseCurrentPart(w) ==
  IF DropsPart(w)
  THEN {FileClosed(v) : v \in Stored(w, TRUE)}
  ELSE {[FileClosed(v) EXCEPT !.kept = @ \cup {v.part}] :
          v \in UNION {Stored(u, FALSE) : u \in Stored(w, TRUE)}}

(* Mutant: the closed part's mcap writer stays. *)
WriterKept(w) == w

(* writer_.reset(): nothing is left that Close could close again. *)
WriterReset(w) == [w EXCEPT !.open = FALSE]

Roll(w) ==
  IF ~w.open THEN {w}
  ELSE Then(CloseCurrentPart(w),
            LAMBDA v : LET u == WriterReset(v)
                       IN  IF u.refused THEN {u}
                           ELSE OpenPart([u EXCEPT !.part = @ + 1]))
=============================================================================
