----------------------------- MODULE MCRecorder -----------------------------
(***************************************************************************)
(* The recording sink, for TLC: McapWriterEndpoint, which sees no more of  *)
(* the file writer than what its calls come to, and McapWriter, the file   *)
(* writer it owns.                                                         *)
(*                                                                         *)
(* The two share no variable, so a behaviour of both is a behaviour of     *)
(* each; this module explores the behaviours of one with the other at      *)
(* rest, which costs the sum of their states and not the product.          *)
(***************************************************************************)
EXTENDS McapWriterEndpoint, McapWriter

CONSTANTS left_eye, right_eye, late_eye, imu

VARIABLE focus           \* the component whose behaviour this is

-----------------------------------------------------------------------------
(* The endpoint: two bytes queued at most, so that a third evicts. *)
SmallPolicy == stale_eviction(2, 0, "BatchAll", 0)

(***************************************************************************)
(* The writer: a part is due at 64 bytes, forced at 72.  A keyframe counts *)
(* one byte.  A pair of keyframes and one bulky record make a part due,    *)
(* and there is room then to stage a pair and a frame, not two frames.     *)
(***************************************************************************)
Bulk == 62
SmallFrameSize == [key \in BOOLEAN |-> IF key THEN 1 ELSE Bulk]

Legacy ==
  [continuation |-> FALSE, on_keyframe |-> TRUE, max_bytes |-> 64,
   by_duration |-> FALSE, co_phased |-> TRUE, selected |-> {}, guard |-> 1,
   tolerance |-> 1, max_staged |-> 9, target |-> NoPoint, max_calls |-> 10,
   max_faults |-> 2]

Continuation ==
  [Legacy EXCEPT !.continuation = TRUE, !.co_phased = FALSE,
                 !.selected = {left_eye, right_eye}, !.max_calls = 6, !.max_faults = 1]

ByDuration(cfg) == [cfg EXCEPT !.max_bytes = 0, !.by_duration = TRUE]

SmallConfigs ==
  {Legacy, [Legacy EXCEPT !.on_keyframe = FALSE],
   Continuation,
   [ByDuration(Continuation) EXCEPT !.max_calls = 4],
   [Continuation EXCEPT !.target = 1, !.max_calls = 4],
   [Continuation EXCEPT !.on_keyframe = FALSE, !.max_calls = 4],
   [Continuation EXCEPT !.selected = {}, !.max_calls = 4]}

(* Keyframes of two sync points at stamps within and past the tolerance,   *)
(* frames before and after them, a camera the recording did not select and *)
(* a channel without video.                                                *)
Frame(chan, key, point, stamp, size) ==
  [chan |-> chan, key |-> key, point |-> point, stamp |-> stamp, size |-> size]

SmallFrames ==
  {Frame(c, TRUE, p[1], p[2], 1) :
     c \in {left_eye, right_eye}, p \in {<<1, 1>>, <<2, 1>>, <<2, 3>>}}
    \cup {Frame(left_eye, FALSE, NoPoint, 1, 6),
          Frame(right_eye, FALSE, NoPoint, 1, 6),
          Frame(right_eye, FALSE, NoPoint, 3, 6),
          Frame(late_eye, TRUE, 1, 1, 1),
          Frame(imu, FALSE, NoPoint, 1, Bulk)}

SmallSkews == {0, 1}

-----------------------------------------------------------------------------
(* The endpoint is explored beside one initial state of the writer. *)
OneConfig == CHOOSE cfg \in Configs : TRUE

MCInit ==
  /\ Init /\ FileInit /\ focus \in {"endpoint", "file"}
  /\ focus = "endpoint" => w.cfg = OneConfig /\ w.faults = w.cfg.max_faults

MCNext ==
  \/ focus = "endpoint" /\ Next /\ UNCHANGED <<file_vars, focus>>
  \/ focus = "file" /\ FileNext /\ UNCHANGED <<vars, focus>>

MCSpec ==
  /\ MCInit /\ [][MCNext]_<<vars, file_vars, focus>>
  /\ WF_vars(focus = "endpoint" /\ Writer)
  /\ \A s \in Stoppers \ Impatient :
       WF_vars(focus = "endpoint" /\ Stopper(s))
  /\ WF_file_vars(focus = "file" /\ (DeadlinePasses \/ CallFlushDue))

-----------------------------------------------------------------------------
(* Stop returns and what is staged reaches the file (StopFor's join,       *)
(* rotation_deadline and FlushDue).                                        *)
RecorderEnds == StopCompletes /\ (focus = "file" => StagedIsFlushed)
=============================================================================
