------------------------------ MODULE Keyframes ------------------------------
(***************************************************************************)
(* visio_schema.reader.session: the sparse reads of one video topic, which *)
(* look at every access unit and decode none but keyframes: how far apart  *)
(* they are, every n-th of them, and the keyframes of several topics in a  *)
(* window.  A file is the access units of its topics in stamp order.       *)
(***************************************************************************)
EXTENDS Integers, Sequences, FiniteSets, SequencesExt

CONSTANTS
  CadenceKeyframes,   \* _CADENCE_KEYFRAMES
  CadenceAus          \* _CADENCE_AUS

None == -1
Lowest(S) == CHOOSE x \in S : \A y \in S : x <= y
InWindow(t, start, end) == (start = None \/ t >= start) /\ (end = None \/ t < end)

(* is_keyframe: an access unit is one, is not, or is of a codec that has   *)
(* no parser.                                                              *)
IsKeyframe(au) == IF au.codec = "av1" THEN "unknown" ELSE IF au.key THEN "yes" ELSE "no"

Stamps(f) == {f.aus[i].t : i \in DOMAIN f.aus}
SpansWindow(f, start, end) ==
  \/ f.aus = <<>>
  \/ /\ end = None \/ \E t \in Stamps(f) : t < end
     /\ start = None \/ \E t \in Stamps(f) : t >= start

(* _video_files and _iter_video_aus.                                       *)
VideoFiles(files, topic, start, end) ==
  SelectSeq(files, LAMBDA f : topic \in f.topics /\ SpansWindow(f, start, end))
VideoAus(f, topic, start, end) ==
  SelectSeq(f.aus, LAMBDA au : au.topic = topic /\ InWindow(au.t, start, end))

(* _require_video_topic.                                                   *)
IsVideoTopic(files, topic) == \E i \in DOMAIN files : topic \in files[i].topics

-----------------------------------------------------------------------------
\* _measure_cadence

(* The part of a file the probe looks at: up to its last keyframe wanted,  *)
(* or its last access unit allowed.                                        *)
Probed(aus) ==
  LET keys(n) == Cardinality({i \in 1..n : aus[i].key})
      stops == {n \in DOMAIN aus : keys(n) >= CadenceKeyframes \/ n >= CadenceAus}
  IN SubSeq(aus, 1, IF stops = {} THEN Len(aus) ELSE Lowest(stops))
Sorted(S) == SetToSortSeq(S, <)
HalfToEven(n) == IF n % 4 = 3 THEN n \div 2 + 1 ELSE n \div 2    \* round(n / 2)
Median(seq) ==      \* of np.diff, rounded: the middle one, or half the sum of the middle two
  LET s == SortSeq(seq, <)   n == Len(seq)
  IN IF n % 2 = 1 THEN s[(n + 1) \div 2] ELSE HalfToEven(s[n \div 2] + s[n \div 2 + 1])
Gaps(s) == [i \in 1..(Len(s) - 1) |-> s[i + 1] - s[i]]

(* The first file that shows two keyframes at different stamps.  An access *)
(* unit met on the way whose codec has no parser is an error.              *)
MeasureCadence(files, topic) ==
  LET file(f) == Probed(VideoAus(f, topic, None, None))
      unparsed(f) == \E i \in DOMAIN file(f) : IsKeyframe(file(f)[i]) = "unknown"
      keys(f) == SelectSeq(file(f), LAMBDA au : au.key)
      period(f) == Median(Gaps([i \in DOMAIN keys(f) |-> keys(f)[i].t]))
      ends == SelectSeq(VideoFiles(files, topic, None, None),
                        LAMBDA f : unparsed(f) \/ (Len(keys(f)) >= 2 /\ period(f) > 0))
  IN CASE ~IsVideoTopic(files, topic) -> [period |-> None, raised |-> "topic"]
       [] IsVideoTopic(files, topic) /\ ends = <<>> -> [period |-> None, raised |-> "none"]
       [] OTHER -> IF unparsed(Head(ends)) THEN [period |-> None, raised |-> "codec"]
                   ELSE [period |-> period(Head(ends)), raised |-> "none"]

(* Mutant: an access unit that cannot be parsed is no keyframe.            *)
MeasureCadenceUnparsed(files, topic) ==
  LET keys(f) == SelectSeq(Probed(VideoAus(f, topic, None, None)),
                           LAMBDA au : IsKeyframe(au) = "yes")
      period(f) == Median(Gaps([i \in DOMAIN keys(f) |-> keys(f)[i].t]))
      ends == SelectSeq(VideoFiles(files, topic, None, None),
                        LAMBDA f : Len(keys(f)) >= 2 /\ period(f) > 0)
  IN [period |-> IF ends = <<>> THEN None ELSE period(Head(ends)), raised |-> "none"]

-----------------------------------------------------------------------------
\* keyframe_stream

(* One count for the call, across files: every n-th keyframe from the      *)
(* first in the window.  Access units and no keyframe among them is an     *)
(* error, as is a codec with no parser.                                    *)
KeyframeStream(files, topic, every_n, start, end) ==
  LET Au(s, au) ==
        CASE s.raised # "none" -> s
          [] IsKeyframe(au) = "unknown" -> [s EXCEPT !.raised = "codec"]
          [] IsKeyframe(au) = "no" -> [s EXCEPT !.aus = @ + 1]
          [] OTHER -> [s EXCEPT !.aus = @ + 1, !.seen = @ + 1,
                         !.out = IF s.seen % every_n = 0 THEN Append(@, au) ELSE @]
      File(s, f) == FoldLeft(Au, s, VideoAus(f, topic, start, end))
      done == FoldLeft(File, [aus |-> 0, seen |-> 0, out |-> <<>>, raised |-> "none"],
                       VideoFiles(files, topic, start, end))
  IN CASE every_n < 1 -> [out |-> <<>>, raised |-> "arguments"]
       [] every_n >= 1 /\ ~IsVideoTopic(files, topic) -> [out |-> <<>>, raised |-> "topic"]
       [] OTHER -> [out |-> done.out,
                    raised |-> IF done.raised = "none" /\ done.aus > 0 /\ done.seen = 0
                               THEN "no keyframe" ELSE done.raised]

-----------------------------------------------------------------------------
\* keyframe_records

(* _keyframe_records_file.                                                 *)
FileKeyframes(f, topics, start, end) ==
  SelectSeq(f.aus, LAMBDA au : au.topic \in topics /\ au.key /\ InWindow(au.t, start, end))

RECURSIVE MergeByTime(_)
MergeByTime(gens) ==
  LET open == {g \in DOMAIN gens : gens[g] # <<>>}
      next == Lowest({g \in open : \A h \in open : Head(gens[g]).t <= Head(gens[h]).t})
  IN IF open = {} THEN <<>>
     ELSE <<Head(gens[next])>> \o MergeByTime([gens EXCEPT ![next] = Tail(@)])

(* Mutant: what two files repeat comes twice.                              *)
DeduplicatedNever(records) == [out |-> records, raised |-> "none"]

(* _merge_keyframe_records: what two files repeat at a seam comes once; a  *)
(* stamp that two files fill differently is an error.                      *)
Deduplicated(records) ==
  LET Step(s, r) ==
        LET last == IF r.topic \in DOMAIN s.last THEN s.last[r.topic] ELSE None
        IN IF s.raised # "none" THEN s
           ELSE IF last # None /\ s.rows[last].t = r.t
           THEN IF s.rows[last].data # r.data THEN [s EXCEPT !.raised = "conflict"] ELSE s
           ELSE [s EXCEPT !.rows = Append(@, r),
                          !.last = (r.topic :> Len(s.rows) + 1) @@ @]
      none == [t \in {} |-> None]
      done == FoldLeft(Step, [rows |-> <<>>, last |-> none, raised |-> "none"], records)
  IN [out |-> done.rows, raised |-> done.raised]

KeyframeRecords(files, topics, start, end) ==
  LET sources == SelectSeq(files, LAMBDA f : SpansWindow(f, start, end) /\ f.topics \cap topics # {})
  IN CASE topics = {} \/ start >= end \/ \E t \in topics : ~IsVideoTopic(files, t) ->
            [out |-> <<>>, raised |-> "arguments"]
       [] \E i \in DOMAIN sources : ~sources[i].chunk_indexed -> [out |-> <<>>, raised |-> "not indexed"]
       [] \E i \in DOMAIN sources : \E au \in Range(sources[i].aus) :
            au.topic \in topics /\ IsKeyframe(au) = "unknown" /\ InWindow(au.t, start, end) ->
            [out |-> <<>>, raised |-> "codec"]
       [] OTHER -> Deduplicated(MergeByTime(
            [i \in DOMAIN sources |-> FileKeyframes(sources[i], topics, start, end)]))

-----------------------------------------------------------------------------
All(files) == UNION {Range(files[i].aus) : i \in DOMAIN files}

(* Every n-th keyframe of the window, counted over the whole session and   *)
(* never from anew at a file; none at all is an error, not an empty answer.*)
EveryNth(files, topic, every_n, start, end) ==
  LET got == KeyframeStream(files, topic, every_n, start, end)
      aus == FlattenSeq([i \in DOMAIN files |-> VideoAus(files[i], topic, start, end)])
      keys == SelectSeq(aus, LAMBDA au : au.key)
  IN /\ got.raised = "none" =>
          /\ Len(got.out) = (Len(keys) + every_n - 1) \div every_n
          /\ \A i \in DOMAIN got.out : got.out[i] = keys[(i - 1) * every_n + 1]
     /\ got.raised = "none" /\ aus # <<>> => got.out # <<>>

(* A measured cadence is a spacing some file has between keyframes, though *)
(* only the head of each file is probed; a file with two of them in it and *)
(* no more access units than are probed is measured, unless an access unit *)
(* on the way has a codec with no parser: that is an error, never a cadence*)
(* and never the "too short to tell" of a whole answer, and the stream of  *)
(* every keyframe of the session fails then too.                           *)
CadenceTrue(files, topic) ==
  LET got == MeasureCadence(files, topic)
      aus(i) == SelectSeq(files[i].aus, LAMBDA au : au.topic = topic)
      keys(i) == {au \in Range(aus(i)) : au.key}
      apart(i) == {x.t - y.t : x \in keys(i), y \in keys(i)}
      unknown(i) == {n \in DOMAIN aus(i) : IsKeyframe(aus(i)[n]) = "unknown"}
  IN /\ got.period # None => \E i \in DOMAIN files :
                               \E lo, hi \in apart(i) : /\ 0 < lo /\ lo <= got.period /\ got.period <= hi
                                                        /\ 1 \notin unknown(i)
     /\ got.raised = "none" /\ (\E i \in DOMAIN files : Cardinality(keys(i)) > 1 /\ Len(aus(i)) <= CadenceAus)
          => got.period # None
     /\ got.raised = "none" /\ got.period = None => \A i \in DOMAIN files : 1 \notin unknown(i)
     /\ got.raised = "codec" => /\ \E i \in DOMAIN files : unknown(i) # {}
                                /\ KeyframeStream(files, topic, 1, None, None).raised = "codec"

(* The records are the keyframes of the window, each once and in order; an *)
(* error is a stamp that two different pictures claim.                     *)
RecordsTrue(files, topics, start, end) ==
  LET got == KeyframeRecords(files, topics, start, end)
      keys == {au \in All(files) : au.topic \in topics /\ au.key /\ InWindow(au.t, start, end)}
  IN /\ got.raised = "none" =>
          /\ Range(got.out) = keys /\ Len(got.out) = Cardinality(keys)
          /\ \A i, j \in DOMAIN got.out : i < j => got.out[i].t <= got.out[j].t
     /\ got.raised = "conflict" =>
          \E x, y \in keys : x.topic = y.topic /\ x.t = y.t /\ x.data # y.data
=============================================================================
