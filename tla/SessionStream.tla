---------------------------- MODULE SessionStream ----------------------------
(***************************************************************************)
(* visio_schema.reader.session: Session.stream, from the files of a        *)
(* recording to elements in time order.  A file is the sequence of its     *)
(* messages and its rotation record; a stream is files one after another,  *)
(* and streams are merged.  An access unit knows its place n among those   *)
(* its camera captured, so that a frame whose references were not all fed  *)
(* to its decoder can be told from a clean one.                            *)
(***************************************************************************)
EXTENDS Integers, Sequences, FiniteSets, SequencesExt

CONSTANTS
  Cameras,        \* canonical topics that carry video
  SeqSpan,         \* 2^32, the message sequence counter
  Reorder,        \* reorder_ns, the caller's floor
  MaxSeamSlack,   \* _MAX_SEAM_SLACK_NS
  NvdecLag,       \* _NVDEC_LAG_NS
  MaxGap,         \* max_gap_ns, of join_exposure
  MaxFrames       \* frames of its max_frame_bytes

None == -1
NoRotation == [id |-> "", part |-> None, continues |-> FALSE]
Lowest(S) == CHOOSE x \in S : \A y \in S : x <= y
Highest(S) == CHOOSE x \in S : \A y \in S : x >= y

Times(f) == {f.msgs[i].t : i \in DOMAIN f.msgs}
StartOf(f) == IF f.msgs = <<>> THEN None ELSE Lowest(Times(f))
EndOf(f) == IF f.msgs = <<>> THEN None ELSE Highest(Times(f))
Marked(f) == f.rotation # NoRotation

-----------------------------------------------------------------------------
\* Session.__init__: the order of the files, the slack their seams need

(* Parts of a chain go by their index, at the place of the earliest of     *)
(* them; other files by their first message.                               *)
ChainStart(files, f) ==
  Lowest({Highest({0, StartOf(g)}) : g \in {h \in Range(files) : h.rotation.id = f.rotation.id}})
Precedes(files, f, g) ==
  LET at(x) == IF Marked(x) THEN ChainStart(files, x) ELSE Highest({0, StartOf(x)})
  IN \/ at(f) < at(g)
     \/ at(f) = at(g) /\ f.rotation.id = g.rotation.id /\ f.rotation.part < g.rotation.part
FileOrder(files) == SortSeq(files, LAMBDA f, g : Precedes(files, f, g))

SameChain(a, b) ==
  Marked(a) /\ a.rotation.id = b.rotation.id /\ b.rotation.part = a.rotation.part + 1
Continues(a, b) == SameChain(a, b) /\ b.rotation.continues

(* _seam_slack: how far the next file hands time back.  Files that start   *)
(* together and overlap for most of the first are no seam, but streams.    *)
Overlap(a, b) == EndOf(a) - StartOf(b)
Parallel(a, b) ==
  LET apart == StartOf(b) - StartOf(a)
  IN /\ ~SameChain(a, b)
     /\ (IF apart < 0 THEN -apart ELSE apart) < Overlap(a, b)
     /\ 2 * Overlap(a, b) > EndOf(a) - StartOf(a)
Seams(files) ==
  {Overlap(files[i], files[i + 1]) :
     i \in {k \in 1..(Len(files) - 1) :
              /\ files[k].msgs # <<>> /\ files[k + 1].msgs # <<>>
              /\ ~Parallel(files[k], files[k + 1])}}
(* Mutant: a seam is taken to hand back no time.                           *)
SeamSlackNone(streams) == 0

SeamSlack(streams) ==
  Lowest({MaxSeamSlack, Highest({0} \cup UNION {Seams(streams[s]) : s \in DOMAIN streams})})

(* Files the docstring calls chunks: each pair a seam, none of them wider  *)
(* than the ceiling it is clamped at.                                      *)
Sequential(files) ==
  \A k \in 1..(Len(files) - 1) :
    files[k].msgs # <<>> /\ files[k + 1].msgs # <<>> =>
      ~Parallel(files[k], files[k + 1]) /\ Overlap(files[k], files[k + 1]) <= MaxSeamSlack

-----------------------------------------------------------------------------
\* _window_members: the files a window needs, with the topics to read of each

InWindow(t, start, end) == (start = None \/ t >= start) /\ (end = None \/ t < end)
Spans(f, start, end) ==
  \/ f.msgs = <<>>
  \/ (end = None \/ StartOf(f) < end) /\ (start = None \/ EndOf(f) >= start)

VideoOf(f, q) == {m.topic : m \in {x \in Range(f.msgs) : x.kind = "video" /\ x.topic \notin q.raw}}
ImuOf(f, q) == {m.topic : m \in {x \in Range(f.msgs) : x.kind = "imu" /\ x.topic \notin q.raw}}
TopicsOf(f) == {m.topic : m \in Range(f.msgs)}

(* The first file of the chain that file i is in.                          *)
ChainHead(files, i) ==
  Highest({h \in 1..i : h = 1 \/ ~Continues(files[h - 1], files[h])})
ChainTail(files, i) ==
  Lowest({h \in i..Len(files) : h = Len(files) \/ ~Continues(files[h], files[h + 1])})

(* _preroll_start: back to the file that holds, for every camera the       *)
(* window carries on, a keyframe from which to decode it.                  *)
HasKeyframe(f, cam, start) ==
  \E m \in Range(f.msgs) : m.topic = cam /\ m.key /\ m.t <= start
(* Mutant: the window opens its own first file and no earlier one.         *)
PrerollNone(files, head, first, start, needed) == first

PrerollStart(files, head, first, start, needed) ==
  LET enough == {p \in head..first :
        \A cam \in needed : \E h \in p..first : HasKeyframe(files[h], cam, start)}
  IN IF needed = {} THEN first ELSE IF enough = {} THEN head ELSE Highest(enough)

WindowMembers(files, start, end, q) ==
  LET spanning(h, t) == {p \in h..t : Spans(files[p], start, end)}
      ChainMembers(h) ==
        LET t == ChainTail(files, h)
            first == Lowest(spanning(h, t))   last == Highest(spanning(h, t))
            video(a, b) == UNION {VideoOf(files[p], q) : p \in a..b}
            from == IF Marked(files[first]) /\ start # None /\ ~q.rawall
                    THEN PrerollStart(files, h, first, start,
                           video(h, first - 1) \cap video(first, last))
                    ELSE first
        IN IF spanning(h, t) = {} THEN {} ELSE from..last
      whole == UNION {ChainMembers(ChainHead(files, i)) : i \in DOMAIN files}
      (* a bundle in an older file can reach into the window *)
      early(i) == IF start # None /\ ~q.rawall /\ files[i].msgs # <<>> /\ EndOf(files[i]) < start
                  THEN ImuOf(files[i], q) ELSE {}
  IN [i \in DOMAIN files |-> IF i \in whole THEN TopicsOf(files[i]) ELSE early(i)]

-----------------------------------------------------------------------------
\* _iter_file: messages to elements, each with its arrival

Element(topic, t, clean, arrival) == [topic |-> topic, t |-> t, clean |-> clean, arrival |-> arrival]

(* A decoder holds the last access unit fed (cold: none), whether what it  *)
(* holds is whole, and on the GPU one frame in flight.                     *)
Cold == [last |-> None, clean |-> FALSE, held |-> <<>>]
NoDecoders == [dec |-> [c \in Cameras |-> Cold], seqs |-> [c \in Cameras |-> None]]

(* The decoder itself: a delta before any keyframe gives nothing, and one  *)
(* whose predecessor was not fed gives a frame that is not clean.          *)
Fed(d, m) ==
  [d EXCEPT !.last = IF m.key \/ d.last # None THEN m.n ELSE None,
            !.clean = m.key \/ (d.clean /\ d.last + 1 = m.n)]
Flushed(d) == [i \in DOMAIN d.held |-> [d.held[i] EXCEPT !.arrival = d.held[i].t]]

(* In a chain a gap in the sequence drops the camera's decoder.            *)
Gap(st, m, chained) ==
  chained /\ st.seqs[m.topic] # None /\ m.seq # (st.seqs[m.topic] + 1) % SeqSpan

(* cpu_video_decoders: one frame for each access unit; in a chain a decoder*)
(* that starts anew waits for a keyframe.                                  *)
CpuDecode(d, m, chained) ==
  IF d.last = None /\ ~m.key /\ chained THEN [dec |-> d, out |-> <<>>]
  ELSE LET after == Fed(d, m)
       IN [dec |-> after,
           out |-> IF after.last = None THEN <<>> ELSE <<Element(m.topic, m.t, after.clean, m.t)>>]

(* _gpu_video_decoders: always waits for a keyframe, and gives a frame     *)
(* back when a later access unit, or the flush, pushes it out.             *)
GpuDecode(d, m) ==
  IF d.last = None /\ ~m.key THEN [dec |-> d, out |-> <<>>]
  ELSE LET after == Fed(d, m)
       IN [dec |-> [after EXCEPT !.held = <<Element(m.topic, m.t, after.clean, m.t)>>],
           out |-> [i \in DOMAIN d.held |-> [d.held[i] EXCEPT !.arrival = m.t]]]

(* One access unit of a file, through its camera's decoder.                *)
Decode(st, m, chained, gpu) ==
  LET c == m.topic
      gap == Gap(st, m, chained)
      before == IF gap THEN Cold ELSE st.dec[c]
      tail == IF gap THEN Flushed(st.dec[c]) ELSE <<>>
      r == IF gpu THEN GpuDecode(before, m) ELSE CpuDecode(before, m, chained)
  IN [st EXCEPT !.dec[c] = r.dec, !.out = @ \o tail \o r.out,
                !.seqs = IF chained THEN [@ EXCEPT ![c] = m.seq] ELSE @]

FlushAll(st) ==
  LET held == FlattenSeq([i \in 1..Cardinality(Cameras) |-> Flushed(st.dec[SetToSeq(Cameras)[i]])])
  IN [st EXCEPT !.out = @ \o held]

Emit(st, m, chained, q) ==
  IF q.rawall \/ m.topic \in q.raw \/ m.kind = "record"
  THEN [st EXCEPT !.out = Append(@, Element(m.topic, m.t, TRUE, m.t))]
  ELSE IF m.kind = "imu"      \* a bundle's samples reach past its arrival
  THEN [st EXCEPT !.out = @ \o <<Element(m.topic, m.t, TRUE, m.t),
                                 Element(m.topic, m.t + m.reach, TRUE, m.t)>>]
  ELSE Decode(st, m, chained, q.gpu)

(* One file's messages by their stamps, up to the end the reader was given.*)
Read(f, topics, end) ==
  SortSeq(SelectSeq(f.msgs, LAMBDA m : m.topic \in topics /\ (end = None \/ m.t < end)),
          LAMBDA a, b : a.t < b.t)

(* _one_stream: decoders live on through the parts of a chain, and for one *)
(* file otherwise; whatever is in flight is flushed where they end.        *)
OneStream(files, members, end, q) ==
  LET chosen == SelectSeq([i \in DOMAIN files |-> i], LAMBDA i : members[i] # {})
      File(st, k) ==
        LET i == chosen[k]
            chained == Marked(files[i]) /\ ~q.rawall
            kept == k > 1 /\ Continues(files[chosen[k - 1]], files[i]) /\ chained
            st0 == IF kept THEN st
                   ELSE [FlushAll(st) EXCEPT !.dec = NoDecoders.dec, !.seqs = NoDecoders.seqs]
        IN FoldLeft(LAMBDA s, m : Emit(s, m, chained, q), st0, Read(files[i], members[i], end))
      done == FoldLeft(File, NoDecoders @@ [out |-> <<>>],
                       [k \in DOMAIN chosen |-> k])
  IN FlushAll(done).out

-----------------------------------------------------------------------------
\* _stream_elements: merged by arrival, released in time order, windowed

RECURSIVE MergeByArrival(_)
MergeByArrival(gens) ==
  LET open == {g \in DOMAIN gens : gens[g] # <<>>}
      next == Lowest({g \in open : \A h \in open : Head(gens[g]).arrival <= Head(gens[h]).arrival})
  IN IF open = {} THEN <<>>
     ELSE <<Head(gens[next])>> \o MergeByArrival([gens EXCEPT ![next] = Tail(@)])

(* rows._reorder: an element is released once the watermark of arrivals is *)
(* past it by the window; the heap keeps ties in the order they came.      *)
Push(heap, e) ==
  LET k == Cardinality({i \in DOMAIN heap : heap[i].t <= e.t})
  IN SubSeq(heap, 1, k) \o <<e>> \o SubSeq(heap, k + 1, Len(heap))
Released(items, slack) ==
  LET Step(s, e) ==
        LET mark == Highest({s.mark, e.arrival})
            heap == Push(s.heap, e)
            k == Cardinality({i \in DOMAIN heap : heap[i].t <= mark - slack})
        IN [mark |-> mark, heap |-> SubSeq(heap, k + 1, Len(heap)),
            out |-> s.out \o SubSeq(heap, 1, k)]
      end == FoldLeft(Step, [mark |-> 0, heap |-> <<>>, out |-> <<>>], items)
  IN end.out \o end.heap

(* A query: [start, end, raw, rawall, gpu].  Both bounds are widened by the*)
(* window before they choose files and stop the read.                      *)
Stream(streams, q) ==
  LET slack == Reorder + SeamSlack(streams) + (IF q.gpu THEN NvdecLag ELSE 0)
      from == IF q.start = None THEN None ELSE q.start - slack
      to == IF q.end = None THEN None ELSE q.end + slack
      gen(files) == OneStream(files, WindowMembers(files, from, to, q), to, q)
      merged == MergeByArrival([s \in DOMAIN streams |-> gen(streams[s])])
  IN SelectSeq(Released(merged, slack), LAMBDA e : InWindow(e.t, q.start, q.end))

-----------------------------------------------------------------------------
(* The exposure of a frame is read twice over in the source: from a track  *)
(* of every entry of the recording (session.py), and joined on the fly     *)
(* from one ordered stream (exposure.py).  A value is the entry or the two *)
(* entries it comes from, so that a blend is told from a held one.         *)

Exact(e) == [from |-> {e}, interpolated |-> FALSE]
Held(e) == [from |-> {e}, interpolated |-> TRUE]
Between(lo, hi) == [from |-> {lo, hi}, interpolated |-> TRUE]
Unresolved == [from |-> {}, interpolated |-> TRUE]

(* _ExposureTrack.at: the entry of the stamp, the nearest outside the      *)
(* track, a blend inside it.                                               *)
TrackAt(track, t) ==
  LET before == {e \in track : e < t}   after == {e \in track : e > t}
  IN CASE t \in track -> Exact(t)
       [] t \notin track /\ before = {} -> Held(Lowest(after))
       [] t \notin track /\ after = {} -> Held(Highest(before))
       [] OTHER -> Between(Highest(before), Lowest(after))

-----------------------------------------------------------------------------
\* join_exposure: exposure, drain and the loop

(* What the entries so far say of a frame, or the gap that forbids it.     *)
Exposure(track, t, final) ==
  LET before == {e \in track : e < t}   after == {e \in track : e > t}
  IN CASE t \in track -> [is |-> Exact(t), gap |-> "none"]
       [] t \notin track /\ after # {} /\ before = {} ->
            [is |-> Held(Lowest(after)),
             gap |-> IF Lowest(after) - t > MaxGap THEN "leading" ELSE "none"]
       [] t \notin track /\ after # {} /\ before # {} ->
            [is |-> Between(Highest(before), Lowest(after)),
             gap |-> IF Lowest(after) - Highest(before) > MaxGap THEN "interpolation" ELSE "none"]
       [] t \notin track /\ after = {} /\ before # {} /\ final ->
            [is |-> Held(Highest(before)),
             gap |-> IF t - Highest(before) > MaxGap THEN "tail" ELSE "none"]
       [] OTHER -> [is |-> Unresolved, gap |-> "none"]

(* drain: release what is pending up to the first frame that an entry to   *)
(* come may still decide; then forget the entries no frame needs.          *)
RECURSIVE Drain(_, _, _)
Drain(s, watermark, final) ==
  IF s.raised # "none" \/ s.pending = <<>> THEN s
  ELSE LET el == Head(s.pending)
           e == Exposure(s.track, el.t, final)
           rest == [s EXCEPT !.pending = Tail(@)]
       IN CASE el.topic # "frame" -> Drain([rest EXCEPT !.out = Append(@, el)], watermark, final)
            [] el.topic = "frame" /\ e.gap # "none" -> [s EXCEPT !.raised = e.gap]
            [] el.topic = "frame" /\ e.gap = "none" /\ e.is = Unresolved ->
                 IF final \/ watermark - el.t > MaxGap THEN [s EXCEPT !.raised = "unresolved"] ELSE s
            [] el.topic = "frame" /\ e.gap = "none" /\ e.is # Unresolved ->
                 IF e.is.interpolated /\ ~final /\ watermark <= el.t THEN s
                 ELSE Drain([rest EXCEPT !.out = Append(@, [el EXCEPT !.exposure = e.is])],
                            watermark, final)
(* Mutant: the entries before the frontier are all forgotten.             *)
ForgetBefore(s, watermark) ==
  LET frontier == IF s.pending = <<>> THEN watermark ELSE Head(s.pending).t
  IN [s EXCEPT !.track = {e \in @ : e >= frontier}]

Forget(s, watermark) ==
  LET frontier == IF s.pending = <<>> THEN watermark ELSE Head(s.pending).t
      order == SetToSortSeq(s.track, <)
      keep == {k \in DOMAIN order : Len(order) - k < 2 \/ order[k + 1] >= frontier}
  IN [s EXCEPT !.track = {order[k] : k \in keep}]

FramesHeld(pending) == Cardinality({i \in DOMAIN pending : pending[i].topic = "frame"})
TakeElement(s, el, emits) ==
  LET taken == IF el.topic = "info" THEN [s EXCEPT !.track = @ \cup {el.t}] ELSE s
      shown == IF el.topic # "info" \/ emits THEN [taken EXCEPT !.pending = Append(@, el)] ELSE taken
      next == Forget(Drain(shown, el.t, FALSE), el.t)
  IN CASE s.raised # "none" -> s
       [] s.raised = "none" /\ el.topic = "info" /\ el.t \in s.track -> [s EXCEPT !.raised = "duplicate"]
       [] OTHER -> IF next.raised = "none" /\ FramesHeld(next.pending) > MaxFrames
                   THEN [next EXCEPT !.raised = "byte limit"] ELSE next

Join(stream, emits) ==
  LET fed == FoldLeft(LAMBDA s, el : TakeElement(s, el, emits),
               [track |-> {}, pending |-> <<>>, out |-> <<>>, raised |-> "none"], stream)
  IN Drain(fed, IF fed.pending = <<>> THEN 0 ELSE fed.pending[Len(fed.pending)].t, TRUE)

-----------------------------------------------------------------------------
Entries(stream) == {stream[i].t : i \in {k \in DOMAIN stream : stream[k].topic = "info"}}
(* A frame that no entry is near enough to speak for.                      *)
TooWide(track, t, last) ==
  LET before == {e \in track : e < t}   after == {e \in track : e > t}
  IN /\ t \notin track
     /\ CASE before # {} /\ after # {} -> Lowest(after) - Highest(before) > MaxGap
          [] after # {} /\ before = {} -> Lowest(after) - t > MaxGap
          [] OTHER -> before = {} \/ t - Highest(before) > MaxGap \/ last - t > MaxGap

(* The join attaches to every frame what the whole track would, in the     *)
(* order of the stream, though it forgets entries as it goes; it refuses a *)
(* recording only for a frame no entry is near, an entry given twice, or   *)
(* the bytes it may hold.                                                  *)
JoinAgrees(stream, emits) ==
  LET track == Entries(stream)
      kept == SelectSeq(stream, LAMBDA el : el.topic # "info" \/ emits)
      got == Join(stream, emits)
  IN /\ got.raised = "none" =>
          got.out = [i \in DOMAIN kept |->
            IF kept[i].topic = "frame" THEN [kept[i] EXCEPT !.exposure = TrackAt(track, kept[i].t)]
            ELSE kept[i]]
     /\ got.raised \in {"leading", "interpolation", "tail", "unresolved"} =>
          \E i \in DOMAIN stream : stream[i].topic = "frame"
                                   /\ TooWide(track, stream[i].t, stream[Len(stream)].t)
     /\ got.raised = "duplicate" => \E i, j \in DOMAIN stream : i < j /\ stream[i] = stream[j]
=============================================================================
