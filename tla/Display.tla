------------------------------ MODULE Display -------------------------------
(* What visio-display does with the rows of its source, one after another    *)
(* (display/__init__.py): main picks the sinks and what is derived, and      *)
(* run_bridge fans each row and what is derived from it out to them.         *)
(*                                                                           *)
(* A row is [topic, kind, t, sid, size, seq, bad, codec, lost]: kind its     *)
(* schema, bad a payload that does not parse, codec whether its video has a  *)
(* decoder, lost the frames of its stream the link lost before it. Seq       *)
(* numbers wrap at SeqSpan (2^32).                                           *)
EXTENDS Integers, Sequences, FiniteSets, SequencesExt

CONSTANTS Window, EmitEvery, MaxGap, SeqSpan, NoHealth

LesserOf(a, b) == IF a < b THEN a ELSE b
SumOf(seq, Val(_)) == FoldLeft(LAMBDA sum, e : sum + Val(e), 0, seq)

-----------------------------------------------------------------------------
(* BitrateDeriver: message time, a sliding window, gaps of the seq.          *)

\* The sample of the whole link rides the base id: stream ids are above it
Total == 0
NoBitrate == [events |-> <<>>, video |-> <<>>, last |-> {}, emitted |-> -1]

\* Mutant: the seq does not wrap
GapUnwrapped(last, r) ==
    LET prev == {p[2] : p \in {q \in last : q[1] = r.sid}}
    IN IF prev = {} THEN 0
       ELSE LET gap == r.seq - (CHOOSE p \in prev : TRUE) - 1
            IN IF gap \in 1..MaxGap THEN gap ELSE 0

Gap(last, r) ==
    LET prev == {p[2] : p \in {q \in last : q[1] = r.sid}}
    IN IF prev = {} THEN 0
       ELSE LET gap == (r.seq - (CHOOSE p \in prev : TRUE) - 1) % SeqSpan
            IN IF gap <= MaxGap THEN gap ELSE 0

\* Events leave at the front, once they are older than the window
InWindow(events, cutoff) ==
    LET kept == {i \in DOMAIN events : events[i].t >= cutoff}
    IN IF kept = {} THEN <<>>
       ELSE SubSeq(events, CHOOSE i \in kept : \A j \in kept : i <= j, Len(events))

Of(events, sid) == SelectSeq(events, LAMBDA e : e.sid = sid)
Fields(events) ==
    [bytes |-> SumOf(events, LAMBDA e : e.size), frames |-> Len(events), drops |-> SumOf(events, LAMBDA e : e.drops)]
Emit(b, t) ==
    [i \in DOMAIN b.video |-> [of |-> b.video[i], t |-> t, video |-> 0] @@ Fields(Of(b.events, b.video[i]))]
    \o <<[of |-> Total, t |-> t,
          video |-> SumOf(SelectSeq(b.events, LAMBDA e : Contains(b.video, e.sid)), LAMBDA e : e.size)]
         @@ Fields(b.events)>>

\* feed: the samples due now, and the deriver afterwards
Due(b, t) == t - b.emitted >= LesserOf(EmitEvery, Window)
Feed(b, r) ==
    LET fed == [b EXCEPT !.events = Append(@, [t |-> r.t, sid |-> r.sid, size |-> r.size, drops |-> Gap(b.last, r)]),
                         !.last = {p \in @ : p[1] # r.sid} \cup {<<r.sid, r.seq>>},
                         !.video = IF r.kind = "video" /\ ~Contains(@, r.sid) THEN Append(@, r.sid) ELSE @]
        cut == [fed EXCEPT !.events = InWindow(@, r.t - Window)]
    IN IF b.emitted = -1 THEN [b |-> [fed EXCEPT !.emitted = r.t], out |-> <<>>]
       ELSE IF ~Due(b, r.t) THEN [b |-> cut, out |-> <<>>]
       ELSE [b |-> [cut EXCEPT !.emitted = r.t], out |-> Emit(cut, r.t)]

-----------------------------------------------------------------------------
(* RerunSink: what it has discovered, and the blueprint it sent last.        *)

NoRerun == [cams |-> <<>>, imus |-> <<>>, health |-> NoHealth, dirty |-> TRUE, sent |-> <<>>, sends |-> 0]
Discovered(rr) == <<rr.cams, rr.imus, rr.health>>

Found(rr, r) ==
    IF r.kind = "video" /\ ~Contains(rr.cams, r.topic) /\ r.codec
    THEN [rr EXCEPT !.cams = Append(@, r.topic), !.dirty = TRUE]
    ELSE IF r.kind = "quat" /\ ~Contains(rr.imus, r.topic) THEN [rr EXCEPT !.imus = Append(@, r.topic), !.dirty = TRUE]
    ELSE IF r.kind = "health" /\ rr.health = NoHealth THEN [rr EXCEPT !.health = r.topic, !.dirty = TRUE]
    ELSE rr

\* Nothing to show yet is nothing to send
SendBlueprint(rr) ==
    IF Discovered(rr) = <<<<>>, <<>>, NoHealth>> THEN [rr EXCEPT !.dirty = FALSE]
    ELSE [rr EXCEPT !.dirty = FALSE, !.sent = Discovered(rr), !.sends = @ + 1]

Drawn == {"video", "quat", "imu", "health"}
RerunWrite(rr, r) ==
    IF r.kind \notin Drawn THEN rr
    ELSE LET found == Found(rr, r) IN IF found.dirty THEN SendBlueprint(found) ELSE found

-----------------------------------------------------------------------------
(* main: the sinks in the order they are written, and what is derived.       *)

Sinks(args) ==
    (IF args.out THEN <<"recorder">> ELSE <<>>)
    \o (IF args.foxglove /\ args.source # "mcap" THEN <<"foxglove">> ELSE <<>>)
    \o (IF args.rerun THEN <<"rerun">> ELSE <<>>)
WantDerived(args) == args.out \/ Contains(Sinks(args), "foxglove")

\* The source ends by itself or at the stop event
Source(rows, stopAt) == SubSeq(rows, 1, LesserOf(stopAt, Len(rows)))

\* A sink that raises is the last to be written: rerun parses what it draws
RaisesAt(args, r) == r.bad /\ r.kind \in Drawn /\ Contains(Sinks(args), "rerun")
FanOut(s, args, item) ==
    [s EXCEPT !.got = [sink \in DOMAIN @ |-> IF Contains(Sinks(args), sink) THEN Append(@[sink], item) ELSE @[sink]]]

\* TfDeriver: a transform for each orientation; one that does not parse raises
Tf(r) == IF r.kind = "quat" THEN <<<<"tf", r>>>> ELSE <<>>
TfRaises(r) == r.bad /\ r.kind = "quat"

\* One turn of run_bridge's loop; a row that raises ends it
Derived(s, args, r) ==
    LET tf == IF WantDerived(args) THEN FoldLeft(LAMBDA was, item : FanOut(was, args, item), s, Tf(r)) ELSE s
        fed == Feed(s.bitrate, r)
    IN IF ~(WantDerived(args) /\ args.bitrate) THEN tf
       ELSE FoldLeft(LAMBDA was, sample : FanOut(was, args, <<"bitrate", sample>>), [tf EXCEPT !.bitrate = fed.b], fed.out)

Bridged(s, args, r) ==
    LET rowOut == FanOut(s, args, <<"row", r>>)
        drawn == IF Contains(Sinks(args), "rerun") THEN [rowOut EXCEPT !.rerun = RerunWrite(@, r)] ELSE rowOut
    IN IF s.raised THEN s
       ELSE IF RaisesAt(args, r) THEN [rowOut EXCEPT !.raised = TRUE]
       ELSE IF TfRaises(r) /\ WantDerived(args) THEN [drawn EXCEPT !.raised = TRUE]
       ELSE [Derived(drawn, args, r) EXCEPT !.n = @ + 1]

Closed(s) == [s EXCEPT !.closed = {sink \in DOMAIN s.got : TRUE}]
RunBridge(args, rows) ==
    Closed(FoldLeft(LAMBDA s, r : Bridged(s, args, r),
             [got |-> [sink \in ToSet(Sinks(args)) |-> <<>>], rerun |-> NoRerun, bitrate |-> NoBitrate,
              n |-> 0, raised |-> FALSE, closed |-> {}],
             rows))

-----------------------------------------------------------------------------
Tagged(got, tag) == SelectSeq(got, LAMBDA item : item[1] = tag)

\* The rows a sample after the k-th row is over, and what it must say of them
Recent(rows, k, t) == SelectSeq(SubSeq(rows, 1, k), LAMBDA r : r.t >= t - Window)
Says(sample, rows) ==
    /\ sample.bytes = SumOf(rows, LAMBDA r : r.size) /\ sample.frames = Len(rows)
    /\ sample.drops = SumOf(rows, LAMBDA r : r.lost)
SampleTrue(got, i, rows) ==
    LET sample == got[i][2]
        k == Len(Tagged(SubSeq(got, 1, i), "row"))
        recent == Recent(rows, k, sample.t)
    IN IF sample.of = Total
       THEN Says(sample, recent) /\ sample.video = SumOf(SelectSeq(recent, LAMBDA r : r.kind = "video"), LAMBDA r : r.size)
       ELSE Says(sample, SelectSeq(recent, LAMBDA r : r.sid = sample.of))

(* A pipe does what it was asked: the recorder and Foxglove get the same     *)
(* items in the same order, every sink every row up to the stop or the row   *)
(* that failed, and every sink is closed even then. Each bitrate sample says *)
(* what the last window of message time carried, and the frames the link     *)
(* truly lost in it, across a wrap and not counting a restart; a sample of   *)
(* every video stream seen so far comes with each total. The blueprint Rerun *)
(* shows holds every stream discovered, and is sent only when one is.        *)
PipeTrue(args, all, stopAt) ==
    LET rows == Source(all, stopAt)
        s == RunBridge(args, rows)
        read == SubSeq(rows, 1, s.n + (IF s.raised THEN 1 ELSE 0))
        got(sink) == s.got[sink]
    IN /\ s.closed = ToSet(Sinks(args))
       /\ s.closed = {} \/ s.raised \/ s.n = Len(rows)
       /\ {"recorder", "foxglove"} \subseteq s.closed => got("recorder") = got("foxglove")
       /\ \A sink \in s.closed \ {"rerun"} :
            /\ Tagged(got(sink), "row") = [i \in DOMAIN read |-> <<"row", read[i]>>]
            /\ \A i \in {j \in DOMAIN got(sink) : got(sink)[j][1] = "bitrate"} : SampleTrue(got(sink), i, rows)
            /\ LET totals == SelectSeq(Tagged(got(sink), "bitrate"), LAMBDA item : item[2].of = Total)
               IN \A i \in 1..(Len(totals) - 1) : totals[i + 1][2].t - totals[i][2].t >= LesserOf(EmitEvery, Window)
       /\ "rerun" \in s.closed =>
            LET found == Discovered(s.rerun)
                drawn == SelectSeq(read, LAMBDA r : r.kind \in {"video", "quat", "health"} /\ ~r.bad)
            IN /\ found # <<<<>>, <<>>, NoHealth>> => s.rerun.sent = found
               /\ s.rerun.sends = Len(found[1]) + Len(found[2]) + (IF found[3] = NoHealth THEN 0 ELSE 1)
               /\ \A i \in DOMAIN drawn : drawn[i].kind = "quat" => Contains(found[2], drawn[i].topic)
=============================================================================
