-------------------------------- MODULE Sync --------------------------------
(***************************************************************************)
(* visio_schema.reader.ops: sync.  Elements of several keys are grouped    *)
(* onto shared instants: the match keys' own elements define an instant,   *)
(* the resampled key has a value computed there, lag later, from a history *)
(* that is pruned as the stream goes.  One action feeds one element.       *)
(*                                                                         *)
(* A computed value is the samples it was computed from; blending itself   *)
(* (interp) is exact up to which samples, whether they may be blended, and *)
(* which joints survive.                                                   *)
(***************************************************************************)
EXTENDS Integers, Sequences, FiniteSets

CONSTANTS
  MatchKeys,  \* the keys named in match
  Key,        \* the one key named in resample
  Configs,    \* mode, on_future, stale, lag, tol, window, partial, passthrough,
              \* and whether elements come in order (Session.stream) or as a
              \* merge of live producers that interleave
  Samples,    \* what a sample of Key can be: kind, and frame_id or joints
  MaxFed,     \* bound: elements fed
  MaxTime     \* bound: their stamps

VARIABLES
  cfg,
  clock,      \* how many elements were fed; end of stream
  held,       \* the matcher's buffers
  track,      \* the resampler's history of Key
  arrived,    \* every sample of Key that arrived (no such list in the code)
  pending, watermark,
  out         \* what sync has yielded

vars == <<cfg, clock, held, track, arrived, pending, watermark, out>>

KEEP_BEFORE == 2
None == -1   \* no instant, no bound
Least(S) == CHOOSE x \in S : \A y \in S : x <= y
Most(S) == CHOOSE x \in S : \A y \in S : y <= x

-----------------------------------------------------------------------------
\* The matcher: StreamMatcher

OldestNs(bufs) == LET heads == {Head(bufs[k]).t : k \in {j \in MatchKeys : bufs[j] # <<>>}}
                  IN IF heads = {} THEN None ELSE Least(heads)

(* Every set formable from the heads; where they cannot agree, the oldest  *)
(* is given up (the first key, of two as old).                             *)
FlushRound(s) ==
  IF \E k \in MatchKeys : s.bufs[k] = <<>> THEN s
  ELSE LET head == [k \in MatchKeys |-> Head(s.bufs[k])]
           lo == Least({head[k].t : k \in MatchKeys})
           hi == Most({head[k].t : k \in MatchKeys})
           oldest == CHOOSE k \in MatchKeys : head[k].t = lo
       IN IF hi - lo > cfg.tol
          THEN [bufs |-> [s.bufs EXCEPT ![oldest] = Tail(@)],
                outcomes |-> IF cfg.partial
                             THEN Append(s.outcomes, [dropped |-> head[oldest]])
                             ELSE s.outcomes]
          ELSE [bufs |-> [k \in MatchKeys |-> Tail(s.bufs[k])],
                outcomes |-> Append(s.outcomes, [t |-> lo, by_topic |-> head])]

(* Every round takes an element, so the loop is over after as many rounds  *)
(* as elements were fed, the one being pushed included.                    *)
Flush(bufs, outcomes) ==
  LET round[n \in Nat] == IF n = 0 THEN [bufs |-> bufs, outcomes |-> outcomes]
                          ELSE FlushRound(round[n - 1])
  IN round[clock.fed + 1]

MatcherPush(el) ==
  LET grown == [held EXCEPT ![el.topic] = Append(@, el)]
      full == Len(grown[el.topic]) > cfg.window
  IN Flush(IF full THEN [grown EXCEPT ![el.topic] = Tail(@)] ELSE grown,
           IF full /\ cfg.partial THEN <<[dropped |-> Head(grown[el.topic])]>> ELSE <<>>)

-----------------------------------------------------------------------------
\* The resampler: _Resampler, and interp

(* Two elements at an instant: raised for samples that are no pair, None   *)
(* for a kind without a blend, else what both have.                        *)
Blend(lo, hi) ==
  CASE lo.kind # hi.kind -> "raise"
    [] lo.kind = "frame" -> "none"
    [] lo.t = hi.t -> "raise"
    [] lo.kind = "pose" -> IF lo.body = hi.body THEN "blend" ELSE "raise"
    [] lo.kind \in {"joints", "orientation"} -> "blend"

Sampled(method, from, residual) ==
  [method |-> method, from |-> from, residual |-> residual,
   joints |-> IF \E i \in DOMAIN from : from[i].kind # "joints" THEN {}
              ELSE {j \in UNION {from[i].body : i \in DOMAIN from} :
                      \A i \in DOMAIN from : j \in from[i].body}]

Missing == Sampled("missing", <<>>, 0)

(* Mutant: a sample that came out of order is appended.                    *)
InsertLast(buf, el) == Append(buf, el)

Insert(buf, el) == LET before == Cardinality({i \in DOMAIN buf : buf[i].t <= el.t})
                   IN SubSeq(buf, 1, before) \o <<el>> \o SubSeq(buf, before + 1, Len(buf))

PruneBefore(buf, t) ==
  LET past == Cardinality({i \in DOMAIN buf : buf[i].t <= t})
  IN SubSeq(buf, 1 + (IF past > KEEP_BEFORE THEN past - KEEP_BEFORE ELSE 0), Len(buf))

PastEnd(buf, t) ==
  LET lo == buf[Len(buf)]
      slope == Len(buf) >= 2 /\ buf[Len(buf) - 1].t < lo.t
      projected == IF cfg.on_future = "extrapolate" /\ slope
                   THEN Blend(buf[Len(buf) - 1], lo) ELSE "none"
  IN CASE projected = "blend" ->
            Sampled("extrapolated", <<buf[Len(buf) - 1], lo>>, t - lo.t)
       [] projected = "raise" -> Sampled("raise", <<>>, 0)
       [] OTHER -> Sampled("held", <<lo>>, t - lo.t)

Bracketed(lo, hi, t) ==
  LET residual == Least({t - lo.t, hi.t - t})
      mixed == IF cfg.mode = "interpolate" THEN Blend(lo, hi) ELSE "none"
  IN CASE cfg.mode = "hold_last" -> Sampled("held", <<lo>>, t - lo.t)
       [] mixed = "blend" -> Sampled("interpolated", <<lo, hi>>, residual)
       [] mixed = "raise" -> Sampled("raise", <<>>, 0)
       [] OTHER -> Sampled("nearest", <<IF t - lo.t <= hi.t - t THEN lo ELSE hi>>, residual)

ValueAt(buf, t) ==
  LET i == Cardinality({j \in DOMAIN buf : buf[j].t <= t})
  IN CASE buf = <<>> -> Missing
       [] i = 0 -> Sampled("nearest", <<buf[1]>>, buf[1].t - t)
       [] i > 0 /\ buf[i].t = t -> Sampled("exact", <<buf[i]>>, 0)
       [] i = Len(buf) /\ buf # <<>> -> PastEnd(buf, t)
       [] OTHER -> Bracketed(buf[i], buf[i + 1], t)

(* _Resampler.at: a value further than stale from real data is missing.    *)
At(buf, t) ==
  LET got == ValueAt(buf, t)
  IN IF cfg.stale # None /\ got.residual > cfg.stale THEN Missing ELSE got

(* What the group is, and every sample that had arrived when it closed.     *)
Close(m, buf, all) ==
  [t |-> m.t, by_topic |-> m.by_topic, value |-> At(buf, m.t), seen |-> all]

-----------------------------------------------------------------------------
\* sync

Formed(outcomes) == SelectSeq(outcomes, LAMBDA o : "t" \in DOMAIN o)
Given(outcomes) == SelectSeq(outcomes, LAMBDA o : "dropped" \in DOMAIN o)
Raised == \E i \in DOMAIN out : "value" \in DOMAIN out[i]
                                /\ out[i].value.method = "raise"

(* Mutant: what the matcher still holds is forgotten.                      *)
FrontierOfPending(left, bufs, mark) == IF left # <<>> THEN left[1].t ELSE mark

(* _frontier: the earliest instant a group could still be closed at.       *)
Frontier(left, bufs, mark) ==
  IF left # <<>> THEN left[1].t
  ELSE IF OldestNs(bufs) # None THEN OldestNs(bufs) ELSE mark

(* The element is taken, the groups whose lag has passed are closed, and   *)
(* the history is pruned to the earliest instant still to be closed.       *)
Feed(el) ==
  LET mark == Most({watermark, el.t})
      m == IF el.topic \in MatchKeys THEN MatcherPush(el)
           ELSE [bufs |-> held, outcomes |-> <<>>]
      grown == IF el.topic = Key THEN Insert(track, el) ELSE track
      every == IF el.topic = Key THEN Insert(arrived, el) ELSE arrived
      queue == pending \o Formed(m.outcomes)
      \* closed from the front, so one that must wait holds those behind it
      due == CHOOSE n \in 0..Len(queue) :
               /\ \A i \in 1..n : queue[i].t <= mark - cfg.lag
               /\ n = Len(queue) \/ queue[n + 1].t > mark - cfg.lag
      left == SubSeq(queue, due + 1, Len(queue))
  IN /\ watermark' = mark /\ held' = m.bufs /\ arrived' = every
     /\ pending' = left
     /\ out' = out \o Given(m.outcomes)
                 \o (IF el.topic \notin MatchKeys \cup {Key} /\ cfg.passthrough
                     THEN <<[passed |-> el]>> ELSE <<>>)
                 \o [i \in 1..due |-> Close(queue[i], grown, every)]
     /\ track' = PruneBefore(grown, Frontier(left, m.bufs, mark))

(* late: stamped before an element that arrived earlier.  In a live merge   *)
(* an element may be; in a recording's stream none is.                     *)
Elements ==
  LET E(k, t, s) == [topic |-> k, t |-> t, kind |-> s.kind, body |-> s.body,
                     n |-> clock.fed, late |-> t < watermark]
  IN {E(k, t, [kind |-> "frame", body |-> {}]) :
        k \in MatchKeys \cup {"other"}, t \in 0..MaxTime}
     \cup {E(Key, t, s) : t \in 0..MaxTime, s \in {x \in Samples : x.kind = cfg.kind}}

NextElement ==
  /\ ~clock.ended /\ clock.fed < MaxFed /\ ~Raised
  /\ \E el \in Elements :
       /\ cfg.ordered => ~el.late
       /\ Feed(el)
       /\ clock' = [clock EXCEPT !.fed = @ + 1]
  /\ UNCHANGED cfg

(* End of stream: what the buffers still form, and every group there is.   *)
EndOfStream ==
  /\ ~clock.ended /\ ~Raised /\ clock' = [clock EXCEPT !.ended = TRUE]
  /\ LET m == Flush(held, <<>>)
         queue == pending \o Formed(m.outcomes)
     IN /\ held' = m.bufs /\ pending' = <<>>
        /\ out' = out \o Given(m.outcomes)
                    \o [i \in 1..Len(queue) |-> Close(queue[i], track, arrived)]
  /\ UNCHANGED <<cfg, track, arrived, watermark>>

Init ==
  /\ cfg \in Configs
  /\ clock = [fed |-> 0, ended |-> FALSE]
  /\ held = [k \in MatchKeys |-> <<>>] /\ track = <<>> /\ arrived = <<>>
  /\ pending = <<>> /\ watermark = 0 /\ out = <<>>

Next == NextElement \/ EndOfStream
Spec == Init /\ [][Next]_vars

-----------------------------------------------------------------------------
Groups == SelectSeq(out, LAMBDA o : "by_topic" \in DOMAIN o)

(* The elements that define a group's instant all came behind a later one: *)
(* the frontier may have passed the instant before it was known.           *)
CameLate(g) == \A k \in MatchKeys : g.by_topic[k].t = g.t => g.by_topic[k].late

(* Pruning changes no group whose instant did not arrive late: its value   *)
(* is the one the whole history gives, however the samples themselves      *)
(* arrived (_frontier, prune_before).                                      *)
PruneHarmless ==
  \A i \in DOMAIN Groups :
    ~CameLate(Groups[i]) => Groups[i].value = At(Groups[i].seen, Groups[i].t)

(* Groups come out in time order unless one came late, agree within the    *)
(* tolerance, and share no element with each other or with what was given  *)
(* up (StreamMatcher.flush).                                               *)
GroupsSound ==
  LET members(g) == {g.by_topic[k] : k \in MatchKeys}
  IN /\ \A i, j \in DOMAIN Groups : i < j =>
          /\ ~CameLate(Groups[j]) => Groups[i].t <= Groups[j].t
          /\ members(Groups[i]) \cap members(Groups[j]) = {}
     /\ \A i \in DOMAIN Groups :
          /\ \A e \in members(Groups[i]) : e.t - Groups[i].t \in 0..cfg.tol
          /\ \A j \in DOMAIN out : "dropped" \in DOMAIN out[j] => out[j].dropped \notin members(Groups[i])

(* A value comes from the samples next to the instant: none that had       *)
(* arrived lies between one it was computed from and the instant, on       *)
(* either side, unless the instant came late.  One of them is no further   *)
(* from the instant than stale allows, before or after it, and a blend has *)
(* only joints that all of them measured (_Resampler, _blend_joint_state). *)
ValuesSound ==
  \A i \in DOMAIN Groups :
    LET g == Groups[i]
        used == {g.value.from[n] : n \in DOMAIN g.value.from}
        side(s) == s.t <= g.t
        gap(s) == IF side(s) THEN g.t - s.t ELSE s.t - g.t
    IN /\ ~CameLate(g) => \A n \in DOMAIN g.seen :
            LET s == g.seen[n]
                own == {u \in used : side(u) = side(s)}
            IN own # {} => \E u \in own : gap(u) <= gap(s)
       /\ used # {} /\ cfg.stale # None => \E u \in used : gap(u) <= cfg.stale
       /\ \A u \in used : g.value.joints \subseteq u.body

(* With the partners reported, every match element fed leaves exactly one  *)
(* way or waits (on_incomplete = "emit_partial").                          *)
NoneVanishes ==
  cfg.partial =>
    LET inGroups == Cardinality(MatchKeys) * (Len(Groups) + Len(pending))
        dropped == Len(Given(out))
        waiting == Cardinality({w \in MatchKeys \X (1..MaxFed) : w[2] \in DOMAIN held[w[1]]})
        passed == Cardinality({i \in DOMAIN out : "passed" \in DOMAIN out[i]})
    IN ~Raised /\ cfg.passthrough =>
         inGroups + dropped + waiting + passed + Len(arrived) = clock.fed
=============================================================================
