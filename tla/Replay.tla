------------------------------- MODULE Replay -------------------------------
(* A recording read back and written again, by the host's mcap package.      *)
(*                                                                           *)
(* Queued: McapReaderEndpoint replays the file on its thread as a device of  *)
(* its own, announcing each channel before its data; a ChannelRegistry       *)
(* learns the announces; McapWriterEndpoint queues what resolves and writes  *)
(* it on its thread. Direct: a caller copies the rows of read_mcap straight  *)
(* into a McapWriter. Either way the writer rotates into parts.              *)
(*                                                                           *)
(* A row is [topic, schema, at, size], at its log time; None is no schema.   *)
EXTENDS Integers, Sequences, FiniteSets, SequencesExt

CONSTANTS Files,       \* recordings: sequences of rows in log order
          None,
          DeviceInfo,  \* the topic of announces
          Limits,      \* rotation limits tried: [bytes, age], 0 for none
          MaxNow,      \* bound: clock ticks
          MaxRecords   \* bound: metadata records

FirstDynamic == 16     \* the ids below are control streams

VARIABLES conf,    \* [queued, paced, bytes, age]
          src,     \* the replay: [file, pos, seen, t0, at, stop, closed]
          reg,     \* the consumer's registry: [byId, topics, dropped]
          sink,    \* the writer endpoint: [queue, batch, at, stop, owner, due]
          out,     \* the writer: [parts, schemas, chans, since, metadata, at]
          sent,    \* rows handed to the sink, in order
          now      \* the monotonic clock

vars == <<conf, src, reg, sink, out, sent, now>>

-----------------------------------------------------------------------------
(* McapWriter.                                                               *)

\* A part: its metadata records, the schemas and channels registered in it and
\* the messages written under them, each with the time it was written
FreshPart(metadata) == [meta |-> metadata, schemas |-> <<>>, chans |-> <<>>, msgs |-> <<>>]
\* Mutant: the new part is taken to have the old one's schemas
RollKeepsSchemas(o) == [o EXCEPT !.parts = Append(@, FreshPart(o.metadata)), !.chans = {}, !.since = now]

Roll(o) == [o EXCEPT !.parts = Append(@, FreshPart(o.metadata)), !.schemas = {}, !.chans = {}, !.since = now]

Current(o) == o.parts[Len(o.parts)]
PartBytes(part) == FoldLeft(LAMBDA sum, m : sum + m.size, 0, part.msgs)
ShouldRoll(o) ==
    /\ PartBytes(Current(o)) > 0
    /\ \/ conf.bytes # 0 /\ PartBytes(Current(o)) >= conf.bytes
       \/ conf.age # 0 /\ now - o.since >= conf.age

\* schemas and chans are what the writer has registered in the part it writes:
\* <<name, id>> and <<topic, id, schema name>>
Registered(o, row) ==
    LET n == Len(o.parts)
        s == {e \in o.schemas : e[1] = row.schema}
        p == IF s # {} THEN o
             ELSE [o EXCEPT !.parts[n].schemas = Append(@, row.schema),
                            !.schemas = @ \cup {<<row.schema, Len(Current(o).schemas) + 1>>}]
        sid == (CHOOSE e \in p.schemas : e[1] = row.schema)[2]
    IN IF \E c \in p.chans : c[1] = row.topic THEN p
       ELSE [p EXCEPT !.parts[n].chans = Append(@, <<row.topic, sid>>),
                      !.chans = @ \cup {<<row.topic, Len(Current(p).chans) + 1, row.schema>>}]

\* write: the writer afterwards; a topic already written with another schema raises
Conflicts(o, row) == \E c \in o.chans : c[1] = row.topic /\ c[3] # row.schema
Write(o0, row) ==
    LET o == IF ShouldRoll(o0) THEN Roll(o0) ELSE o0
        r == Registered(o, row)
        cid == (CHOOSE c \in r.chans : c[1] = row.topic)[2]
    IN IF o0.at # "open" THEN o0
       ELSE IF Conflicts(o, row) THEN [r EXCEPT !.at = "raised"]
       ELSE [r EXCEPT !.parts[Len(r.parts)].msgs = Append(@, [chan |-> cid, at |-> row.at, size |-> row.size])]

AddMetadata(o, record) ==
    [o EXCEPT !.metadata = Append(@, record), !.parts[Len(o.parts)].meta = Append(@, record)]

Close(o) == [o EXCEPT !.at = "closed"]

-----------------------------------------------------------------------------
(* ChannelRegistry: own outputs (the replay's) and learned channels.         *)

LocalIdFor(seen, topic) == FirstDynamic + (CHOOSE i \in DOMAIN seen : seen[i].topic = topic) - 1
SelfInfo(seen) == {[id |-> FirstDynamic + i - 1, topic |-> seen[i].topic, schema |-> seen[i].schema] : i \in DOMAIN seen}

\* on_announce: learn every channel; a topic live under another id is refused
Learn(r, ch) ==
    IF \E t \in r.topics : t[1] = ch.topic /\ t[2] # ch.id THEN r
    ELSE [r EXCEPT !.byId = {c \in @ : c.id # ch.id} \cup {ch}, !.topics = @ \cup {<<ch.topic, ch.id>>}]
OnAnnounce(r, chans) == FoldLeft(Learn, r, SetToSortSeq(chans, LAMBDA a, b : a.id < b.id))

Resolve(r, id) == {c \in r.byId : c.id = id}

-----------------------------------------------------------------------------
(* The writer endpoint.                                                      *)

\* accept, then send on the replay's thread: resolve, queue or drop
Deliver(r, id, row) ==
    IF Resolve(r, id) = {}
    THEN reg' = [r EXCEPT !.dropped = @ + 1] /\ UNCHANGED <<sink, sent>>
    ELSE LET ch == CHOOSE c \in Resolve(r, id) : TRUE
             m == [row EXCEPT !.topic = ch.topic, !.schema = ch.schema]
         IN /\ reg' = r
            /\ sink' = [sink EXCEPT !.queue = Append(@, m)] /\ sent' = Append(sent, m)

Take ==
    /\ sink.at = "waiting" /\ (sink.queue # <<>> \/ sink.stop)
    /\ sink' = IF sink.queue = <<>> THEN [sink EXCEPT !.at = "exited"]
               ELSE [sink EXCEPT !.batch = sink.queue, !.queue = <<>>, !.at = "writing"]
    /\ UNCHANGED <<conf, src, reg, out, sent, now>>

WriteNext ==
    /\ sink.at = "writing"
    /\ out' = Write(out, Head(sink.batch))
    /\ sink' = [sink EXCEPT !.batch = Tail(@), !.at = IF out'.at = "raised" THEN "exited"
                                                      ELSE IF Len(sink.batch) = 1 THEN "waiting" ELSE @]
    /\ UNCHANGED <<conf, src, reg, sent, now>>

StopSink ==
    /\ sink.owner = "running" /\ conf.queued
    /\ sink' = [sink EXCEPT !.stop = TRUE, !.owner = "joining", !.due = Len(sent)]
    /\ UNCHANGED <<conf, src, reg, out, sent, now>>

SinkJoined ==
    /\ sink.owner = "joining" /\ sink.at = "exited"
    /\ sink' = [sink EXCEPT !.owner = "stopped"] /\ out' = Close(out)
    /\ UNCHANGED <<conf, src, reg, sent, now>>

-----------------------------------------------------------------------------
(* The replay thread.                                                        *)

Row == src.file[src.pos]
Skipped == Row.schema = None \/ Row.topic = DeviceInfo
Exit(closed) == src' = [src EXCEPT !.at = "exited", !.closed = @ + closed]

Announced(row) ==
    IF \E i \in DOMAIN src.seen : src.seen[i].topic = row.topic THEN src.seen ELSE Append(src.seen, row)

\* One turn of the loop up to its wait or its delivery
Play ==
    /\ conf.queued /\ src.at = "playing"
    /\ IF src.pos > Len(src.file) THEN Exit(IF src.stop THEN 0 ELSE 1) /\ UNCHANGED <<reg, sink, sent>>
       ELSE IF Row.schema # None /\ src.stop THEN Exit(0) /\ UNCHANGED <<reg, sink, sent>>
       ELSE IF Skipped THEN src' = [src EXCEPT !.pos = @ + 1] /\ UNCHANGED <<reg, sink, sent>>
       ELSE LET seen == Announced(Row)
                heard == IF seen = src.seen THEN reg ELSE OnAnnounce(reg, SelfInfo(seen))
                t0 == IF conf.paced /\ src.t0 = <<>> THEN <<now, Row.at>> ELSE src.t0
                early == conf.paced /\ t0[1] + Row.at - t0[2] > now
            IN IF early
               THEN /\ src' = [src EXCEPT !.seen = seen, !.t0 = t0, !.at = "waiting"]
                    /\ reg' = heard /\ UNCHANGED <<sink, sent>>
               ELSE /\ src' = [src EXCEPT !.seen = seen, !.t0 = t0, !.pos = @ + 1]
                    /\ Deliver(heard, LocalIdFor(seen, Row.topic), Row)
    /\ UNCHANGED <<conf, out, now>>

\* stop.wait(delay)
WaitEnds ==
    /\ src.at = "waiting"
    /\ IF src.stop THEN Exit(0) /\ UNCHANGED <<reg, sink, sent>>
       ELSE /\ src.t0[1] + Row.at - src.t0[2] <= now
            /\ src' = [src EXCEPT !.pos = @ + 1, !.at = "playing"]
            /\ Deliver(reg, LocalIdFor(src.seen, Row.topic), Row)
    /\ UNCHANGED <<conf, out, now>>

StopReplay ==
    /\ conf.queued /\ ~src.stop /\ src' = [src EXCEPT !.stop = TRUE]
    /\ UNCHANGED <<conf, reg, sink, out, sent, now>>

\* A caller copying the rows of read_mcap, and closing the writer at the end
Copy ==
    /\ ~conf.queued /\ src.at = "playing"
    /\ IF src.pos > Len(src.file) \/ out.at = "raised"
       THEN Exit(0) /\ out' = Close(out) /\ UNCHANGED sent
       ELSE IF Row.schema = None THEN src' = [src EXCEPT !.pos = @ + 1] /\ UNCHANGED <<out, sent>>
       ELSE /\ src' = [src EXCEPT !.pos = @ + 1] /\ out' = Write(out, Row)
            /\ sent' = IF out'.at = "raised" THEN sent ELSE Append(sent, Row)
    /\ UNCHANGED <<conf, reg, sink, now>>

Describe ==
    /\ ~conf.queued /\ out.at = "open" /\ Len(out.metadata) < MaxRecords
    /\ out' = AddMetadata(out, Len(out.metadata) + 1)
    /\ UNCHANGED <<conf, src, reg, sink, sent, now>>

Clock == now < MaxNow /\ now' = now + 1 /\ UNCHANGED <<conf, src, reg, sink, out, sent>>

OneSchemaPerTopic(file) ==
    \A i, j \in DOMAIN file : file[i].topic = file[j].topic => file[i].schema = file[j].schema

Init ==
    /\ \E file \in Files, q, p \in BOOLEAN, l \in Limits :
         /\ q => OneSchemaPerTopic(file)
         /\ conf = [queued |-> q, paced |-> p /\ q, bytes |-> l.bytes, age |-> l.age]
         /\ src = [file |-> file, pos |-> 1, seen |-> <<>>, t0 |-> <<>>, at |-> "playing", stop |-> FALSE, closed |-> 0]
    /\ reg = [byId |-> {}, topics |-> {}, dropped |-> 0]
    /\ sink = [queue |-> <<>>, batch |-> <<>>, at |-> "waiting", stop |-> FALSE, owner |-> "running", due |-> 0]
    /\ out = [parts |-> <<FreshPart(<<>>)>>, schemas |-> {}, chans |-> {}, since |-> 0, metadata |-> <<>>, at |-> "open"]
    /\ sent = <<>> /\ now = 0

Next ==
    \/ Take \/ WriteNext \/ StopSink \/ SinkJoined
    \/ Play \/ WaitEnds \/ StopReplay \/ Copy \/ Describe \/ Clock

Spec == Init /\ [][Next]_vars

-----------------------------------------------------------------------------
Named(names, id) == IF id \in DOMAIN names THEN names[id] ELSE None

\* Reading the parts back, in order: each part's own records name the topic and
\* the schema of every message in it
ReadBack(part) ==
    [i \in DOMAIN part.msgs |->
       LET m == part.msgs[i]
           c == part.chans[m.chan]
       IN [topic |-> c[1], schema |-> Named(part.schemas, c[2]), at |-> m.at, size |-> m.size]]
Parts == FlattenSeq([i \in DOMAIN out.parts |-> ReadBack(out.parts[i])])

\* The rows of the file a replay delivers, or a copy writes
Offered == SelectSeq(src.file, LAMBDA row : row.schema # None /\ (conf.queued => row.topic # DeviceInfo))

(* A recording written again is the recording: the parts, each read on its   *)
(* own records, hold the rows handed to the sink, in order and with the topic*)
(* and schema they had in the file, whatever part they fell into. Once the   *)
(* sink has stopped, all it had been handed by then; once a copy is done, all*)
(* of them. No part but the last is empty, none is more than a message past  *)
(* its limit, each carries every metadata record so far, and no announced    *)
(* channel's row is dropped as unmapped.                                     *)
CopiedWhole ==
    /\ IsPrefix(Parts, sent) /\ IsPrefix(sent, Offered) /\ reg.dropped = 0
    /\ sink.owner = "stopped" => Len(Parts) >= sink.due
    /\ ~conf.queued => Parts = sent
    /\ \A i \in DOMAIN out.parts :
         LET part == out.parts[i]
         IN /\ i < Len(out.parts) => PartBytes(part) > 0
            /\ conf.bytes # 0 /\ part.msgs # <<>> => PartBytes(part) - part.msgs[Len(part.msgs)].size < conf.bytes
            /\ i > 1 => IsPrefix(out.parts[i - 1].meta, part.meta)
    /\ out.at = "open" => Current(out).meta = out.metadata

(* A replay that reached its end reports it once, one that was stopped never *)
(* does; and no row is delivered before its time.                            *)
EndReportedOnce ==
    /\ src.closed <= 1 /\ (src.closed = 1 => src.pos > Len(src.file))
    /\ conf.paced /\ src.t0 # <<>> => \A i \in DOMAIN sent : src.t0[1] + sent[i].at - src.t0[2] <= now

(* "rotate by elapsed log time": a part spans no more than the limit before  *)
(* its last message.                                                         *)
PartsSpanLogTime ==
    conf.age # 0 =>
      \A i \in DOMAIN out.parts :
        LET msgs == out.parts[i].msgs
        IN \A j \in 1..(Len(msgs) - 1) : msgs[j].size > 0 => msgs[j].at - msgs[1].at <= conf.age
=============================================================================
