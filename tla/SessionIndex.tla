---------------------------- MODULE SessionIndex ----------------------------
(***************************************************************************)
(* visio_schema.reader.session: what a Session knows of its files before a *)
(* message is streamed: the index of each, the device, the topics, the     *)
(* metadata records and the calibration.  A topic is a device prefix and a *)
(* name; a file is its messages, channels and metadata records in the      *)
(* order written, and how much of it can be read.                          *)
(***************************************************************************)
EXTENDS Integers, Sequences, FiniteSets, SequencesExt

None == [none |-> TRUE]
NoRecord == "none"
NoDevice == ""
Lowest(S) == CHOOSE x \in S : \A y \in S : x <= y
Highest(S) == CHOOSE x \in S : \A y \in S : x >= y

(* How a file ends: with a summary, without one, cut off while it was      *)
(* written, damaged with no summary, or not readable by this process (a    *)
(* decompressor that is not installed).                                    *)
Endings == {"indexed", "no summary", "cut", "damaged", "no decoder"}

(* _linear_messages and _iter_messages_truncated: the error at the end of  *)
(* what is readable is the end of a truncated file, and loud elsewhere.    *)
Readable(f) == IF f.ending \in {"cut", "damaged"} THEN SubSeq(f.msgs, 1, f.upto) ELSE f.msgs
ReadableMeta(f) == IF f.ending = "cut" /\ f.upto = 0 THEN <<>> ELSE f.meta

(* _FileIndex, or why it raises.                                           *)
IndexError(f, require_index) ==
  CASE f.ending = "no decoder" -> "DecoderNotFound"
    [] f.ending \in {"no summary", "cut", "damaged"} /\ require_index -> "ValueError"
    [] f.ending = "damaged" -> "McapError"
    [] OTHER -> "none"

Count(msgs, topic) == Cardinality({i \in DOMAIN msgs : msgs[i].topic = topic})
Bounds(msgs) ==
  IF msgs = <<>> THEN None
  ELSE LET ts == {msgs[i].t : i \in DOMAIN msgs} IN [first |-> Lowest(ts), last |-> Highest(ts)]

(* The summary speaks of the channels, those without a message too; a scan *)
(* (_scan) only of what it met, whose order need not be that of the stamps.*)
FileIndex(f) ==
  LET seen == Readable(f)
  IN [channels |-> IF f.ending = "indexed" THEN f.channels
                   ELSE {seen[i].topic : i \in DOMAIN seen},
      counts |-> [t \in f.channels |-> Count(seen, t)],
      bounds |-> Bounds(seen),
      truncated |-> f.ending = "cut",
      listed |-> f.ending = "indexed",       \* whether it lists the record names
      names |-> {f.meta[i].name : i \in DOMAIN f.meta}]

-----------------------------------------------------------------------------
\* Devices and canonical topics

(* _detect_device, per file: a file with an unprefixed topic names none.   *)
DetectDevice(topics) ==
  LET devs == {t.device : t \in topics}
  IN IF Cardinality(devs) = 1 THEN (CHOOSE d \in devs : TRUE) ELSE NoDevice
(* _auto_device: files that disagree name none.                            *)
AutoDevice(index) ==
  LET devs == {DetectDevice(index[i].channels) : i \in DOMAIN index} \ {NoDevice}
  IN IF Cardinality(devs) = 1 THEN (CHOOSE d \in devs : TRUE) ELSE NoDevice

(* The device of a Session: none where topics are kept as they are, the    *)
(* one asked for, or the one its files agree on.                           *)
SessionDevice(index, mode, asked) ==
  CASE mode = "preserve" /\ asked # NoDevice -> "refused"
    [] mode = "preserve" /\ asked = NoDevice -> NoDevice
    [] OTHER -> IF asked # NoDevice THEN asked ELSE AutoDevice(index)

(* strip_device_topic_prefix: None for another device's topic only.        *)
Strip(topic, device) ==
  CASE device = NoDevice -> topic
    [] topic.device = device -> [topic EXCEPT !.device = NoDevice]
    [] topic.device # NoDevice -> None
    [] OTHER -> topic

(* topics(): the messages of every file, by canonical topic.               *)
RECURSIVE Total(_, _)
Total(index, pairs) ==
  IF pairs = {} THEN 0
  ELSE LET p == CHOOSE x \in pairs : TRUE
       IN index[p[1]].counts[p[2]] + Total(index, pairs \ {p})
Topics(index, device) ==
  LET all == UNION {{<<i, t>> : t \in index[i].channels} : i \in DOMAIN index}
      canon == {Strip(p[2], device) : p \in all} \ {None}
  IN [c \in canon |-> Total(index, {p \in all : Strip(p[2], device) = c})]

(* schema_conflicts: a topic that is one schema here and another there.    *)
SchemaConflicts(files, index, device) ==
  LET schemas(c) == UNION {{files[i].schema[t] : t \in {x \in index[i].channels :
                        Strip(x, device) = c}} : i \in DOMAIN index}
  IN {c \in DOMAIN Topics(index, device) : Cardinality(schemas(c)) > 1}

-----------------------------------------------------------------------------
\* Metadata records

RotationRows(f) == SelectSeq(ReadableMeta(f), LAMBDA r : r.name = "visio.rotation")
(* _rotation_identity: None without the record; one record, or an error.   *)
(* An index that lists the names saves the read.                           *)
RotationIdentity(f) ==
  IF FileIndex(f).listed /\ "visio.rotation" \notin FileIndex(f).names THEN NoRecord
  ELSE CASE RotationRows(f) = <<>> -> NoRecord
         [] Len(RotationRows(f)) > 1 -> "duplicate"
         [] OTHER -> Head(RotationRows(f)).value

MetadataRecords(files) == FlattenSeq([i \in DOMAIN files |-> ReadableMeta(files[i])])
(* metadata_record: the one that matches; several are an error.            *)
MetadataRecord(files, name) ==
  LET hits == SelectSeq(MetadataRecords(files), LAMBDA r : r.name = name)
  IN CASE hits = <<>> -> NoRecord [] Len(hits) > 1 -> "ambiguous" [] OTHER -> Head(hits).value
(* _read_metadata: the first file's capture record is the session's.       *)
Capture(files) ==
  LET hits == SelectSeq(MetadataRecords(files), LAMBDA r : r.name = "visio.capture")
  IN IF hits = <<>> THEN NoRecord ELSE Head(hits).value
Span(index) ==
  LET known == {index[i].bounds : i \in DOMAIN index} \ {None}
  IN IF known = {} THEN None
     ELSE [first |-> Lowest({b.first : b \in known}), last |-> Highest({b.last : b \in known})]

-----------------------------------------------------------------------------
\* Calibration

CalibTopics(files, index) ==
  UNION {{t \in index[i].channels : files[i].schema[t] = "calib"} : i \in DOMAIN index}

(* Mutant: in the order of the files, truncated or not.                    *)
CalibFileOrder(index) == [i \in DOMAIN index |-> i]

(* _iter_calib: intact files first, then truncated; a file is read for the *)
(* topics it lists that nobody answered yet, each answered by its first    *)
(* message; until every topic is answered.                                 *)
CalibOrder(index) ==
  SelectSeq([i \in DOMAIN index |-> i], LAMBDA i : ~index[i].truncated)
  \o SelectSeq([i \in DOMAIN index |-> i], LAMBDA i : index[i].truncated)
ReadCalib(files, index) ==
  LET want == CalibTopics(files, index)
      File(seen, i) ==
        LET here == (index[i].channels \cap want) \ {s[1] : s \in seen}
            msgs == Readable(files[i])
            first(t) == Lowest({k \in DOMAIN msgs : msgs[k].topic = t})
        IN seen \cup {<<t, i, first(t)>> : t \in {x \in here : Count(msgs, x) > 0}}
  IN FoldLeft(File, {}, CalibOrder(index))

(* _read_calibration: what two prefixes name alike, the first read answers.*)
Calibration(files, index, device) ==
  LET got == {g \in ReadCalib(files, index) : Strip(g[1], device) # None}
      turn(g) == <<CHOOSE k \in DOMAIN index : CalibOrder(index)[k] = g[2], g[3]>>
      sooner(g, h) == turn(g)[1] < turn(h)[1] \/ (turn(g)[1] = turn(h)[1] /\ turn(g)[2] <= turn(h)[2])
      of(c) == {g \in got : Strip(g[1], device) = c}
  IN [c \in {Strip(g[1], device) : g \in got} |-> CHOOSE g \in of(c) : \A h \in of(c) : sooner(g, h)]

-----------------------------------------------------------------------------
(* The exposure of each camera: the topic "info" beside a camera's "cam",  *)
(* in the layout of the file.                                              *)

(* _read_messages: a cut file as it was written, another by stamp.         *)
InReadOrder(f) ==
  IF f.ending = "cut" THEN Readable(f) ELSE SortSeq(Readable(f), LAMBDA a, b : a.t < b.t)

Camera(topic) == IF topic.name = "info" THEN [topic EXCEPT !.name = "cam"] ELSE topic
InfoTopics(f, entry) == {t \in entry.channels : f.schema[t] = "info" /\ t.name = "info"}
InfoIsCurrent(f, entry) == InfoTopics(f, entry) # {} /\ f.layout = "current"

(* _parse_frame_info refuses what the wire contract forbids.               *)
EntryFault(e) ==
  CASE e.us = 0 -> "zero exposure"
    [] e.us # 0 /\ e.direction = "unknown" -> "unknown direction"
    [] e.us # 0 /\ e.direction = "unspecified" /\ e.delay > 0 -> "unplaced delay"
    [] OTHER -> "none"

(* _exposure_cams, off the index: another device's info topic has no       *)
(* canonical name, and taking the camera out of it is a TypeError.         *)
ExposureCams(files, index, device) ==
  LET infos == UNION {{<<i, t>> : t \in InfoTopics(files[i], index[i])} : i \in DOMAIN index}
  IN [raised |-> \E p \in infos : Strip(p[2], device) = None,
      cams |-> {Camera(Strip(p[2], device)) :
                  p \in {x \in infos : Strip(x[2], device) # None /\ InfoIsCurrent(files[x[1]], index[x[1]])}}]

(* _reject_duplicate_stamps.                                               *)
Duplicated(track) == \E k \in 1..(Len(track) - 1) : track[k].t = track[k + 1].t

(* _exposure_tracks: the entries of the current files, by camera and stamp.*)
ExposureTracks(files, index, device) ==
  LET current == SelectSeq([i \in DOMAIN index |-> i], LAMBDA i : InfoIsCurrent(files[i], index[i]))
      want == UNION {InfoTopics(files[i], index[i]) : i \in ToSet(current)}
      rows == FlattenSeq([k \in DOMAIN current |->
                SelectSeq(InReadOrder(files[current[k]]),
                          LAMBDA m : m.topic \in want /\ Strip(m.topic, device) # None)])
      of(m) == Camera(Strip(m.topic, device))
      track(cam) == SortSeq(SelectSeq(rows, LAMBDA m : of(m) = cam), LAMBDA a, b : a.t < b.t)
      tracks == [cam \in {of(rows[k]) : k \in DOMAIN rows} |-> track(cam)]
  IN [raised |-> \/ \E k \in DOMAIN rows : EntryFault(rows[k].entry) # "none"
                 \/ \E cam \in DOMAIN tracks : Duplicated(tracks[cam]),
      tracks |-> tracks]

(* _exposure_at: the entries are read for a camera the index knows to have *)
(* some; one that has none yet gives none.                                 *)
ExposureAt(files, index, device, cam) ==
  LET known == ExposureCams(files, index, device)
      got == ExposureTracks(files, index, device)
  IN CASE known.raised -> "TypeError"
       [] ~known.raised /\ cam \notin known.cams -> "none"
       [] ~known.raised /\ cam \in known.cams /\ got.raised -> "ValueError"
       [] OTHER -> IF cam \in DOMAIN got.tracks THEN "track" ELSE "none"

-----------------------------------------------------------------------------
(* stream(): a query is [topics, gray, gpu, raw, rawall], topics the names *)
(* asked for, or Unnamed.                                                  *)
Unnamed == {None}
Decodable == {"video", "imu"}
Prebuilt == {"video", "image", "imu"}
(* The schema topics() gives: that of the last file to hold the topic.     *)
SchemaOf(files, index, device, c) ==
  LET holds(i) == {t \in index[i].channels : Strip(t, device) = c}
      i == Highest({j \in DOMAIN index : holds(j) # {}})
  IN files[i].schema[CHOOSE t \in holds(i) : TRUE]
OfSchemas(files, index, device, schemas) ==
  {c \in DOMAIN Topics(index, device) : SchemaOf(files, index, device, c) \in schemas}

(* _decoder_binder: the one backend of the pass.                           *)
Backend(q) ==
  CASE q.gpu /\ q.gray -> "refused"
    [] q.gpu /\ ~q.gray -> "nvdec rgb"
    [] OTHER -> IF q.gray THEN "cpu gray" ELSE "cpu rgb24"

(* The checks made at the call, in order.                                  *)
Refused(files, index, device, q) ==
  LET raws == q.rawall \/ q.raw # {}
  IN CASE raws /\ (q.gray \/ q.gpu) -> "raw decodes nothing"
       [] q.raw # {} /\ q.topics = Unnamed -> "raw without topics"
       [] q.raw # {} /\ ~(q.raw \subseteq q.topics) -> "raw not asked for"
       [] q.gpu /\ q.topics # Unnamed /\ q.topics \cap OfSchemas(files, index, device, {"image"}) # {} -> "stills"
       [] ~q.rawall /\ ExposureCams(files, index, device).raised -> "TypeError"
       [] Backend(q) = "refused" -> "gray on the gpu"
       [] OTHER -> "none"

(* What is asked for; the cameras joined with their exposure; the info     *)
(* topics read for that, which only one who asked for them is given.       *)
Info(cam) == [cam EXCEPT !.name = "info"]
Selected(files, index, device, q) ==
  IF q.topics # Unnamed THEN q.topics ELSE OfSchemas(files, index, device, Decodable)
Joined(files, index, device, q) ==
  IF q.rawall THEN {}
  ELSE ExposureCams(files, index, device).cams \cap (Selected(files, index, device, q) \ q.raw)
Asked(files, index, device, q) ==
  LET joined == Joined(files, index, device, q)
  IN IF joined = {} THEN q.topics
     ELSE Selected(files, index, device, q) \cup {Info(c) : c \in joined}

(* _wanted_prefixed: a file is read for what was named, whatever its       *)
(* schema, or for everything (raw), or for what is decoded.                *)
WantedOf(f, entry, device, want, rawall) ==
  {t \in entry.channels :
     /\ Strip(t, device) # None
     /\ CASE want # Unnamed -> Strip(t, device) \in want
          [] want = Unnamed /\ rawall -> TRUE
          [] OTHER -> f.schema[t] \in Decodable}

(* _build_adapters: a schema is parsed by this package's classes or by the *)
(* descriptor in the file.                                                 *)
Adapters(f, wanted) == Prebuilt \cup {f.schema[t] : t \in wanted}

(* _iter_file_raw: every message of a topic, without a look at it.         *)
Passed(f, wanted) == SelectSeq(InReadOrder(f), LAMBDA m : m.topic \in wanted)

(* _iter_file: what becomes of the messages of a file.                     *)
Elements(files, index, device, q, i) ==
  LET wanted == WantedOf(files[i], index[i], device, Asked(files, index, device, q), q.rawall)
      parsed == Adapters(files[i], {t \in wanted : Strip(t, device) \notin q.raw})
      read == Passed(files[i], wanted)
      raw(m) == q.rawall \/ Strip(m.topic, device) \in q.raw
      kept == SelectSeq(read, LAMBDA m : raw(m) \/ files[i].schema[m.topic] \in parsed)
  IN [k \in DOMAIN kept |->
        [topic |-> Strip(kept[k].topic, device), t |-> kept[k].t, file |-> i, raw |-> raw(kept[k])]]

(* join_exposure swallows the info of the cameras it joins, unless asked.  *)
Emitted(files, index, device, q) ==
  LET joined == Joined(files, index, device, q)
      hidden == {Info(c) : c \in joined} \ Selected(files, index, device, q)
  IN [i \in DOMAIN files |-> SelectSeq(Elements(files, index, device, q, i), LAMBDA e : e.topic \notin hidden)]

-----------------------------------------------------------------------------
(* stream_summaries: each stream's files, in the order they are read.      *)
StreamSummaries(files, index, streams) ==
  [s \in DOMAIN streams |-> [k \in DOMAIN streams[s] |->
     LET i == streams[s][k]
     IN [file |-> i, status |-> IF index[i].truncated THEN "truncated" ELSE "ok",
         messages |-> LET n[S \in SUBSET files[i].channels] ==
                            IF S = {} THEN 0
                            ELSE LET t == CHOOSE x \in S : TRUE IN index[i].counts[t] + n[S \ {t}]
                      IN n[files[i].channels],
         bounds |-> index[i].bounds,
         names |-> IF index[i].listed THEN index[i].names ELSE None]]]

-----------------------------------------------------------------------------
(* The reference: what a reader of every message would say.                *)
AllMessages(files) == {<<i, k>> : i \in DOMAIN files, k \in 1..5}
Held(files) == {p \in AllMessages(files) : p[2] \in DOMAIN Readable(files[p[1]])}
At(files, p) == Readable(files[p[1]])[p[2]]

(* topics(), the bounds of each file and of the session are those of the   *)
(* messages a read returns, whichever way the file was indexed: a window   *)
(* that skips a file by its bounds loses nothing.                          *)
IndexTrue(files, index, device) ==
  /\ \A c \in DOMAIN Topics(index, device) :
       Topics(index, device)[c] = Cardinality({p \in Held(files) : Strip(At(files, p).topic, device) = c})
  /\ \A p \in Held(files) :
       /\ index[p[1]].bounds # None
       /\ At(files, p).t \in index[p[1]].bounds.first..index[p[1]].bounds.last
       /\ At(files, p).t \in Span(index).first..Span(index).last
       /\ Strip(At(files, p).topic, device) \in DOMAIN Topics(index, device) \cup {None}

(* Every calibration topic that some file can answer is answered once, and *)
(* by an intact file when one holds it.                                    *)
CalibWhole(files, index) ==
  LET got == ReadCalib(files, index)
      holders(t) == {p[1] : p \in {x \in Held(files) : At(files, x).topic = t}}
  IN \A t \in CalibTopics(files, index) :
       /\ holders(t) # {} <=> \E g \in got : g[1] = t
       /\ \A g, h \in got : g[1] = t /\ h[1] = t => g = h
       /\ \A g \in got : g[1] = t /\ index[g[2]].truncated
                           => \A i \in holders(t) : index[i].truncated

(* A topic conflicts exactly when two files that can be told to hold it    *)
(* name different schemas for it, though only one may prefix the device.   *)
ConflictsTrue(files, index, device) ==
  LET holds == UNION {{<<i, t>> : t \in index[i].channels} : i \in DOMAIN index}
  IN SchemaConflicts(files, index, device) =
       {Strip(h[2], device) : h \in {x \in holds : \E y \in holds :
           /\ x[1] # y[1] /\ Strip(x[2], device) = Strip(y[2], device) /\ Strip(x[2], device) # None
           /\ files[x[1]].schema[x[2]] # files[y[1]].schema[y[2]]}}

(* A file's rotation record is found, or found to be doubled, whether the  *)
(* index lists the record names or the file had to be read for it; and a   *)
(* session has one capture record however its files were indexed.          *)
RecordsFound(files) ==
  /\ \A i \in DOMAIN files :
       LET rows == SelectSeq(ReadableMeta(files[i]), LAMBDA r : r.name = "visio.rotation")
       IN /\ RotationIdentity(files[i]) = NoRecord <=> rows = <<>>
          /\ RotationIdentity(files[i]) = "duplicate" <=> Len(rows) > 1
  /\ Capture(files) = NoRecord <=> MetadataRecord(files, "visio.capture") = NoRecord

(* A recording beside a sidecar keeps its own device and all its topics.   *)
DeviceKept(files, index) ==
  LET prefixed == {f \in DOMAIN files : \A t \in index[f].channels : t.device # NoDevice}
      devs == UNION {{t.device : t \in index[f].channels} : f \in prefixed}
  IN Cardinality(devs) = 1 /\ (\A f \in DOMAIN files \ prefixed :
                                  \A t \in index[f].channels : t.device = NoDevice)
       => \A i \in DOMAIN index : \A t \in index[i].channels :
            Strip(t, AutoDevice(index)) # None

(* Two prefixes may name one calibration: an intact file answers for it    *)
(* before a truncated one, whichever prefix it uses.                       *)
CalibrationIntact(files, index, device) ==
  LET got == Calibration(files, index, device)
      holders(c) == {p[1] : p \in {x \in Held(files) :
                       At(files, x).topic \in CalibTopics(files, index) /\ Strip(At(files, x).topic, device) = c}}
  IN \A c \in DOMAIN got : index[got[c][2]].truncated => \A i \in holders(c) : index[i].truncated

(* The inventory agrees with what a read of each file returns, and says so *)
(* of every file once, however it was indexed.                             *)
InventoryTrue(files, index, streams) ==
  LET got == StreamSummaries(files, index, streams)
      all == FlattenSeq(got)
  IN /\ Len(all) = Len(files) /\ {all[k].file : k \in DOMAIN all} = DOMAIN files
     /\ \A k \in DOMAIN all :
          LET held == {p \in Held(files) : p[1] = all[k].file}
          IN /\ all[k].messages = Cardinality(held)
             /\ all[k].status = "ok" => ReadableMeta(files[all[k].file]) = files[all[k].file].meta
             /\ \A p \in held : At(files, p).t \in all[k].bounds.first..all[k].bounds.last

(* The exposure entries this session may use: of the current layout, of    *)
(* its own device, held by a file that can be read that far.               *)
Entries(files, index, device) ==
  {p \in Held(files) : /\ InfoIsCurrent(files[p[1]], index[p[1]]) /\ At(files, p).topic.name = "info"
                       /\ Strip(At(files, p).topic, device) # None}
CameraOf(files, p, device) == Camera(Strip(At(files, p).topic, device))

(* A camera's track holds the entries of all its files, each stamp once    *)
(* and in order, and of no other device; it is refused only for an entry   *)
(* the contract forbids or two that claim one frame; and the index answers *)
(* which cameras have one.                                                 *)
TracksTrue(files, index, device) ==
  LET got == ExposureTracks(files, index, device)
      mine == Entries(files, index, device)
      known == ExposureCams(files, index, device)
      of(cam) == {p \in mine : CameraOf(files, p, device) = cam}
  IN /\ got.raised <=>
          \/ \E p \in mine : EntryFault(At(files, p).entry) # "none"
          \/ \E p, q \in mine : /\ p # q /\ CameraOf(files, p, device) = CameraOf(files, q, device)
                               /\ At(files, p).t = At(files, q).t
     /\ ~got.raised =>
          /\ DOMAIN got.tracks = {CameraOf(files, p, device) : p \in mine}
          /\ \A cam \in DOMAIN got.tracks :
               LET track == got.tracks[cam]
               IN /\ \A k \in 1..(Len(track) - 1) : track[k].t < track[k + 1].t
                  /\ ToSet(track) = {At(files, p) : p \in of(cam)}
     /\ ~known.raised => /\ DOMAIN got.tracks \subseteq known.cams
                         /\ \A cam \in DOMAIN got.tracks : ExposureAt(files, index, device, cam) # "none"

(* stream() gives each message that was asked for once and nothing else,   *)
(* raw only where that was asked (a topic of two schemas may be decodable  *)
(* in one file only); and the join is fed, parsed, the entries the track   *)
(* of its camera would hold. The retired layout (read all the same) and an *)
(* info topic asked for raw (handed over unparsed) are left out.           *)
SelectionTrue(files, index, device, q) ==
  Refused(files, index, device, q) = "none" =>
    LET out == FlattenSeq(Emitted(files, index, device, q))
        read(i) == Elements(files, index, device, q, i)
        asked(p) == LET m == At(files, p) IN
          /\ Strip(m.topic, device) # None
          /\ IF q.topics # Unnamed THEN Strip(m.topic, device) \in q.topics
             ELSE q.rawall \/ files[p[1]].schema[m.topic] \in Decodable
        retired == \E i \in DOMAIN files : /\ InfoTopics(files[i], index[i]) # {}
                                          /\ ~InfoIsCurrent(files[i], index[i])
        fed(i, cam) == {k \in DOMAIN read(i) : read(i)[k].topic = Info(cam) /\ ~read(i)[k].raw}
    IN /\ SchemaConflicts(files, index, device) = {} =>
            /\ Len(out) = Cardinality({p \in Held(files) : asked(p)})
            /\ ToSet(out) = {[topic |-> Strip(At(files, p).topic, device), t |-> At(files, p).t, file |-> p[1],
                              raw |-> q.rawall \/ Strip(At(files, p).topic, device) \in q.raw]
                               : p \in {x \in Held(files) : asked(x)}}
       /\ ~retired => \A cam \in {c \in Joined(files, index, device, q) : Info(c) \notin q.raw} :
            {<<p[1], At(files, p).t>> : p \in {x \in Entries(files, index, device) : CameraOf(files, x, device) = cam}}
              = UNION {{<<i, read(i)[k].t>> : k \in fed(i, cam)} : i \in DOMAIN files}
=============================================================================
