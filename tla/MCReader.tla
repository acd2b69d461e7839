------------------------------ MODULE MCReader ------------------------------
(***************************************************************************)
(* The host's pure code, for TLC: what is computed from files, rows, flags *)
(* and answers, each held against what the result must say of its input.   *)
(* A behaviour is one trial: its input is the initial state, and the one   *)
(* step reads the result.  The components share nothing, so a trial is of  *)
(* one of them (tried).                                                    *)
(***************************************************************************)
EXTENDS MCTrials, SequencesExt

CONSTANTS
  Focus,       \* the components tried
  Units,       \* access units a camera captured
  Reorder, MaxSeamSlack, NvdecLag, SeqSpan, SeqBase,
  ProbeKeyframes, ProbeAus,
  ExposureGap, ExposureFrames,
  Window, EmitEvery, MaxLinkGap

ASSUME ReaderAssumption ==
  /\ Units \in Nat \ {0} /\ SeqBase \in 0..(SeqSpan - 1)
  /\ ProbeKeyframes >= 2 /\ ProbeAus >= 2
  /\ MaxLinkGap < SeqSpan /\ {Window, EmitEvery} \subseteq Nat \ {0}

vars == <<tried, trial, got>>

Cameras == {"a", "b"}
Stream == INSTANCE SessionStream WITH MaxGap <- ExposureGap, MaxFrames <- ExposureFrames
Keys == INSTANCE Keyframes WITH CadenceKeyframes <- ProbeKeyframes, CadenceAus <- ProbeAus
Index == INSTANCE SessionIndex
Log == INSTANCE Diag WITH FileChunks <- 1, MaxReads <- 1, MaxFaults <- 0,
                          rd <- trial, device <- trial, wire <- trial, faults <- trial
Pipe == INSTANCE Display WITH MaxGap <- MaxLinkGap, NoHealth <- "none"

-----------------------------------------------------------------------------
(* Session.stream.  Two cameras and an IMU over three files, cut at the    *)
(* times in `cuts`, camera b up to three frames behind camera a (shift), so *)
(* that the next file hands back time that the last has spent; access units *)
(* of camera a lost before the file; the parts marked as one rotation, as  *)
(* one that another interrupts, or not at all; and a second stream beside. *)
Msg(topic, kind, t, key, reach) ==
  [topic |-> topic, kind |-> kind, t |-> t, n |-> t, seq |-> (SeqBase + t) % SeqSpan,
   key |-> key, reach |-> reach]
Chapter(cuts, t) == 1 + Cardinality({c \in {1, 2} : cuts[c] <= t})
Rotations(kind, k) ==
  CASE kind = "none" -> Stream!NoRotation
    [] kind = "chain" -> [id |-> "r", part |-> k, continues |-> k > 1]
    [] OTHER -> [id |-> IF k = 3 THEN "s" ELSE "r", part |-> k, continues |-> TRUE]
Recording(x) ==
  LET later(t) == Chapter(x.cuts, IF t + x.shift >= Units THEN Units - 1 ELSE t + x.shift)
      a(k) == SetToSortSeq({t \in 0..(Units - 1) : t \notin x.lost /\ Chapter(x.cuts, t) = k}, <)
      b(k) == SetToSortSeq({t \in 0..(Units - 1) : later(t) = k}, <)
      file(k) == [msgs |-> [i \in DOMAIN a(k) |-> Msg("a", "video", a(k)[i], a(k)[i] \in x.keys, 0)]
                           \o [i \in DOMAIN b(k) |-> Msg("b", "video", b(k)[i], b(k)[i] \in x.bkeys, 0)]
                           \o (IF k = 1 THEN <<Msg("imu", "imu", 0, FALSE, 2)>> ELSE <<>>),
                  rotation |-> Rotations(x.kind, k)]
      files == SelectSeq([k \in 1..3 |-> file(k)], LAMBDA f : f.msgs # <<>>)
  IN <<Stream!FileOrder(files),
       <<[msgs |-> <<Msg("side", "record", 0, FALSE, 0), Msg("side", "record", 3, FALSE, 0)>>,
          rotation |-> Stream!NoRotation]>>>>
StreamTrials ==
  [keys : {{0}, {0, 2}, {1, 3}}, bkeys : {{0}, {2}}, lost : {{}, {1}, {2}, {3}},
   cuts : {<<1, 2>>, <<1, 3>>, <<2, 4>>, <<3, 3>>, <<3, 4>>, <<5, 5>>},
   kind : {"none", "chain", "broken"}, shift : {0, 1, 2, 3}, read : {"cpu", "gpu", "raw"}]
Windows == {w \in {-1, 1, 2, 3} \X {-1, 2, 3, 4} : w[1] # -1 /\ w[2] # -1 => w[1] < w[2]}
Query(x, w) ==
  [start |-> w[1], end |-> w[2], raw |-> {}, rawall |-> x.read = "raw", gpu |-> x.read = "gpu"]

(* Session.stream over a window is the whole stream cut to that window,    *)
(* with the same frames clean in it, though the window opens fewer files   *)
(* and reads less of them (_window_members, _preroll_start); the stream is *)
(* in time order across files, cameras and streams (_reorder), also where a*)
(* file starts before the last one ends (_seam_slack); and a chain of parts*)
(* gives no frame whose references were not fed to its decoder.  Files that*)
(* _seam_slack takes for parallel streams in one list are not claimed.     *)
WindowsAgree ==
  got = 1 /\ tried = "stream" =>
    LET streams == Recording(trial)
        whole == Stream!Stream(streams, Query(trial, <<-1, -1>>))
        Bare(out) == [i \in DOMAIN out |-> <<out[i].topic, out[i].t, out[i].clean>>]
    IN (\A s \in DOMAIN streams : Stream!Sequential(streams[s])) =>
       /\ \A i, j \in DOMAIN whole : i < j => whole[i].t <= whole[j].t
       /\ \A w \in Windows :
            LET out == Bare(Stream!Stream(streams, Query(trial, w)))
                cut == Bare(SelectSeq(whole, LAMBDA e : Stream!InWindow(e.t, w[1], w[2])))
            IN Len(out) = Len(cut) /\ ToSet(out) = ToSet(cut)
       /\ (\A i \in DOMAIN streams[1] : Stream!Marked(streams[1][i])) =>
            \A i \in DOMAIN whole : whole[i].clean

-----------------------------------------------------------------------------
(* keyframe_stream, keyframe_records and the cadence.  Five access units   *)
(* of one camera, cut into two files that repeat one at the seam, the same *)
(* or another, or do not, of a codec with a parser or without, or of one in*)
(* each file; another camera beside them.                                  *)
Au(topic, t, key, data, codec) ==
  [topic |-> topic, t |-> t, key |-> key, data |-> data, codec |-> codec]
Cut(x) ==
  LET codec(t) == IF x.codec = "mixed" THEN IF t < x.at THEN "h265" ELSE "av1" ELSE x.codec
      a == [t \in 0..4 |-> Au("a", t, t \in x.keys, "a", codec(t))]
  IN <<[aus |-> [i \in 1..x.at |-> a[i - 1]], topics |-> {"a"}, chunk_indexed |-> TRUE],
       [aus |-> (CASE x.repeat = "same" -> <<a[x.at - 1]>>
                   [] x.repeat = "other" -> <<[a[x.at - 1] EXCEPT !.data = "x"]>>
                   [] OTHER -> <<>>)
                \o <<Au("b", x.at, x.bkey, "b", "h265")>>
                \o [i \in 1..(5 - x.at) |-> a[x.at + i - 1]],
        topics |-> {"a", "b"}, chunk_indexed |-> x.repeat # "unindexed"]>>
KeyframeTrials ==
  [keys : SUBSET (0..4), at : {2, 3}, repeat : {"none", "same", "other", "unindexed"},
   bkey : BOOLEAN, codec : {"h265", "av1", "mixed"}, every : {1, 2}, start : {0, 1, 2}, end : {3, 5}]

(* keyframe_stream keeps one count across the files of a session, and      *)
(* keyframe_records gives what two files repeat once, in order; a cadence  *)
(* is measured, not guessed, and refused where the codec cannot be parsed. *)
KeyframesTrue ==
  got = 1 /\ tried = "keyframes" =>
    LET files == Cut(trial)
    IN /\ Keys!EveryNth(files, "a", trial.every, trial.start, trial.end)
       /\ trial.every = 1 => Keys!RecordsTrue(files, {"a", "b"}, trial.start, trial.end)
                             /\ Keys!CadenceTrue(files, "a")

-----------------------------------------------------------------------------
(* The exposure of frames: what each of five stamps carries, and another   *)
(* sensor's row near the end or well after it.                             *)
El(topic, t) == [topic |-> topic, t |-> t, exposure |-> Stream!Unresolved]
ExposureTrials ==
  [slots : [0..4 -> {<<>>, <<"frame">>, <<"info">>, <<"frame", "info">>,
                     <<"info", "frame">>, <<"info", "info">>}],
   last : {4, 8}]
ExposureRows(x) ==
  FlattenSeq([k \in 1..5 |-> [i \in DOMAIN x.slots[k - 1] |-> El(x.slots[k - 1][i], k - 1)]])
  \o <<El("imu", x.last)>>

(* Two files with a camera, its frame info and a still: of one device or   *)
(* two, or one beside a sidecar; one entry may break the contract.         *)
InfoBodies == <<<<<<"info", 2>>, <<"cam", 1>>, <<"info", 1>>>>, <<<<"info", 3>>, <<"cam", 3>>, <<"still", 4>>>>,
                <<<<"info", 2>>, <<"info", 5>>, <<"cam", 5>>>>, <<<<"cam", 2>>, <<"still", 4>>>>>>
GoodEntry == [us |-> 1, direction |-> "down", delay |-> 1]
BadEntries == {[GoodEntry EXCEPT !.us = 0], [GoodEntry EXCEPT !.direction = "unknown"],
               [GoodEntry EXCEPT !.direction = "unspecified"]}
InfoFile(x, k) ==
  LET T(name) == [device |-> x.devices[k], name |-> name]
      body == InfoBodies[x.bodies[k]]
      topics == {T(body[i][1]) : i \in DOMAIN body} \cup {T("info")}
      kind(name) == CASE name = "cam" -> "video" [] name = "still" -> "image" [] OTHER -> "info"
      entry(i) == IF k = 2 /\ i = 1 THEN x.entry ELSE GoodEntry
  IN [msgs |-> [i \in DOMAIN body |-> [topic |-> T(body[i][1]), t |-> body[i][2], entry |-> entry(i)]],
      channels |-> topics, schema |-> [t \in topics |-> kind(t.name)],
      ending |-> x.how[k][1], upto |-> x.how[k][2], meta |-> <<>>, layout |-> x.layouts[k]]
Hows == {<<"indexed", 0>>, <<"no summary", 0>>, <<"cut", 2>>}
TrackTrials ==
  [devices : {<<"d1", "d1">>, <<"d1", "d2">>, <<"d1", "">>}, ask : {"auto", "preserve", "d1"},
   layouts : {<<"current", "current">>, <<"current", "retired">>, <<"retired", "current">>},
   how : Hows \X Hows, bodies : {1, 3} \X {1, 2, 3, 4}, entry : {GoodEntry} \cup BadEntries]
Queries ==
  LET T(name) == [device |-> "", name |-> name]
      topics == {Index!Unnamed, {T("cam")}, {T("cam"), T("info")}, {T("info"), T("still")}}
  IN {[topics |-> t, gray |-> FALSE, gpu |-> FALSE, raw |-> {}, rawall |-> r] : t \in topics, r \in BOOLEAN}
     \cup {[topics |-> t, gray |-> FALSE, gpu |-> FALSE, raw |-> {T(n)}, rawall |-> FALSE] :
             t \in topics, n \in {"cam", "info"}}
     \cup {[topics |-> t, gray |-> b, gpu |-> TRUE, raw |-> {}, rawall |-> FALSE] : t \in topics, b \in BOOLEAN}

(* join_exposure, which forgets entries as it goes, attaches to a frame    *)
(* what _ExposureTrack.at, which has them all, would; the track holds the  *)
(* entries of this device's files and no other; and stream() reads for the *)
(* join what the track holds, and emits what was asked for.                *)
ExposureAgrees ==
  got = 1 =>
    /\ tried = "exposure" => Stream!JoinAgrees(ExposureRows(trial), TRUE)
    /\ tried = "tracks" =>
         LET files == <<InfoFile(trial, 1), InfoFile(trial, 2)>>
             index == [i \in 1..2 |-> Index!FileIndex(files[i])]
             device == Index!SessionDevice(index, IF trial.ask = "preserve" THEN "preserve" ELSE "auto",
                                          IF trial.ask = "d1" THEN "d1" ELSE Index!NoDevice)
         IN /\ Index!TracksTrue(files, index, device)
            /\ trial.entry = GoodEntry => \A q \in Queries : Index!SelectionTrue(files, index, device, q)

-----------------------------------------------------------------------------
(* What a Session knows of two files: two of a recording, or one and a     *)
(* sidecar; whole, without an index, cut off, damaged or unreadable.       *)
Bodies == <<<<"calib1", "cam">>, <<"cam", "calib2", "calib1">>, <<"calib2", "calib2">>>>
Metas ==
  LET r(name, value) == [name |-> name, value |-> value]
  IN <<<<>>, <<r("visio.rotation", "r")>>,
       <<r("visio.capture", "c"), r("visio.rotation", "r"), r("visio.rotation", "s")>>>>
File(x) ==
  LET names == Bodies[x.body]
      stamps == <<2, 1, 3>>
      T(name) == [device |-> x.device, name |-> name]
      topics == {T(name) : name \in {"calib1", "calib2", "cam"}}
  IN [msgs |-> [i \in DOMAIN names |-> [topic |-> T(names[i]), t |-> stamps[i]]],
      channels |-> topics,
      schema |-> [t \in topics |-> IF t.name # "cam" THEN "calib" ELSE IF x.body = 3 THEN "image" ELSE "video"],
      ending |-> x.how[1], upto |-> x.how[2], meta |-> Metas[x.body]]
FileTrials ==
  [device : {"d1", "d2", ""}, body : 1..3,
   how : {<<"indexed", 0>>, <<"no summary", 0>>, <<"cut", 0>>, <<"cut", 1>>, <<"cut", 2>>,
          <<"damaged", 1>>, <<"no decoder", 0>>}]
IndexTrials == [files : FileTrials \X FileTrials]

(* A Session's topics, bounds, records and calibration are those of the    *)
(* messages a read of its files returns, however each file was indexed.    *)
IndexHolds ==
  got = 1 /\ tried = "index" =>
    LET files == <<File(trial.files[1]), File(trial.files[2])>>
        index == [i \in 1..2 |-> Index!FileIndex(files[i])]
    IN (\A i \in 1..2 : Index!IndexError(files[i], FALSE) = "none") =>
         /\ Index!IndexTrue(files, index, Index!AutoDevice(index))
         /\ Index!InventoryTrue(files, index, <<<<2>>, <<1>>>>)
         /\ Index!CalibWhole(files, index)
         /\ Index!CalibrationIntact(files, index, Index!AutoDevice(index))
         /\ Index!DeviceKept(files, index)
         /\ Index!RecordsFound(files)
         /\ Index!ConflictsTrue(files, index, Index!AutoDevice(index))

-----------------------------------------------------------------------------
(* A device's log, in the clear or encrypted, with keys to be found in the *)
(* four places resolve_diag_key looks.                                     *)
Lines == {[stamp |-> s, mono |-> m, tag |-> t] :
            s \in {"set", "unset", "mixed", "empty"}, m \in {1, 2}, t \in {"BOOT", "NET"}}
KeysFound == [{"argument", "env", "env_file", "config_file"} -> {"none", "bad", "right"}]
NoKeys == [p \in {"argument", "env", "env_file", "config_file"} |-> "none"]
LogTrials ==
  [encrypted : {FALSE}, keys : {NoKeys}, lines : [1..3 -> Lines]]
  \cup [encrypted : {TRUE}, keys : KeysFound, lines : {<<l, [l EXCEPT !.mono = 1]>> : l \in Lines}]

(* split_boots and iter_records lose no line of a log and put no two runs  *)
(* of the device into one; an encrypted log with no key is an error.       *)
LogsWhole ==
  got = 1 /\ tried = "log" => Log!RunsWholeFor(trial.encrypted, trial.keys, trial.lines)

-----------------------------------------------------------------------------
(* Rows of four streams into visio-display, two of video (one no decoder   *)
(* reads); a stream may lose frames, or restart (-1).  Its seq starts near *)
(* the wrap.                                                               *)
Sources ==
  {[kind |-> "video", sid |-> 1, topic |-> "v", codec |-> TRUE],
   [kind |-> "quat", sid |-> 2, topic |-> "q", codec |-> FALSE],
   [kind |-> "health", sid |-> 3, topic |-> "h", codec |-> FALSE],
   [kind |-> "video", sid |-> 4, topic |-> "w", codec |-> FALSE]}
RowSteps == [row : Sources, dt : {0, 2}, lost : {0, 1}] \cup [row : Sources, dt : {1}, lost : {-1}]
Rows(steps, bad) ==
  LET first(i) == ~\E j \in 1..(i - 1) : steps[j].row.sid = steps[i].row.sid
      f[i \in 0..Len(steps)] ==
        IF i = 0 THEN [rows |-> <<>>, t |-> 0, seq |-> [x \in 1..4 |-> SeqSpan - 2]]
        ELSE LET s == steps[i]
                 was == f[i - 1]
                 gone == IF s.lost = -1 THEN SeqSpan - 3 ELSE s.lost
                 seq == (was.seq[s.row.sid] + 1 + gone) % SeqSpan
                 t == was.t + s.dt
             IN [rows |-> Append(was.rows,
                            s.row @@ [t |-> t, size |-> 1 + s.row.sid, seq |-> seq, bad |-> bad = i,
                                      lost |-> IF first(i) \/ s.lost = -1 THEN 0 ELSE s.lost]),
                 t |-> t, seq |-> [was.seq EXCEPT ![s.row.sid] = seq]]
  IN f[Len(steps)].rows
PipeArgs == [source : {"tcp"}, out : {TRUE}, foxglove : {TRUE}, rerun : BOOLEAN, bitrate : {TRUE}]
PipeTrials ==
  [steps : [1..3 -> RowSteps], bad : {0, 2}, stop : {2, 3}, args : PipeArgs]
  \cup [steps : [1..2 -> RowSteps], bad : {0, 1}, stop : {2},
        args : [source : {"tcp", "mcap"}, out : BOOLEAN, foxglove : BOOLEAN, rerun : BOOLEAN, bitrate : BOOLEAN]]

(* run_bridge gives its sinks the same rows and the same derived samples,  *)
(* and the samples and Rerun's blueprint are true to the rows.             *)
PipesTrue ==
  got = 1 /\ tried = "pipe" => Pipe!PipeTrue(trial.args, Rows(trial.steps, trial.bad), trial.stop)

-----------------------------------------------------------------------------
Init ==
  /\ got = 0 /\ tried \in Focus
  /\ \/ tried = "stream" /\ trial \in StreamTrials
     \/ tried = "keyframes" /\ trial \in KeyframeTrials
     \/ tried = "exposure" /\ trial \in ExposureTrials
     \/ tried = "tracks" /\ trial \in TrackTrials
     \/ tried = "index" /\ trial \in IndexTrials
     \/ tried = "log" /\ trial \in LogTrials
     \/ tried = "code" /\ trial \in CodeTrials
     \/ tried = "prompts" /\ trial \in Answers
     \/ tried = "body" /\ trial \in SealedBodies
     \/ tried = "crypt" /\ trial \in CryptTrials
     \/ tried = "pipe" /\ trial \in PipeTrials

Next == got = 0 /\ got' = 1 /\ UNCHANGED <<tried, trial>>
Spec == Init /\ [][Next]_vars
=============================================================================
