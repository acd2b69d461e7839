------------------------------- MODULE MCHost -------------------------------
(***************************************************************************)
(* The host's threads, devices and links, for TLC.                         *)
(*                                                                         *)
(* The components share no variable: one is explored (focus) with the      *)
(* others at rest.  Their bounds are given here, those that a run chooses  *)
(* are constants.                                                          *)
(***************************************************************************)
EXTENDS Integers, Sequences, FiniteSets

CONSTANTS
  Focus,        \* the components explored
  MaxPlugs,     \* bound: what discovery is told of
  Units, Lans,  \* the units it may list, and the addresses they have beside their tethers
  MaxChanges,   \* bound: key changes sent or printed
  MaxElements,  \* bound: elements fed to sync
  Image,        \* units of a firmware image
  UpdateWindow, \* the window of an update
  Want, Cap, MinChunk, MaxChunk, Adverts, MaxResumes, MaxFaults, \* its chunks, retries and losses
  QueryWait, StallTimeout, SoftRetry, CommitWait, Deadline, \* and its waits
  MaxFrames,    \* bound: frames a peer sends
  Rigs, Keys,   \* rigs, and keys the two programs may mint
  Elsewhere, Env, \* a key of another machine, the keys the environment names
  MaxLosses,    \* bound: crashes, power losses and directory syncs refused
  Items, Depth, \* what a prefetched source yields, and the depth of its queue
  Sizes, Versions, MaxOpens, Cursors, \* of a recording that is pulled, and of the listing
  FileChunks, MaxReads, MaxLost, \* chunks of a log, requests for one, replies lost
  Sources, Replays, Callers, \* what the launcher connects to, the recordings of it, its callers
  MaxConnects, MaxSwitches, MaxCommands, MaxRows, InboxDepth, \* bounds of theirs
  Streams, Raw, VideoQueue, VideoFrames, MaxSessions \* the launcher's video, and bounds

ASSUME HostAssumption == {MaxPlugs, MaxChanges, MaxElements, Image, UpdateWindow, MaxFrames} \subseteq Nat \ {0}
ASSUME KeysAssumption == "none" \notin Keys \cup {Elsewhere} /\ MaxLosses \in Nat
ASSUME ReadsAssumption ==
  /\ {Items, FileChunks, MaxReads, MaxLost} \subseteq Nat /\ {Depth, MaxOpens} \subseteq Nat \ {0}
  /\ Sizes \cup Versions \subseteq Nat /\ Cursors \cap {"", "first"} = {}
ASSUME BridgeAssumption == MaxConnects \in Nat
ASSUME UnitsAssumption == "none" \notin Units \cup Lans
ASSUME OtaAssumption == {Want, Cap, MinChunk, MaxChunk} \cup Adverts \subseteq Nat
ASSUME VideoAssumption == VideoQueue \in Nat \ {0} /\ MaxSessions \in Nat

VARIABLES
  focus,      \* the component whose behaviour this is
  \* wire/ota.py, and a device
  pc, quieted, commit, chunk, smallest, st, cursor, last_ack, resumes,
  committed, outcome, timers, down, up, link, policy, dev, faults, restore_lost,
  \* wire/recordings.py, and a device
  file, legacy, name, pull, sunk, pages, list,
  \* wire/diag.py, and a device
  rd, device, wire, losses_left,
  \* transport/framed_fd.py, and a peer
  ep, io, ctl, conn, sent, inb, queue,
  \* reader/ops.py, prefetch
  source, worker, buffer, stop, consumer, yielded,
  \* display/serve.py
  mgr, stops, reader, sockets, inbox, status, ui, call, waiting, command_seq,
  \* display/discovery.py
  world, devices, mdns_ids, scan, mdns, robbed, page, events,
  \* display/__init__.py, transcoding
  session, launcher, bridges, decoders, server,
  \* mcap/crypto.py and the two programs that keep keys
  disk, lock, prog, sealed, rig, shown, made, stored, durable, exposed, losses,
  \* mcap/
  conf, src, reg, sink, out, handed, now,
  \* reader/ops.py, sync
  cfg, clock, held, track, arrived, pending, watermark, yields,
  \* relay_registry.py
  behind, nextId, relayed, byId, topicId, owner, sinks

ota_v ==
  <<pc, quieted, commit, chunk, smallest, st, cursor, last_ack, resumes,
    committed, outcome, timers, down, up, link, policy, dev, faults, restore_lost>>
pull_v ==
  <<file, legacy, name, pull, sunk, pages, list>>
logs_v ==
  <<rd, device, wire, losses_left>>
fd_v ==
  <<ep, io, ctl, conn, sent, inb, queue>>
prefetch_v ==
  <<source, worker, buffer, stop, consumer, yielded>>
bridge_v ==
  <<mgr, stops, reader, sockets, inbox, status, ui, call, waiting,
    command_seq>>
discovery_v ==
  <<world, devices, mdns_ids, scan, mdns, robbed, page, events>>
video_v ==
  <<session, launcher, bridges, decoders, server>>
keys_v ==
  <<disk, lock, prog, sealed, rig, shown, made, stored, durable, exposed, losses>>
replay_v ==
  <<conf, src, reg, sink, out, handed, now>>
sync_v ==
  <<cfg, clock, held, track, arrived, pending, watermark, yields>>
relay_v ==
  <<behind, nextId, relayed, byId, topicId, owner, sinks>>
vars ==
  <<focus, ota_v, pull_v, logs_v, fd_v, prefetch_v, bridge_v, discovery_v,
    video_v, keys_v, replay_v, sync_v, relay_v>>

-----------------------------------------------------------------------------
(* Recordings a replay plays: topics that share a schema and one that has  *)
(* none, an announce, a topic whose schema changes, a hole in log time.    *)
Recordings ==
  LET R(topic, schema, at, size) == [topic |-> topic, schema |-> schema, at |-> at, size |-> size]
  IN {<<R("a", "x", 0, 1), R("i", "d", 0, 1), R("b", "y", 1, 2), R("a", "x", 1, 1)>>,
      <<R("a", "x", 0, 0), R("a", "y", 1, 1), R("b", "y", 1, 1)>>,
      <<R("b", "x", 0, 1), R("a", "none", 1, 1), R("b", "x", 1, 1), R("c", "x", 2, 1)>>,
      <<R("a", "x", 0, 1), R("a", "x", 2, 1), R("a", "x", 2, 1)>>}
Rotations == {[bytes |-> 0, age |-> 0], [bytes |-> 2, age |-> 0], [bytes |-> 0, age |-> 1]}

(* Each interpolation mode, with and without a lag and a limit on age, on  *)
(* a recording's stream and on a live one.                                 *)
SyncConfigs ==
  LET C(mode, future, stale, lag, kind, ordered) ==
        [mode |-> mode, on_future |-> future, stale |-> stale, lag |-> lag, kind |-> kind,
         tol |-> 1, window |-> 2, partial |-> TRUE, passthrough |-> TRUE, ordered |-> ordered]
  IN {C("interpolate", "extrapolate", -1, 0, "pose", TRUE), C("interpolate", "hold", 1, 2, "joints", TRUE),
      C("nearest", "hold", -1, 1, "frame", TRUE), C("hold_last", "hold", 1, 1, "pose", TRUE),
      C("interpolate", "extrapolate", 1, 1, "orientation", FALSE)}
SyncSamples ==
  {[kind |-> "pose", body |-> {"odom"}], [kind |-> "pose", body |-> {"map"}],
   [kind |-> "joints", body |-> {"j"}], [kind |-> "joints", body |-> {"j", "k"}],
   [kind |-> "frame", body |-> {}], [kind |-> "orientation", body |-> {}]}

Ota == INSTANCE OtaRelay WITH
  Total <- Image, Window <- UpdateWindow
Pull == INSTANCE RecordingsPull
Logs == INSTANCE Diag WITH
  MaxFaults <- MaxLost, faults <- losses_left
Fd == INSTANCE FdEndpoint WITH
  MaxOutbox <- 1, MaxDepth <- 1, Wanted <- {1, 2}, MaxSent <- 2, MaxInbound <- MaxFrames,
  MaxDeaths <- 1, Room <- 3, link <- conn
Ahead == INSTANCE Prefetch WITH
  queue <- buffer
Switch == INSTANCE Bridge WITH
  Devices <- Sources, link <- sockets, pending <- waiting
\* The address of a unit's tether is known by the unit's name.
Found == INSTANCE Discovery WITH
  Addresses <- Units \cup Lans, TetherOf <- [u \in Units |-> u], MaxEvents <- MaxPlugs
Video == INSTANCE Transcode WITH
  Queue <- VideoQueue, MaxFrames <- VideoFrames, reader <- bridges, worker <- decoders
Ring == INSTANCE RecordingKeys WITH
  None <- "none", Foreign <- Elsewhere, MaxSealed <- MaxChanges
Copy == INSTANCE Replay WITH
  Files <- Recordings, None <- "none", DeviceInfo <- "i", Limits <- Rotations, MaxNow <- 3,
  MaxRecords <- 1, sent <- handed
Join == INSTANCE Sync WITH
  MatchKeys <- {"a", "b"}, Key <- "p", Configs <- SyncConfigs, Samples <- SyncSamples, MaxFed <- MaxElements, MaxTime <- 2,
  out <- yields
View == INSTANCE Viewer WITH
  Devices <- {"a", "b"}, TopicsOf <- [a |-> {"t", "u"}, b |-> {"t"}], MaxConnects <- 4, MaxLink <- 2,
  dev <- behind, link <- relayed

-----------------------------------------------------------------------------
AtRest == "at rest"
ota_rests ==
  /\ pc = AtRest /\ quieted = AtRest /\ commit = AtRest /\ chunk = AtRest
  /\ smallest = AtRest /\ st = AtRest /\ cursor = AtRest
  /\ last_ack = AtRest /\ resumes = AtRest /\ committed = AtRest
  /\ outcome = AtRest /\ timers = AtRest /\ down = AtRest /\ up = AtRest
  /\ link = AtRest /\ policy = AtRest /\ dev = AtRest /\ faults = AtRest
  /\ restore_lost = AtRest
pull_rests ==
  /\ file = AtRest /\ legacy = AtRest /\ name = AtRest /\ pull = AtRest
  /\ sunk = AtRest /\ pages = AtRest /\ list = AtRest
logs_rests ==
  /\ rd = AtRest /\ device = AtRest /\ wire = AtRest /\ losses_left = AtRest
fd_rests ==
  /\ ep = AtRest /\ io = AtRest /\ ctl = AtRest /\ conn = AtRest
  /\ sent = AtRest /\ inb = AtRest /\ queue = AtRest
prefetch_rests ==
  /\ source = AtRest /\ worker = AtRest /\ buffer = AtRest /\ stop = AtRest
  /\ consumer = AtRest /\ yielded = AtRest
bridge_rests ==
  /\ mgr = AtRest /\ stops = AtRest /\ reader = AtRest /\ sockets = AtRest
  /\ inbox = AtRest /\ status = AtRest /\ ui = AtRest /\ call = AtRest
  /\ waiting = AtRest /\ command_seq = AtRest
discovery_rests ==
  /\ world = AtRest /\ devices = AtRest /\ mdns_ids = AtRest
  /\ scan = AtRest /\ mdns = AtRest /\ robbed = AtRest /\ page = AtRest /\ events = AtRest
video_rests ==
  /\ session = AtRest /\ launcher = AtRest /\ bridges = AtRest
  /\ decoders = AtRest /\ server = AtRest
keys_rests ==
  /\ disk = AtRest /\ lock = AtRest /\ prog = AtRest /\ sealed = AtRest
  /\ rig = AtRest /\ shown = AtRest /\ made = AtRest /\ stored = AtRest
  /\ durable = AtRest /\ exposed = AtRest /\ losses = AtRest
replay_rests ==
  /\ conf = AtRest /\ src = AtRest /\ reg = AtRest /\ sink = AtRest
  /\ out = AtRest /\ handed = AtRest /\ now = AtRest
sync_rests ==
  /\ cfg = AtRest /\ clock = AtRest /\ held = AtRest /\ track = AtRest
  /\ arrived = AtRest /\ pending = AtRest /\ watermark = AtRest
  /\ yields = AtRest
relay_rests ==
  /\ behind = AtRest /\ nextId = AtRest /\ relayed = AtRest /\ byId = AtRest
  /\ topicId = AtRest /\ owner = AtRest /\ sinks = AtRest

MCInit ==
  /\ focus \in Focus
  /\ IF focus = "ota" THEN Ota!Init ELSE ota_rests
  /\ IF focus = "pull" THEN Pull!Init ELSE pull_rests
  /\ IF focus = "logs" THEN Logs!Init ELSE logs_rests
  /\ IF focus = "fd" THEN Fd!Init ELSE fd_rests
  /\ IF focus = "prefetch" THEN Ahead!Init ELSE prefetch_rests
  /\ IF focus = "bridge" THEN Switch!Init ELSE bridge_rests
  /\ IF focus = "discovery" THEN Found!Init ELSE discovery_rests
  /\ IF focus = "video" THEN Video!Init ELSE video_rests
  /\ IF focus = "keys" THEN Ring!Init ELSE keys_rests
  /\ IF focus = "replay" THEN Copy!Init ELSE replay_rests
  /\ IF focus = "sync" THEN Join!Init ELSE sync_rests
  /\ IF focus = "relay" THEN View!Init ELSE relay_rests

MCNext ==
  \/ focus = "ota" /\ Ota!Next
     /\ UNCHANGED <<focus, pull_v, logs_v, fd_v, prefetch_v, bridge_v,
                   discovery_v, video_v, keys_v, replay_v, sync_v, relay_v>>
  \/ focus = "pull" /\ Pull!Next
     /\ UNCHANGED <<focus, ota_v, logs_v, fd_v, prefetch_v, bridge_v,
                   discovery_v, video_v, keys_v, replay_v, sync_v, relay_v>>
  \/ focus = "logs" /\ Logs!Next
     /\ UNCHANGED <<focus, ota_v, pull_v, fd_v, prefetch_v, bridge_v,
                   discovery_v, video_v, keys_v, replay_v, sync_v, relay_v>>
  \/ focus = "fd" /\ Fd!Next
     /\ UNCHANGED <<focus, ota_v, pull_v, logs_v, prefetch_v, bridge_v,
                   discovery_v, video_v, keys_v, replay_v, sync_v, relay_v>>
  \/ focus = "prefetch" /\ Ahead!Next
     /\ UNCHANGED <<focus, ota_v, pull_v, logs_v, fd_v, bridge_v,
                   discovery_v, video_v, keys_v, replay_v, sync_v, relay_v>>
  \/ focus = "bridge" /\ Switch!Next
     /\ UNCHANGED <<focus, ota_v, pull_v, logs_v, fd_v, prefetch_v,
                   discovery_v, video_v, keys_v, replay_v, sync_v, relay_v>>
  \/ focus = "discovery" /\ Found!Next
     /\ UNCHANGED <<focus, ota_v, pull_v, logs_v, fd_v, prefetch_v, bridge_v,
                   video_v, keys_v, replay_v, sync_v, relay_v>>
  \/ focus = "video" /\ Video!Next
     /\ UNCHANGED <<focus, ota_v, pull_v, logs_v, fd_v, prefetch_v, bridge_v,
                   discovery_v, keys_v, replay_v, sync_v, relay_v>>
  \/ focus = "keys" /\ Ring!Next
     /\ UNCHANGED <<focus, ota_v, pull_v, logs_v, fd_v, prefetch_v, bridge_v,
                   discovery_v, video_v, replay_v, sync_v, relay_v>>
  \/ focus = "replay" /\ Copy!Next
     /\ UNCHANGED <<focus, ota_v, pull_v, logs_v, fd_v, prefetch_v, bridge_v,
                   discovery_v, video_v, keys_v, sync_v, relay_v>>
  \/ focus = "sync" /\ Join!Next
     /\ UNCHANGED <<focus, ota_v, pull_v, logs_v, fd_v, prefetch_v, bridge_v,
                   discovery_v, video_v, keys_v, replay_v, relay_v>>
  \/ focus = "relay" /\ View!Next
     /\ UNCHANGED <<focus, ota_v, pull_v, logs_v, fd_v, prefetch_v, bridge_v,
                   discovery_v, video_v, keys_v, replay_v, sync_v>>

MCSpec == MCInit /\ [][MCNext]_vars

(* The fairness of each component: a thread that can run does, a wait that *)
(* has a timeout times out, a join returns when what it joins has ended.   *)
(* A device of the OTA relay answers what reaches it; no other peer must.  *)
MCFairSpec ==
  /\ MCSpec
  /\ WF_ota_v(focus = "ota" /\ Ota!Relay)
  /\ WF_ota_v(focus = "ota" /\ Ota!Tick)
  /\ WF_ota_v(focus = "ota" /\ Ota!Device)
  /\ WF_pull_v(focus = "pull" /\ Pull!Pulls)
  /\ WF_pull_v(focus = "pull" /\ Pull!ListPage)
  /\ WF_logs_v(focus = "logs" /\ Logs!Host)
  /\ WF_fd_v(focus = "fd" /\ Fd!Thread)
  /\ WF_fd_v(focus = "fd" /\ Fd!Joined)
  /\ WF_prefetch_v(focus = "prefetch" /\ Ahead!Worker)
  /\ WF_prefetch_v(focus = "prefetch" /\ Ahead!Consumer)
  /\ WF_bridge_v(focus = "bridge" /\ (Switch!Join \/ Switch!FailPending \/ Switch!Set))
  /\ \A g \in Switch!Gens : WF_bridge_v(focus = "bridge" /\ Switch!Reader(g))
  /\ \A c \in Callers :
       WF_bridge_v(focus = "bridge" /\ (Switch!Register(c) \/ Switch!Send(c) \/ Switch!Wait(c)))
  /\ WF_discovery_v(focus = "discovery" /\ Found!SerialLoop)
  /\ WF_discovery_v(focus = "discovery" /\ Found!Browser)
  /\ WF_discovery_v(focus = "discovery" /\ Found!Stream)
  /\ WF_video_v(focus = "video" /\ (Video!Switched \/ Video!JoinTimesOut))
  /\ \A s \in Video!Sessions :
       /\ WF_video_v(focus = "video" /\ Video!Reader(s))
       /\ \A v \in Streams : WF_video_v(focus = "video" /\ Video!Work(s, v))

-----------------------------------------------------------------------------
(* The relay reports ok only for an image the device holds, keeps within   *)
(* its window through every rewind and leaves no link dark (wire/ota.py).  *)
RelaySafe == focus = "ota" => Ota!RelaySafe

(* What is handed over is what was asked for, from its first byte or item  *)
(* and with no hole: a recording of one version (pull_file), each page of  *)
(* a listing once, a log though replies were lost or belong to an earlier  *)
(* request (read_file), the items of a prefetched source.                  *)
ReadsExact ==
  /\ focus = "pull" => Pull!PulledWhole /\ Pull!ListedOnce
  /\ focus = "logs" => Logs!ReadUnspliced
  /\ focus = "prefetch" => Ahead!InOrder /\ Ahead!Bounded

(* A connection carries whole frames either way, one that died spills none *)
(* into the next, and its end is reported once (transport/framed_fd.py).   *)
FramesWhole == focus = "fd" => Fd!WholeFrames /\ Fd!ClosedOnce

(* What is shown and commanded is the source connected last, and an answer *)
(* is of the device that was asked (serve.py, BridgeManager).              *)
ShownIsConnected == focus = "bridge" => Switch!ShownIsConnected /\ Switch!AnswersMatch

(* Every Wi-Fi row of the launcher's list is of a name that resolved to it, *)
(* and no such name is without one unless another that shared its address  *)
(* took it; a unit on its tether is one row, and a click on a row connects *)
(* to the unit it names (discovery.py).                                    *)
RowsTrue == focus = "discovery" => Found!RowsBacked /\ Found!UnitOnce

(* A session whose threads ended in time leaves nothing in the viewer's    *)
(* server, and no stream is shown out of order (VideoDecodeSink).          *)
SwitchIsClean == focus = "video" => Video!SwitchIsClean

(* Whatever a device, a link or a caller does: the relay returns, a pull,  *)
(* a listing and a request end, stop() returns, a consumer that leaves     *)
(* leaves no worker, a switch ends and an abandoned session with it, a     *)
(* command is answered; and the launcher's list settles on what is there,  *)
(* but for a unit that moved without a goodbye or whose row another took.  *)
OperationsEnd ==
  /\ []<>(focus = "ota" => Ota!Returned)
  /\ []<>(focus = "pull" => Pull!PullOver)
  /\ []<>(focus = "logs" => Logs!RequestOver)
  /\ []<>(focus = "fd" => Fd!StopReturned)
  /\ []<>(focus = "prefetch" => Ahead!WorkerGone)
  /\ []<>(focus = "bridge" => Switch!Switched)
  /\ \A g \in Switch!Gens : []<>(focus = "bridge" => Switch!LetGo(g))
  /\ \A c \in Callers : []<>(focus = "bridge" => Switch!CallOver(c))
  /\ []<>(focus = "video" => Video!SwitchOver)
  /\ \A s \in Video!Sessions : []<>(focus = "video" => Video!ThreadsGone(s))
  /\ []<>(focus = "discovery" => Found!PageShown)
  /\ \A u \in Units :
       /\ <>[](focus = "discovery" /\ u \in world.plugged) => <>[](focus = "discovery" => Found!UsbListed(u))
       /\ <>[](focus = "discovery" /\ u \notin world.plugged) => <>[](focus = "discovery" => ~Found!UsbListed(u))
       /\ \A a \in Units \cup Lans :
            <>[](focus = "discovery" /\ world.announced[u] = a /\ Found!Followed(u))
              => <>[](focus = "discovery" => Found!TcpListed(a))

-----------------------------------------------------------------------------
(* A key this computer minted that footage was recorded under is never     *)
(* lost, through crashes and power losses (mcap/crypto.py, remember_key).  *)
OwnerHolds == focus = "keys" => Ring!OwnerHolds

(* A recording played into a sink, or copied, is the recording, whatever   *)
(* parts it is cut into; its end is reported once (mcap/).                 *)
CopiedWhole == focus = "replay" => Copy!CopiedWhole /\ Copy!EndReportedOnce

(* sync's pruning changes no group, a group's members belong together, and *)
(* no element vanishes (reader/ops.py).                                    *)
SyncSound == focus = "sync" => Join!PruneHarmless /\ Join!GroupsSound /\ Join!ValuesSound /\ Join!NoneVanishes

(* Behind a relay a device that reconnects under new ids is heard under    *)
(* its own topics, and no id names two of them (relay_registry.py).        *)
ReconnectIsHeard == focus = "relay" => View!ReconnectIsHeard
=============================================================================
