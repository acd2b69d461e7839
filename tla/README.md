# visio-schema verification

TLA+ models of visio-schema, the schema, transport and recording library of the
Visio devices (`cpp/`, `python/`, `ts/`). TLC checks the models on small
instances; TLAPS proves the results listed under *Proofs* for every value of the
constants.

## 1. The system and its parts

A device runs a *bus*: producers `Send` messages, the bus hands each message to
every attached *endpoint*, and an endpoint carries it over one *leg* (a serial
gadget, a TCP connection, an in-process queue, or a recording file). Almost
everything that is hard to test in the library lives in the legs, where
producer threads, an I/O thread, a peer, the kernel and the owner meet.

| part | state | operations | talks to | what is hard | what makes it correct |
|---|---|---|---|---|---|
| write policy (`write_policy.hpp`) | none (operators on a deque) | `ApplyDropBound` | every bounded queue | byte and depth bounds with frames larger than the bound; which frame is shed | the bound holds; protected and in-flight frames outlive the rest |
| framed outbox (`framed_outbox.cc`) | queue, byte total, buffer in flight, drop counter | `Enqueue`, `TryEnqueue`, `DiscardQueued`, `Drain`, `Clear` | producers (locked), I/O thread (writes unlocked) | eviction around a half-written frame, partial writes, age sweep | a lossy FIFO: order kept, loss only before the first byte, every loss counted |
| wake fd (`wake_fd.hpp`) | fd, `signalled_` | `Open`, `Signal`, `Drain`, `Close` | producers, I/O loop | two objects updated in opposite orders; elided writes; reopen | the loop never sleeps on work |
| framed fd endpoint (`framed_fd.cc`) | three outboxes, timed lane, fd, stall latch, degrade latch, rate grids, receive buffer | `Send*`, `TrySendReliable`, `Pump`, `ReadInbound`, `MarkLinkDead`, `Reopen`, `SetStreamPolicy`, `Stop` | outboxes, wake fd, watchdog, bus, peer | lanes sharing one wire, a latch fed by what it blocks, links replaced under producers | frames never splice, no lane starves, a stall clears, one death is one report, links do not mix |
| serial endpoint and watchdog (`serial.cc`, `serial_watchdog.hpp`) | last USB state, byte counters, retry state | `Tick`/`tick` | framed fd endpoint, kernel USB state | inferring a dead reader from the absence of progress; retries and backoff | a stale link is reopened, an idle or unproven one is not |
| tcp acceptor (`tcp.cc`) | listen fd, accept thread, pause | `Loop`, `AcceptPass`, `Stop` | kernel backlog, owner's admission gate | poll with no timeout; a refused client that redials | refusals are paced, welcome clients get in, `Stop` returns |
| message inbox, queue endpoint (`message_inbox.hpp`) | queue, byte total, closed flag | `Push`, `PopBatch`, `Close` | reader threads, one consumer | edge-only notify sent after the unlock; capped batches | a sleeper is always notified, nothing is lost uncounted |
| mcap writer and parts (`mcap/writer/*.cc`) | current part, staging, rotation state | `Write`, `WriteContinuation`, `Roll`, `Close` | storage, read-back | a part that cannot be opened, refused storage, a cut across several video streams | order kept, no part closed twice, nothing lost by a cancelled cut |
| mcap writer endpoint (`writer_endpoint.cc`, `payload_arena.cc`) | queue, batch, arena, stop flags | `Start`, `Send`, `WriterLoop`, `StopFor` | bus thread, writer thread, stoppers | one condition variable with two kinds of waiter; reclaim outside the lock; failure mid-batch | every frame written or counted, `StopFor` ends, finalized once |
| python endpoint (`transport/framed_fd.py`) | fd, outbox, frame in flight, receive buffer, stop flag | `send`, `_loop`, `_pump`, `_read_inbound`, `_mark_link_dead`, `tick`, `stop` | kernel, peer, owner | a link lost under a write; what outlives a descriptor | whole frames, nothing spilled into the next link, one report of the end |
| python mcap (`mcap/`) | parts, registered schemas and channels, queues of two threads | `write`, `_roll`, `add_metadata`, replay and writer threads | registry, callers | a roll between two writes, a stop in the middle of a replay | a copy is the recording, whatever parts it is cut into |
| registries (`routing/registry.py`, `relay_registry.py`) | id to channel, topic to id, owner | `declare`, `learn`, `forget`, `on_announce`, `accept` | relay, sinks | devices that reconnect under new ids | an id names one topic, a device is heard under its own |
| ota relay (`wire/ota.py`) | cursor, acknowledged bytes, resumes, clocks | query, begin, stream, commit, confirm, abort | device over a lossy link | rewinds, stale statuses, foreign sessions, timeouts | ok only for an image the device holds; it always returns |
| recordings pull, diagnostic log (`wire/recordings.py`, `wire/diag.py`, `diag/`) | offset and identity expected; expected chunk | open, receive, list; read, list, parse | device | a file replaced under the pull, replies lost | what is read is what was asked for, unspliced |
| reader session (`reader/session.py`, `rows.py`, `exposure.py`) | an index per file, decoder and join state per stream | index, calibration, `stream`, keyframes, exposure | files, codec | files in any order, cut short, overlapping; windows that start between keyframes | a window shows what a full read shows; indices agree with the files |
| reader operations (`reader/ops.py`) | bounded queue and worker; matcher buffers, samples | `prefetch`, `sync` | a stream and its consumer | a consumer that leaves; pruning against late groups | order kept, no worker left, pruning changes no group that is on time |
| launcher (`display/serve.py`, `discovery.py`) | current connection, pending commands; rows and ids | connect, disconnect, `send_command`; scan, mDNS, add | operator, device threads, page | superseded connects, late answers; rows that several sources share | what is shown is connected, rows are backed, waiters are released |
| display sinks (`display/__init__.py`) | channels, worker per video stream, bitrate window | write, reset, route, pace, derive | viewer server, codec | worker threads over a switch of session; seq wrap | a switch leaves nothing behind, derived rows are true |
| recording keys (`mcap/crypto.py`, `recording_key.py`) | keyring file and its lock, environment | remember, resolve; read and decrypt | two programs, a disk that loses power | lost update, torn file, reads from any position | a key once kept is kept, a decrypted byte is the recorded one |
| settings QR (`settings_qr/`) | none (one run of a dialogue) | validate, seal, encode | operator, device | flags, answers and the earlier configuration disagree | no secret leaves unsealed unasked; what is sealed is what opens |

`PROJECT.json` lists every part, with the reason for each one that is not
modelled, and the hazards of the code at the lines where they bite.

## 2. Modules

| module | models | state and actions |
|---|---|---|
| `WritePolicy` | `write_policy.hpp` | policies as records; `Evicted`, `Admits`, `EvictedBefore` are `ApplyDropBound` as a set of entries to shed |
| `LossyFifo` | (abstract) what a bounded outbox promises | `Offer`, `Commit`, `Deliver`, `Reset` |
| `FramedOutbox` | `framed_outbox.cc` | a queue of numbered entries, the buffer in flight; one action per critical section or unlocked write |
| `WakeFd` | `wake_fd.hpp` and the loop that waits on it | `Signal` is three steps (check, exchange, write), `Open` two |
| `FramedFdPump` | `Send*`, `Pump`, `PumpTimed`, `UpdateStallState`, bulk flush | each outbox reduced to frames queued and bytes left in flight; `wire` is the lane the reader is inside a frame of |
| `FramedFdLink` | `Loop`, `MarkLinkDead`, `ReadInbound`, `Reopen`, `AdoptFd`, `Stop`, `TrySendReliable` | every descriptor has its own number, so a use after close shows |
| `SerialWatchdog` | `SerialWatchdog::tick` and `SerialEndpoint::Tick` | differences of clocks and counters, saturating at the largest value they are compared with |
| `DegradeGate` | the keyframes-only latch in `EnqueueOne`, `UpdateStallState`, `MarkLinkDead` | load, compare and exchange of the atomic are separate steps, and so are the rule's drop and the queueing |
| `RateGate` | `SetStreamPolicy`, `PassesRateGate` | the grid of each stream; capture times in any order |
| `MessageInbox` | `message_inbox.hpp` | unlock and notify are separate steps; timeouts and spurious wakeups |
| `TcpAcceptor` | `TcpAcceptor::Loop`, `AcceptPass`, `Stop` | the kernel backlog, refusals, the pause after one |
| `PayloadArena` | `payload_arena.cc` | operators on a record: `Put`, `Free`, `CompleteReclaim`, `Reset` |
| `McapWriterEndpoint` | `writer_endpoint.cc` | a place per sender, stopper and the writer thread; a call of the file writer returns, finds storage refused, or throws |
| `McapParts` | `parts.cc`, `part_outcome.hpp` | operators from the writer's record to its possible outcomes: `OpenPart` with its retries, `Roll`, `CloseCurrentPart` |
| `McapWriter` | `record.cc`, `continuation.cc` | `Write`, `FlushDue` and `Close` are one step each, as one thread owns the writer; time passes as `GrowsOlder` and `DeadlinePasses` |
| `FdEndpoint` | `transport/framed_fd.py`, `link.py`, `framing.py`, `queue.py` | the I/O thread between its system calls; frames of two pieces, any number of which a read or write takes |
| `Replay` | `mcap/writer.py`, `reader.py`, both endpoints, `routing/registry.py` | rows played on one thread, written on another, or copied directly; parts as sequences of rows with what they registered |
| `Viewer` | `relay_registry.py`, the one-shot pipe | an external relay that numbers every connection afresh |
| `OtaRelay` | `wire/ota.py` `relay` | one action per phase, one step per iteration of the streaming loop; the device and the lossy link are external |
| `RecordingsPull` | `wire/recordings.py` | a byte is the version of the file it was read from |
| `Diag` | `wire/diag.py`, `diag/__init__.py` | requests over a channel that keeps replies of earlier ones; log lines parsed and split into runs |
| `SessionIndex` | `reader/session.py`, before a message is streamed | operators from files to index, calibration, tracks, selection and what each file emits |
| `SessionStream` | `Session.stream`, `rows.py`, `exposure.py` | access units carry their place, so a frame with missing references shows |
| `Keyframes` | sparse reads and cadence | operators over access units |
| `Prefetch` | `ops.prefetch` | one action per blocking call of worker and consumer |
| `Sync` | `ops.sync`, `interp.py` | one action per element; a value is the samples it came from |
| `Bridge` | `serve.BridgeManager` | operator, reader and endpoint threads, command callers, by lock region |
| `Discovery` | `discovery.DiscoveryService`, the device page | scan thread, mDNS callbacks, operator, event stream |
| `Transcode` | `VideoDecodeSink`, `FoxgloveSink` and the launcher's switch | reader and worker threads over sessions; joins may time out |
| `Display` | derivers, sinks and `run_bridge` | operators over a sequence of rows |
| `RecordingKeys` | keyring of `mcap/crypto.py`, `recording_key.py`, the programs that seal changes | write, flush, rename and power loss are steps of their own |
| `Vrec` | `mcap/crypto.py` reading, `decrypt.py` | plaintext byte *p* is *p*, its ciphertext the pair of byte and keystream position |
| `SettingsQr` | `settings_qr/`, `crypto/envelope.py` | operators from configuration, answers and flags to the code, and back |
| `MCFramedOutbox`, `MCLinks`, `MCGates`, `MCWaits`, `MCRecorder`, `MCHost`, `MCReader` | instances for TLC | `MCTrials` is the part of `MCReader` that theorems are about |
| `*Proofs` | theorems | |

**Benches.** `MCLinks`, `MCGates`, `MCWaits`, `MCRecorder` and `MCHost` hold several components
that share no variable. Their `focus` is chosen in the initial state and says which
component moves; the others rest. As nothing is shared, a behaviour of one
component with the others at rest is every behaviour it has, and the run costs
the sum of the state spaces, not their product. `MCReader` holds the pure algorithms:
a behaviour is one trial, whose input is the initial state, and the invariants hold
the result against a reference definition. Its trials of `SettingsQr` and `Vrec`, which use
no RECURSIVE operator, are in `MCTrials`.

**Abstractions.** Payloads are sizes, and frames are numbered in the order they
are offered; what a frame says is never looked at. `FramedFdPump` drops the
eviction detail of the outboxes, which `FramedOutbox` checks. `DegradeGate` leaves
out frames that the stall door refuses and frames that are not bulk: neither
reaches the gate. `WakeFd` and the pump are composed by what the first
guarantees: a queued frame is seen by a later pass. `McapWriterEndpoint` and
`McapWriter` are composed in the same way: the endpoint allows every call the
outcomes `McapWriter` gives it (it returns, `storage_refused()` becomes true, it
throws from `OpenPart`), and `McapWriter` is called by one thread, as the endpoint
guarantees. In the endpoint `stop_mu_` is held within one action, the channel lookup
before the lock, `WaitForStart` and the gauges are left out. In the file writer a
storage step succeeds or fails, loses bytes or not, and ends the recording or not;
which write of a part it was, what is synced when, and what a file then holds are
left out, and so are metadata and schema records and read-back. On the Python side a
message is its topic, stamp, schema and what the algorithm reads of it; a video frame
is its place among the frames captured, whether it is a keyframe, and how far its
references reach; an encrypted text names the key it was sealed to. Peers (device,
relay, kernel, disk, operator) are external and do what the code has to expect of
them, losses and repetitions included; of mDNS they are announcements, refreshes and goodbyes in any
order, a resolution that finds the record gone but not one that times out. Logging and statistics that
nothing decides on are left out.

## 3. What the runs check

Most properties of a run are conjunctions of named parts, one per hazard of the
component; the parts are named here in parentheses where the name is their own.

* **outbox** (`MCFramedOutbox`): the lanes of an endpoint, two producers, partial
  writes at every byte. `EveryShedCounted`; `ShedsToBound` (types, the bounds on an
  exact byte total and not on the code's counter, and the shed order: keyframes survive
  the age sweep, small frames outlive bulk ones); `ImplementsLossyFifo` (refinement);
  `NoFrameParked` (liveness).
* **pump** (`MCLinks`, `FramedFdPump` in focus): four lanes over one fd, a peer that stops and
  resumes, link death, flush, withdrawal. `NoSplice`; `LinkRecovers` (`StallClears`,
  `LanesDrain`).
* **links** (`MCLinks`, `FramedFdLink` or `SerialWatchdog` in focus): `LinksSound` (a reliable frame accepted for one link is
  never sent on the next, no half frame is carried over, every descriptor is owned);
  `LinkEnds` (`DeathReportedOnce`, `StopReturns`); for the watchdog
  `ReopenedWhenStale` (`StallNeedsReader`, `StaleLinkReopened`).
* **gates** (`MCGates`): `LiftedOnlyPastDeadline`, `ResumesAtKeyframe` (but for two
  leaks of the code, named below), `DegradeEnds`; `CapIsFair` (the rate cap holds and mutes
  no stream). Stream policies are set and lifted between a frame's gate and its queue.
* **waits** (`MCWaits`): `NoSleepOnWork`; `NothingLost` (a sleeper is signalled, every
  message accounted, a storm of refusals paced); `WaitsEnd` (`WorkIsSeen`,
  `WelcomeAdmitted`, `StopReturns`).
* **recorder** (`MCRecorder`): `FramesKept` (every frame written or counted however a
  batch is given up, arena records intact, no sleeper left), `OneFinalizer`,
  `CutsDecodable` (parts start decodable, co-phased cameras lose nothing at a cut),
  `PartsSound` (a staged cut loses nothing, part numbers have no unexplained gap, parts
  are bounded: by the ceiling, one frame and the stage); `RecorderEnds` (`StopCompletes`,
  `StagedIsFlushed`).
* **reader** (`MCReader`): each over every small input. `WindowsAgree`: a windowed
  stream is the full stream restricted, clean frames only, whatever files the seam cuts
  and whichever keyframe a camera needs; and in time order, also where a file starts
  before the last one ended, unless `_seam_slack` takes two files for parallel ones. `KeyframesTrue`: every n-th keyframe, the
  records of a window and the cadence against the bitstream, and where a codec without a
  parser is an error and never a cadence or a "too short to tell". `ExposureAgrees`: the
  streaming join, which forgets, attaches what the whole track would, and a track holds
  the entries of its camera and of nobody else. `IndexHolds`: the index of files that
  are whole, cut short, without summary or unreadable, the merged calibration, and the
  inventory. `LogsWhole`: no line lost, no two runs of a device in one. `CodesCarrySecrets`:
  what a code contains opens to what was entered and nothing leaves in the clear unless
  asked, and complete answers to the prompts make a code that changes the key as asked.
  `RecordingsReadBack`: reads from any position, copies whole or absent.
  `PipesTrue`: drops counted across the wrap of `seq`, windows, and what reaches each sink.
* **services** (`MCHost`, with fairness): `ReadsExact` (pull, listing, log,
  prefetch), `ShownIsConnected`, `RowsTrue`, `SwitchIsClean`; `OperationsEnd`: every
  transfer, request, connect, command, switch and stop ends, and the device list
  settles on what is plugged in and announced. Two units may announce one address there, and a
  unit may move with a goodbye, without one, or before its goodbye was told: the list settles on
  an announced unit unless it moved in silence or another took its row along (`Followed`).
* **host_data** (`MCHost`, larger instances, safety only): `RelaySafe` (ok only for an image
  the device holds, the window, and a quieted link not left dark: the frame that puts it back
  is sent on every exit, and may be lost), `FramesWhole`, `OwnerHolds`, `CopiedWhole`,
  `SyncSound` (`PruneHarmless`, `GroupsSound`, `ValuesSound`, `NoneVanishes`),
  `ReconnectIsHeard`.

Runs that show the code and its documentation disagree (quoted in `PROJECT.json`
under *findings*):

* **link_stale_read**: after a failed write closed the fd, the C++ loop still reads its
  copy of the descriptor.
* **fd_write_death**: a fixed link of the Python endpoint that dies under a write is
  never reported, and its thread goes on.
* **prefetch_leak**: with depth 1 a consumer that leaves early can leave the worker
  waiting for ever to put its sentinel.

Further places where the code does not do what it says, met while modelling. The
statement is in the module named, and no run is kept for it:

* `WakeFd!FreshFdFreshFlag`: a `Signal` that spans a `Close` and an `Open` leaves the flag set
  over an empty fd, the case the comment at `wake_fd.hpp:32-34` says the reset avoids.
* `FramedFdPump!ControlGoesFirst`: on the bulk lane `Drain` may commit a second frame before
  control is looked at (`framed_fd.cc:425-431`).
* `DegradeGate!FreshLinkUndegraded`: evictions made while the fd is down degrade the next
  link (`framed_fd.cc:546-549`).
* The promise that full rate resumes at a sync point leaks in two places, which
  `ResumesAtKeyframe` excepts and tells from every other (`resumed_blind`): a keyframe of one
  stream lifts the latch for all (`framed_fd.cc:228-241`), and a keyframe that lifted it may
  then be dropped by the rule of its stream (`framed_fd.cc:255-256`), so that a P-frame is the
  first the viewer gets.
* `SerialWatchdog!StallIsSustained`: three wakeups in a row, not six seconds, count as a
  stall (`serial_watchdog.hpp:39`).
* `McapWriter!PartsStartDecodable`, when a keyframe exceeds `max_staged_bytes`: it goes to the
  old part while its camera stays in the candidate, because `FlushStaged` returns at once on
  an empty stage (`continuation.cc:96`). The keyframe of the other camera then completes an
  *aligned* cut, into a part that says it is decodable alone and in which the first camera
  starts between keyframes, where `writer.hpp:109-110` says that an incomplete candidate is
  cancelled into the old part. TLC finds it at once with a keyframe of nine bytes and a stage
  of eight in `MCRecorder`; `CutsDecodable` is stated, checked and proved for keyframes that fit.
* `Replay!PartsSpanLogTime`: rotation by age reads the clock, not log time (`writer.py:64`).
* `Bridge!SerialIsConnected`: the serial outlives its connection until the next announce
  (`serve.py:566`).
* `Diag!ReadWhole`: `DONE` ends a read wherever it comes, with fewer bytes than asked.
* `OtaRelay!CommitOnlyWhenAcked`: a device that reports SUCCESS early is committed early
  (`docs/protocol/ota.md`). And `relay` looks at no answer to its last `quiesce(False)`
  (`ota.py:576-580`): a link that loses that frame stays quiet, and so does one that applied a
  `quiesce(True)` whose ack was lost, for then nothing is sent at the end.
* `Discovery`: a goodbye removes the row of whoever else resolved to the same address
  (`discovery.py:355-358`), and so does a name that moves (`346-350`); nothing brings that row back but
  a new hello, since `update_service` ignores a name it knows, which also leaves a unit that
  moved without a goodbye under its old address (`369-375`).
* `Sync`: with live streams a group may be closed at an instant that arrived late, behind what
  was pruned (`ops.py:471-476`), so its value may differ from the one the whole history
  gives, where `_frontier` says that nothing older is needed; and such a group comes out after later ones.
* `SettingsQr!ValidCodesFit`: a valid configuration can exceed the density the backstop
  comment calls out of reach (`cli.py:352-354`).
* `Transcode!WorkersStopFirst`: a bounded join may leave a worker running when the sink is
  reset (`display/__init__.py:837-839`); `SwitchIsClean` is stated for threads that ended
  in time.
* Another device's `/frame_info` topic makes the exposure index fail with a type error
  (`session.py:1861`), where `session.py:289-311` says it is skipped; rows of a file in the
  retired layout reach the streaming join when another file is current (`session.py:1864`);
  `stream(raw=[cam/frame_info])` hands the join an unparsed record. The trials of `MCReader`
  state what holds besides.
* The writer thread of the Python `McapWriterEndpoint` dies with its first exception, and
  `send` goes on queueing; a replay of an unreadable file ends without `on_closed`.
* `_pace` stays on keyframes only when the device clock steps back
  (`display/__init__.py:810`); `seal_into` overwrites `t` and `v` of a configuration
  (`cli.py:138`); a malformed inherited `VISIO_RECORDING_KEY` defeats `--key-file`
  although "explicit flags win" (`display/__init__.py:1151`).

**Bounds.** Two producers and three or four frames are enough for a shed, a frame
in flight, one behind it and one being enqueued, which is every configuration a
drain step distinguishes; frames of two bytes give a partial write, and three
bytes of bound are exceeded by two frames. Three descriptors let a link die, be
replaced, and its successor die too. The clocks run past each deadline once
(`DegradeGate`, `FramedFdPump`), or saturate (`SerialWatchdog`), so that no
behaviour ends at a clock bound that the property could depend on. Two video streams
share one latch, and each may have its rule, so that either leak of it is met; two rate-capped streams show
that a grid is a stream's own; four capture epochs fit in
`MaxCapture`. In the recorder five `Send`s are the fewest that let an eviction by
one sender make the room another waits for; a chunk holds two records, a frame of
three bytes fits in none. The file writer gets six messages under the continuation
policy (a synchronized start, a part that becomes due, a whole staged cut and what
follows) and ten, of three cameras, under the legacy one; a storage failure or two.
Its configurations differ in policy, rotation axis, armed target, selection and
keyframe rule. The stage has room for any keyframe in all of them.

`MCReader` tries five access units of two cameras over three files cut anywhere: units
before a window, in it and after, and a reference across each. Camera b is up to three
frames behind camera a, so that a seam hands back up to two units of time (`_seam_slack`)
and `_reorder` has to hold frames across it. A topic may change its codec between files, to one without a parser. Sequence
numbers start two below the wrap. Tracks have five stamps, more than the two entries
the join always keeps plus a pending frame on either side. Encrypted files are cut at
every byte of the header and of two blocks. `MCHost`: an image of two or three chunks
over a window of one or two has an unacknowledged chunk at a rewind and a hole to lose;
one fault may fall on any message, the one that ends quiet mode included, and one retry, resume
and timeout follow it. Two connects
and a switch supersede each other at every step; three discovery events of two units and two
shared addresses (and their tethers) give an id two sources and take one away, or move a name.
Two keys, two programs and two crashes, power losses or refused directory syncs, at any step.
Five elements of `sync` let a match wait while a sample is pruned, and one of its
configurations is of live streams, whose elements come out of order. A queue of one, with
a consumer and a producer, meets full and empty. Four relay connections of two devices
let one reconnect while the other claims its topic.

**Fairness.** Weak fairness of every thread's next step: a thread that can run
does. The I/O loop wakes at least every `kTickMs`, so passes go on with no signal;
`FramedFdPump`'s clock moves once per pass at most (a pass is 200 ms against a
stall time of seconds). On the host, every thread goes on, a wait with a timeout times
out, a join returns when what it joins has ended, and the OTA device answers what
reaches it; no other peer has to. Strong fairness is assumed in three places, all C++: a writable peer
eventually takes bytes (a partial write makes progress), a pass of the loop
eventually ends, and an encoder goes on emitting keyframes. Nothing forces a
client to connect, a peer to read, the owner to stop, a timeout to fire or a
spurious wakeup to occur. In the recorder only the writer thread and a `StopFor`
without timeout are fair; in the file writer, time (a deadline passes) and the
endpoint's timed wait, which then calls `FlushDue`; no camera has to send. Withdrawal of reliable frames is bounded
(`withdraws`), because a caller that withdraws for ever could take away each
probe of a stalled link.

## 4. Proofs

| module | theorem | says |
|---|---|---|
| `WritePolicyProofs` | lemmas | the bytes of a set of frames are those of any part and of the rest |
| `MCFramedOutbox` | `TypeCorrect`, `FramesInOrder`, `ShedsCounted` | types; frames leave in admission order and a shed frame is nowhere else; the drop counter is exact |
| | `OutboxImplementsLossyFifo` | refinement of `LossyFifo` |
| | `ShedsAreBounded` | a lane that sheds is within its depth and byte bounds or holds only protected frames; what it sheds, it sheds in the order of its policy |
| `MCLinks` | `FramesNeverSplice`, `LanesShareTheWire` | no lane writes inside another lane's frame |
| | `LinksAreSound` | links stay apart, descriptors are owned |
| `MCGates` | `LiftIsTimely`, `ResumesAtSyncPoint` | the latch lifts past its deadline only; video resumes at a keyframe, but for the two leaks of section 3 |
| | `RateCapIsFair` | one message at most passes in a slot of the gap, and a message a gap later always does |
| `MCWaits` | `ElisionIsSound`, `NoLostWakeup` | a set flag means a wakeup is pending; no sleep on work |
| | `NothingIsLost` | no consumer asleep on messages, every message accounted, refusals paced |
| `RecorderProofs` | `FinalizedByOne` | the file is closed once, by one thread; a `StopFor` that returned true left no thread |
| | `FramesAreKept` | every frame is written or counted, queued payloads stay whole in the arena, no thread oversleeps |
| | `FileCutsDecodable` | a part that claims to be decodable alone is, and a cut at a keyframe opens no hole |
| | `FilePartsSound` | a continuation keeps every frame in order; parts number without a gap, none is closed twice, each within its bound |
| `HostProofs` | `KeysAreKept` | a key that footage depends on is in a key file or in the ring; no power loss takes one that had a durable copy |
| | `ReadsAreExact` | a pull is of one version and whole, a listing has each page once, a log read has no hole, `prefetch` gives what the source yields |
| | `TheLastIsShown` | the launcher shows and commands the source connected last; answers are of the device asked |
| `ServiceProofs` | `RelayIsSafe` | the relay reports ok only for an image the device holds, keeps within its window, and ends with the frame that lifts quiet mode sent |
| | `SwitchesAreClean` | a switch whose threads ended in time leaves nothing in the viewer's server; a stream is shown in order, from a bounded backlog |
| | `RowsAreTrue` | the launcher's rows are backed, a name keeps its row unless another at its address took it along, a unit is shown once, a click lands on the unit it names |
| | `CodesAreTrue` | a printed code opens to each secret it was given and shows none, with the proof a change needs; complete answers to the prompts make one |
| | `RecordingsAreReadBack` | an encrypted recording reads as its plaintext from anywhere up to its cut; a copy is whole or absent |

They hold for every value of the constants that the named `ASSUME`s of the modules allow:
sizes and bounds are natural numbers, positive where a division or a frame needs it, and
the values that stand for *no key* and *no name* are not a key and not an address; a unit's
tether address is its own name (`Units`), apart from the addresses of the network (`Lans`). For the file writer: no payload
exceeds `MaxFrame` (`RecordsAssumption`), limits are natural numbers, and who asks for
`rotate_on_keyframe` has co-phased cameras whose skew is within the guard, as `writer.hpp`
requires of the caller (`ConfigsAssumption`). Three theorems say more where the
code does less: `FileCutsDecodable` and `FilePartsSound` assume that the stage has room for a
keyframe that begins a candidate (`KeyframesFit`: the default stage is 8 MiB; without it an
aligned cut may not be decodable, section 3, while TLC found the parts sound with such a
keyframe too: of `FilePartsSound` the hypothesis is a need of the shared invariant, not one
that the property is known to have), and a
log read is exact as long as no reply of it was lost. The theorems of the benches
(`MCLinks`, `MCGates`, `MCWaits`, `HostProofs`, `ServiceProofs`) are of the specification TLC
explores: their invariants say what holds of the component in focus, and the component's
own `Init` and `Next` are what the lemmas are about. The last two theorems are of
a trial's input, of which they assume only the type: any configuration, whose texts are
lengths, missing or wrong (the key a body carries is not the model's word for *stop encrypting*), and any
file, any list of seeks and reads, any chunk but an empty one.

*Outbox.* `IInv` is the type invariant, the order of ids over wire, buffer and queue
(`InOrder`), uniqueness of ids, and the exact count. Order alone is not inductive:
without "ids below `next`, each in one place" a push could duplicate an id, and
the count needs the shed set to be finite and disjoint from the queue.
*Refinement.* Each action is mapped to a step of `LossyFifo` under `IInv`: a push
with its evictions is `Offer`, promotion is `Commit`, a write is `Deliver`.
*Bounds.* The byte total is a sum over a set, and the sum a fold whose recursion the provers
do not unfold by themselves. `WritePolicyProofs` shows what it needs of the sum
(`BytesSplit`): the least size at which two sums of one set would differ cannot exist.
`EvictionMakesRoom` then says why a shed ends within the bound: were a frame that
may go still there, what had been shed before it would not have been enough.

*Pump.* `OneFrameInFlight` is what makes `Pick` safe: if at most one lane is in
flight, choosing it first means every other choice happens at a boundary.
*Links.* `LinkIInv` ties the queued frames to the link of the open descriptor
(`LaneIsOfLink`), says that nothing is admitted while the link is down, and that the thread
which adopts a descriptor is the only one that has it (`AdoptsWhileDown`); without the last
a descriptor handed over by `Reopen` and not adopted yet would look leaked.

*Degrade gate.* `BrokenIsHeld` (a broken stream is held by the latch or by the
frame in the sender's hands, unless it was resumed blind) and `PassingIsWhole`. The history
`resumed_blind` is set where the code leaks and nowhere else: for the other streams at a lift, and
for the keyframe's own when its rule drops it.
*Rate gate.* The grid of a stream is the end of the slot of the newest message that passed
(`Slotted`), in an epoch that passed any. From there the number of messages is the number
of slots, one each, and a stamp past the grid or before the epoch passes. It is stated with
`\div`: a comparison of the code with the grid is a comparison of slots (`SteppedIsSlotEnd`).

*Wake fd.* `FlagMeansWake` needs that a producer past the exchange will write, and
that `Open` starts clean; the exception, a `Signal` spanning a whole reopen, is the
finding above and is stated in the invariant.
*Inbox.* What was pushed is queued, taken or dropped, and everything taken is older
than everything queued (`Counted`); `NoLostSignal` is inductive with it, because `Push`
decides to notify in the same critical section that ends emptiness.
*Acceptor.* Refusals of a pass are no more than its accepts, and a pass that refused
leaves with the pause set (`Paced`).

*Recorder.* `OneFinalizer` needs `ThreadMatchesPlace` (the thread object and the
writer's place agree, from spawn to join), `InlineAlone` (an inline finalizer found
no thread, bars the next and has no twin) and `ClosedOnce` (the number of closes is
read off the places). Steps that leave thread, places of stoppers and flags alone
share one lemma.
*Frames kept.* Between two steps a frame that is neither written nor counted is in the queue,
unless an inline finalizer counted that, or in the batch up to the place where the batch is
counted (`Accounted`, whose parts are read off the writer's place). `Holds` is the arena seen
from its entries: `live` counts those of each chunk, those of the chunk being filled lie below
the fill, a chunk on its way to the kernel has none; `PutHolds`, `FreeHolds` and `ResetHolds`
keep it. `ClaimHeld` ties that chunk to the one thread in a `Reclaim`, so it is also what
says who will wake a sender that waits for room, and why the writer is never asleep beside
one and loses no `notify_one` to it; `PutMakesNoRoom` is why a push wakes nobody else.

*File writer.* A call ends in one of many outcomes, as storage may fail at every step, so the
lemmas say what each procedure of the source leaves: which fields it changes (`Same`), and what
holds of them (`OpenPartOutcome`, `FlushOutcome` and their kin). `FileInv` puts together
three accounts. *Numbers* (`Numbered`): each number below the current one is kept or taken, and
a writer without an open part is one that storage refused, so nothing goes in after the end.
*The stage* (`StageSound`, `StartSound`): a candidate's cameras are those of the staged
selected frames, each leading with its keyframe of the point, which is what `OwnStart` of the
next part is read off; a frame owed is a frame staged. That a candidate with no stage cannot
be is where `KeyframesFit` enters. *Bytes*: a part is below its ceiling plus a frame whenever
something is staged, so the stage is what it may still take. For the legacy policy `GridFits`
ties the tick of co-phased cameras to the part: since a cut at a keyframe, who is not primed
still has its keyframe to send in this tick. The loops of `OpenPart` and `FlushStaged` are
functions over the turns made; what they keep is shown by the least turn at which it would
fail (`LeastNat`), since the induction theorems cannot be applied here. The
bound of `PartBounded` has the stage in it because the start's group, and what `Close` drains,
go to one part uncut.

*Keyring.* `Settled` is the heart: whichever ring a loss of power brings back has every key
that a finished `remember_key` wrote. It is kept by the lock (`HoldsLock`: what a program past
`Enter` read is still the ring) and by the two syncs, of data before the rename and of the
directory after. `SendsWhatItWrote` says that the console seals no key that is not written.
The theorem rests on the model's reading of the machine: a file that was not synced may come
back unreadable, a rename that was not synced may come back undone, also when the directory sync was
refused and nobody heard of it (`_fsync_dir`), and a key file, which is not synced, may be
taken by the first power loss after it was written. Keys that had no durable copy then are
`exposed`, and the theorem claims nothing more of them: this much the code does not promise.
*Pull.* What reached the sink is contiguous from where it began (`Contiguous`) and, of a device
that names versions, of the version expected (`OfVersion`); that a version is expected as soon
as anything was sunk is what makes a resumed pull refuse the replaced file.
*Listing.* The cursor asked for next was never asked for (`Taken`, the pages in hand, are
those whose cursors were seen).
*Log.* As long as nothing was lost, the channel holds replies of earlier requests, then
those of this one, with no gap between what was read, what is on the way and what the
device sends next (`InFlight`).
*Prefetch.* What was given, what is queued and what the worker has in
hand are together a prefix of what the source yields, as long as the consumer serves
itself (`Queued`, `InHand`), and what was given stays one (`Given`) once it leaves and
drains. `InOrder` alone says nothing of the queue, so `Get` would not keep it.
*Bridge.* Every connect started has its stop set or is the newest (`OneUnstopped`), and one
whose stop is set runs only while the operator waits for it (`StoppedLeaves`): a row or an
endpoint of an older connect cannot outlive the switch. The guards of `_run` enter in
`NewestShown`, that what ended is what ended the newest. *Commands.* An id is one caller's
(`Numbered`), is waited for only while its caller is there unanswered (`Waited`), and is carried
by the endpoint its caller read and no other (`Carries`), which is why a result that comes late,
after a switch, answers its own caller or nobody.
*OTA relay.* What a status of this session says is so and stays so (`Truthful`), because a
device's bytes only grow: it holds of the statuses in flight (`Heard`) and of what was folded of
them (`Backed`), whatever order and losses they came through. A chunk in flight, and so
what the device comes to hold, lies within the window of what is acked (`Carried`,
`InWindow`), which is why a rewind, whose cursor falls back to what the device said, keeps
within it too. That an outcome is ok, or a commit was sent, then says that the image is held (`Claims`).
A link quieted and still dark after the end has its `unquiet` in flight, or lost one (`PutBack`, `Restoring`).
*Switch of sinks.* The backlog of a stream is in the order read and newer than what is
shown (`Lined`), also for a worker that was abandoned. That no earlier session is left
(`OneSession`) is stated of launchers that never gave up a join, and rests on `NoneLeft`: a reader
leaves only after its workers, so a join that returned left none.
*Discovery.* A tether address is its own unit's, in what is announced, in what the callback in progress is
about to list, and in what a name resolved to (`OwnTether`); other addresses may be shared. So a row
at an address is not yet a row of the name that resolved to it: `robbed`, which the code does not
have, are the names whose row went with another's, by a goodbye or by a move, and has a name back when
its address is listed again. `NamesListed` excepts the name whose row is about to be
added; `PageTold` says who will wake a page that is behind.
*Codes.* Normalising leaves the sections and the secret (`NormalisedKeeps`), what is
sealed is a body that opens to the same secrets with the fleet's key only (`EnvelopeOpens`,
`SealedInto`), and a payload that validates has no text out of its bounds (`ValidFits`).
The prompts give a configuration that is normal already (`AskedIsNormal`) and validates
sealed (`AskedValidates`), because a region is asked for exactly when `validate` wants one;
`Replies` are the answers no longer than the shortest limit they are held to.
*Encrypted recordings.* A read at any place is the plaintext there because the keystream's
block and remainder make the place again (`ReadsWhereItStands`, for any block). Seeks and
reads keep the view's end; a copy after *k* chunks has *k* bytes more or has ended, so that
it ends, and what it wrote is the plaintext up to where its view stands (`CopyFine`).

Only model-checked: all liveness (fairness and `ENABLED` are outside the prover); the
watchdog; the rest of
`MCReader`, whose algorithms are recursive, so that what they compute for every input needs
induction; and of `MCHost` the Python endpoint, replay, `sync` and reconnects (`FramesWhole`,
`CopiedWhole`, `SyncSound`, `ReconnectIsHeard`), which fold over sequences of any length.

## 5. Not modelled

* Cryptographic primitives, codecs, array arithmetic of the reader and the dataset
  export, generated protobuf code, message headers, build scripts and stand-alone
  tools: calls into libraries, or functions with no state and nothing to interleave.
* The COBS and CRC byte codecs, which share exhaustive vectors across the languages; the
  reader that resynchronises over them is part of `FdEndpoint`.
* The scene derivers, rendering, the choice of a GPU decoder, terminal wording and HTTP
  routing: nothing in the modelled code decides on them.
* Serial and TCP device opening and the replay loops of the command line: system calls
  around components that are modelled.
* Read-back of a C++ part that is still being written, its spans and checkpoints, and
  records staged into a part that lost bytes at `Close`: what matters there is what the page
  cache and the card do.
* The C++ registry and topic matching repeat the Python registry that `Replay` and
  `Viewer` model; the TypeScript package packs and parses the same messages.
* A bulk flush requested between `Clear` and `store(false)` in `Pump` is lost; it costs
  one stale frame.
