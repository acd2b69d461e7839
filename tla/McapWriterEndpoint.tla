------------------------- MODULE McapWriterEndpoint -------------------------
(***************************************************************************)
(* McapWriterEndpoint (cpp/src/mcap/writer_endpoint.cc): the recording     *)
(* sink of the bus.  Send queues a frame under mu_, its payload copied     *)
(* into a PayloadArena; the writer thread swaps the queue out and writes   *)
(* it; StopFor asks that thread to drain, close the file and end, and      *)
(* closes it inline when no thread can be had.                             *)
(*                                                                         *)
(* mu_ is taken and released within one action, except at the places       *)
(* "release" and "shed", where it stays held from one entry to the next.   *)
(* cv_ has two kinds of waiter: the writer (for work) and senders (for     *)
(* arena room).  What the file writer does is an outcome of each call.     *)
(***************************************************************************)
EXTENDS WritePolicy, PayloadArena

CONSTANTS
  Senders,       \* threads that call Send
  Stoppers,      \* threads that call StopFor ...
  Impatient,     \* ... the ones with a timeout
  Policy,        \* policy_
  MaxSize,       \* payload sizes are 1 .. MaxSize
  MaxFrames      \* bound: frames admitted in a run

ASSUME EndpointAssumption ==
  /\ Policy \in Policies /\ Impatient \subseteq Stoppers
  /\ MaxSize \in Nat \ {0} /\ MaxFrames \in Nat

VARIABLES
  queue, queue_bytes,   \* queue_, queue_bytes_
  batch,                \* batch_
  arena,                \* arena_
  claim,                \* the chunk of the Reclaim in flight, or NoChunk
  dropped,              \* dropped_
  failed, refused,      \* failed_; writer_->storage_refused()
  stop, finalized,      \* stop_, finalized_
  inline,               \* finalizing_inline_
  thread,               \* thread_: "none", "joinable" or "joined"
  writer,               \* the writer thread's place
  back,                 \* where the thread in a Reclaim goes on
  sender, len,          \* each sender's place, and its payload's size
  stopper,              \* each stopper's place
  next,                 \* frames admitted so far
  written, closes       \* history: frames written, calls of writer_->Close

held == <<queue, queue_bytes, batch, arena, claim>>
flags == <<failed, refused, stop, finalized, inline, thread>>
counts == <<dropped, next, written, closes>>
threads == <<writer, back, sender, len, stopper>>
vars == <<held, flags, counts, threads>>

Records == queue \cup batch

ReclaimInFlight == claim # NoChunk
write_failed == failed \/ refused

(* No thread holds mu_ between two steps. *)
MuFree == writer # "release" /\ \A s \in Stoppers : stopper[s] # "shed"

(* The threads asleep on cv_, after notify_all: all are awake. *)
AllSendersWoken ==
  [p \in Senders |-> IF sender[p] = "waiting" THEN "woken" ELSE sender[p]]

(* Mutant: StopFor does not notify cv_. *)
WriterNotWoken == writer

WriterWoken == IF writer = "waiting" THEN "top" ELSE writer

-----------------------------------------------------------------------------
(* Send. *)

(***************************************************************************)
(* Send waits for arena room while a chunk is on its way back to the       *)
(* kernel.  A frame the arena never takes does not wait.                   *)
(***************************************************************************)
MustWait(size) ==
  /\ ReclaimInFlight /\ size <= ChunkBytes
  /\ ~stop /\ ~CanPut(arena, size)

(* The arena after the destructors of the evicted entries. *)
AfterEvicting(evicted) == Reset(arena, evicted)

(* Mutant: an eviction does not wake the senders that wait for room. *)
WokenByNone(evicted) == sender

(* was_empty: only the empty-to-non-empty edge is signalled. *)
Signals(before) == before = {}

(* An eviction may have made the room a waiting sender waits for. *)
WokenByEviction(evicted) ==
  IF ReclaimInFlight /\ evicted # {} THEN AllSendersWoken ELSE sender

Entry(a, size) ==
  LET at == Place(a, size)
  IN  [id |-> next, size |-> size, chunk |-> at.chunk, offset |-> at.offset]

Push(p, size) ==
  /\ next' = next + 1
  /\ IF Admits(Policy, queue)
     THEN LET evicted == Evicted(Policy, queue, queue_bytes, size)
              room == AfterEvicting(evicted)
          IN  /\ queue' = (queue \ evicted) \cup {Entry(room, size)}
              /\ queue_bytes' = queue_bytes - Bytes(evicted) + size
              /\ arena' = Put(room, size)
              /\ dropped' = dropped + Cardinality(evicted)
              /\ sender' = [WokenByEviction(evicted) EXCEPT
                              ![p] = IF Signals(queue) THEN "notify"
                                     ELSE "idle"]
     ELSE /\ dropped' = dropped + 1
          /\ sender' = [sender EXCEPT ![p] = "idle"]
          /\ UNCHANGED <<queue, queue_bytes, arena>>

(* The bound on frames is a bound on the calls of Send that are begun. *)
SendsBegun == next + Cardinality({p \in Senders : len[p] # 0})

Send(p) ==
  /\ sender[p] \in {"idle", "woken"} /\ MuFree
  /\ sender[p] = "idle" => stop \/ SendsBegun < MaxFrames
  /\ \E size \in 1 .. MaxSize :
       /\ sender[p] = "woken" => size = len[p]
       /\ \/ /\ MustWait(size)
             /\ sender' = [sender EXCEPT ![p] = "waiting"]
             /\ len' = [len EXCEPT ![p] = size]
             /\ UNCHANGED <<queue, queue_bytes, arena, dropped, next>>
          \/ /\ ~MustWait(size) /\ ~stop
             /\ Push(p, size) /\ len' = [len EXCEPT ![p] = 0]
          \/ /\ ~MustWait(size) /\ stop
             /\ sender' = [sender EXCEPT ![p] = "idle"]
             /\ len' = [len EXCEPT ![p] = 0]
             /\ UNCHANGED <<queue, queue_bytes, arena, dropped, next>>
  /\ UNCHANGED <<batch, claim, flags, written, closes, writer, back, stopper>>

(* notify_one, after the unlock: any one of the threads asleep on cv_. *)
Notify(p) ==
  /\ sender[p] = "notify"
  /\ \/ /\ writer = "waiting" /\ writer' = "top"
        /\ sender' = [sender EXCEPT ![p] = "idle"]
     \/ \E q \in Senders :
          /\ sender[q] = "waiting"
          /\ sender' = [sender EXCEPT ![p] = "idle", ![q] = "woken"]
          /\ UNCHANGED writer
     \/ /\ writer # "waiting" /\ \A q \in Senders : sender[q] # "waiting"
        /\ sender' = [sender EXCEPT ![p] = "idle"]
        /\ UNCHANGED writer
  /\ UNCHANGED <<held, flags, counts, back, len, stopper>>

(* A condition variable may wake a thread for no reason. *)
SpuriousWakeup ==
  /\ \/ writer = "waiting" /\ writer' = "top" /\ UNCHANGED sender
     \/ \E p \in Senders : /\ sender[p] = "waiting" /\ UNCHANGED writer
                            /\ sender' = [sender EXCEPT ![p] = "woken"]
  /\ UNCHANGED <<held, flags, counts, back, len, stopper>>

-----------------------------------------------------------------------------
(***************************************************************************)
(* ReleaseFront(entries): free the front entry.  When that empties a chunk *)
(* above the resident set, mu_ is given up while the kernel takes it.      *)
(***************************************************************************)
Released(entries) ==
  LET e == CHOOSE g \in entries : g \in Front(entries)
  IN  [rest |-> entries \ {e}, size |-> e.size,
       claim |-> IF e.chunk = NoChunk THEN NoChunk ELSE Claimed(arena, e.chunk),
       arena |-> IF e.chunk = NoChunk THEN arena ELSE Free(arena, e.chunk)]

(* Run has returned: the rest of ReleaseFront, under mu_ again. *)
Completed ==
  /\ claim' = NoChunk /\ arena' = CompleteReclaim(arena, claim)
  /\ sender' = AllSendersWoken

-----------------------------------------------------------------------------
(* WriterLoop. *)

Swap ==
  /\ batch' = queue /\ queue' = {} /\ queue_bytes' = 0
  /\ writer' = IF queue = {} /\ stop THEN "finalize" ELSE "batch"
  /\ UNCHANGED <<arena, claim, flags, counts, back, sender, len, stopper>>

Wait ==
  /\ writer = "top" /\ MuFree /\ ~stop /\ queue = {}
  /\ writer' = "waiting"
  /\ UNCHANGED <<held, flags, counts, back, sender, len, stopper>>

TakeBatch == writer = "top" /\ MuFree /\ (stop \/ queue # {}) /\ Swap

(* The wait is timed while a cut is staged and the recording is healthy. *)
Deadline == writer = "waiting" /\ MuFree /\ ~write_failed /\ Swap

(* Mutant: the frame at hand is not counted. *)
GiveUpBatchLessOne ==
  dropped' = dropped + Cardinality(batch) - 1 /\ writer' = "release"

(* NoteDrop(batch.size()): what is left of the batch will not be written. *)
GiveUpBatch == dropped' = dropped + Cardinality(batch) /\ writer' = "release"

(***************************************************************************)
(* What a call of the file writer may come to: it returns, it returns and  *)
(* storage has refused for good, or it throws (no next part could be       *)
(* opened, for a reason storage may or may not have refused).              *)
(***************************************************************************)
Returns == refused' \in {refused, TRUE} /\ UNCHANGED failed
Throws == refused' \in {refused, TRUE} /\ failed' = TRUE

(* The batch is shed once the recording has failed, else FlushDue is       *)
(* called first.                                                           *)
BeginBatch ==
  /\ writer = "batch"
  /\ \/ write_failed /\ GiveUpBatch /\ UNCHANGED <<failed, refused>>
     \/ ~write_failed /\ Throws /\ GiveUpBatch
     \/ ~write_failed /\ Returns /\ writer' = "drain" /\ UNCHANGED dropped
  /\ UNCHANGED <<held, stop, finalized, inline, thread, next, written, closes,
                 back, sender, len, stopper>>

(* DrainBatch: one turn of its loop, up to the lock. *)
WriteFront ==
  /\ writer = "drain"
  /\ \/ /\ batch = {} /\ writer' = "release"
        /\ UNCHANGED <<dropped, written, failed, refused>>
     \/ /\ batch # {} /\ refused /\ GiveUpBatch
        /\ UNCHANGED <<written, failed, refused>>
     \/ /\ batch # {} /\ ~refused /\ Throws /\ GiveUpBatch
        /\ UNCHANGED written
     \/ /\ batch # {} /\ ~refused /\ Returns /\ writer' = "written"
        /\ written' = written + 1 /\ UNCHANGED dropped
  /\ UNCHANGED <<held, stop, finalized, inline, thread, next, closes, back,
                 sender, len, stopper>>

(* ReleaseFront of the batch, and where the writer goes on. *)
ReleaseOfBatch(on) ==
  LET r == Released(batch)
  IN  /\ batch' = r.rest /\ arena' = r.arena /\ claim' = r.claim
      /\ IF r.claim = NoChunk THEN writer' = on /\ UNCHANGED back
         ELSE writer' = "reclaim" /\ back' = on
      /\ UNCHANGED <<queue, queue_bytes, flags, counts, sender, len, stopper>>

ReleaseWritten == writer = "written" /\ MuFree /\ ReleaseOfBatch("drain")

(* The release point of every path out of a batch, under mu_. *)
ReleaseRest ==
  /\ writer = "release"
  /\ \/ batch # {} /\ ReleaseOfBatch("release")
     \/ /\ batch = {} /\ writer' = "top"
        /\ UNCHANGED <<held, flags, counts, back, sender, len, stopper>>

WriterReclaimed ==
  /\ writer = "reclaim" /\ MuFree
  /\ Completed /\ writer' = back
  /\ UNCHANGED <<queue, queue_bytes, batch, flags, counts, back, len, stopper>>

(* Finalize: Close, whose exception is latched, then the flag. *)
Close ==
  /\ writer = "finalize" /\ writer' = "closed" /\ closes' = closes + 1
  /\ Returns \/ Throws
  /\ UNCHANGED <<held, stop, finalized, inline, thread, dropped, next, written,
                 back, sender, len, stopper>>

SetFinalized ==
  /\ writer = "closed" /\ MuFree /\ writer' = "exited" /\ finalized' = TRUE
  /\ UNCHANGED <<held, failed, refused, stop, inline, thread, counts, back,
                 sender, len, stopper>>

Writer ==
  \/ TakeBatch \/ BeginBatch \/ WriteFront \/ ReleaseWritten \/ ReleaseRest
  \/ WriterReclaimed \/ Close \/ SetFinalized

-----------------------------------------------------------------------------
(* Start and StopFor; stop_mu_ is held within one action only. *)

Spawned == thread' = "joinable" /\ writer' = "top"

Start ==
  /\ MuFree /\ ~stop /\ thread # "joinable" /\ Spawned
  /\ UNCHANGED <<held, failed, refused, stop, finalized, inline, counts, back,
                 sender, len, stopper>>

(* Mutant: an inline finalizer at work is not looked for. *)
NeedsOwnerAlways == ~finalized /\ thread # "joinable"

(* Nobody will finalize: no thread, no inline finalizer, not done. *)
NeedsOwner == ~finalized /\ ~inline /\ thread # "joinable"

(***************************************************************************)
(* StopFor up to its wait.  A writer thread is made if there is none; if   *)
(* it cannot be made, a caller with a timeout gives up and one without     *)
(* finalizes the file itself.                                              *)
(***************************************************************************)
StopBegin(s) ==
  /\ stopper[s] = "idle" /\ MuFree
  /\ stop' = TRUE
  /\ sender' = AllSendersWoken
  /\ \/ /\ ~NeedsOwner /\ stopper' = [stopper EXCEPT ![s] = "await"]
        /\ writer' = WriterWoken
        /\ UNCHANGED <<thread, failed, inline, dropped>>
     \/ /\ NeedsOwner /\ Spawned
        /\ stopper' = [stopper EXCEPT ![s] = "await"]
        /\ UNCHANGED <<failed, inline, dropped>>
     \/ /\ NeedsOwner /\ failed' = TRUE /\ s \in Impatient
        /\ UNCHANGED <<thread, inline, dropped, writer, stopper>>
     \/ /\ NeedsOwner /\ failed' = TRUE /\ s \notin Impatient
        /\ inline' = TRUE
        /\ dropped' = dropped + Cardinality(queue)
        /\ stopper' = [stopper EXCEPT ![s] = "shed"]
        /\ UNCHANGED <<thread, writer>>
  /\ UNCHANGED <<held, refused, finalized, next, written, closes, back, len>>

(* The inline finalizer releases the queue, under mu_ but for a Reclaim. *)
Shed(s) ==
  LET r == Released(queue)
  IN  /\ stopper[s] = "shed" /\ queue # {}
      /\ queue' = r.rest /\ arena' = r.arena /\ claim' = r.claim
      /\ queue_bytes' = queue_bytes - r.size
      /\ stopper' = [stopper EXCEPT ![s] = IF r.claim = NoChunk THEN "shed"
                                           ELSE "reclaim"]
      /\ UNCHANGED <<batch, flags, counts, writer, back, sender, len>>

ShedReclaimed(s) ==
  /\ stopper[s] = "reclaim" /\ MuFree /\ Completed
  /\ stopper' = [stopper EXCEPT ![s] = "shed"]
  /\ UNCHANGED <<queue, queue_bytes, batch, flags, counts, writer, back, len>>

CloseInline(s) ==
  /\ stopper[s] = "shed" /\ queue = {}
  /\ stopper' = [stopper EXCEPT ![s] = "closing"]
  /\ closes' = closes + 1 /\ (Returns \/ Throws)
  /\ UNCHANGED <<held, stop, finalized, inline, thread, dropped, next, written,
                 writer, back, sender, len>>

FinalizedInline(s) ==
  /\ stopper[s] = "closing" /\ MuFree
  /\ finalized' = TRUE /\ stopper' = [stopper EXCEPT ![s] = "returned"]
  /\ UNCHANGED <<held, failed, refused, stop, inline, thread, counts, writer,
                 back, sender, len>>

(* The timed wait runs out: false, and the caller may try again. *)
GivesUp(s) ==
  /\ stopper[s] = "await" /\ s \in Impatient /\ ~finalized
  /\ stopper' = [stopper EXCEPT ![s] = "idle"]
  /\ UNCHANGED <<held, flags, counts, writer, back, sender, len>>

(* join() returns when the thread has. *)
Joined == thread = "joinable" => writer = "exited"

Join(s) ==
  /\ stopper[s] = "await" /\ finalized /\ Joined
  /\ thread' = IF thread = "joinable" THEN "joined" ELSE thread
  /\ stopper' = [stopper EXCEPT ![s] = "returned"]
  /\ UNCHANGED <<held, failed, refused, stop, finalized, inline, counts, writer,
                 back, sender, len>>

Stopper(s) ==
  Shed(s) \/ ShedReclaimed(s) \/ CloseInline(s) \/ FinalizedInline(s) \/ Join(s)

-----------------------------------------------------------------------------
Init ==
  /\ queue = {} /\ queue_bytes = 0 /\ batch = {}
  /\ arena = EmptyArena /\ claim = NoChunk
  /\ dropped = 0 /\ failed = FALSE /\ refused = FALSE
  /\ stop = FALSE /\ finalized = FALSE /\ inline = FALSE /\ thread = "none"
  /\ writer = "off" /\ back = "drain"
  /\ sender = [p \in Senders |-> "idle"] /\ len = [p \in Senders |-> 0]
  /\ stopper = [s \in Stoppers |-> "idle"]
  /\ next = 0 /\ written = 0 /\ closes = 0

Next ==
  \/ \E p \in Senders : Send(p) \/ Notify(p)
  \/ SpuriousWakeup
  \/ Wait \/ Deadline \/ Writer
  \/ Start
  \/ \E s \in Stoppers : StopBegin(s) \/ Stopper(s) \/ GivesUp(s)

Spec == Init /\ [][Next]_vars

(***************************************************************************)
(* Fairness: the writer and a thread inside StopFor run, and storage and   *)
(* kernel calls return.  Nobody has to Send or to stop, no timeout has to  *)
(* expire.                                                                 *)
(***************************************************************************)
FairSpec ==
  Spec /\ WF_vars(Writer) /\ \A s \in Stoppers : WF_vars(Stopper(s))

-----------------------------------------------------------------------------
(* Properties. *)

TypeOK ==
  /\ queue_bytes \in Nat /\ arena \in Arenas
  /\ claim \in Chunks \cup {NoChunk}
  /\ \A e \in Records :
       /\ e.id \in Nat /\ e.size \in 1 .. MaxSize
       /\ e.chunk \in Chunks \cup {NoChunk} /\ e.offset \in Nat
  /\ dropped \in Nat /\ next \in Nat /\ written \in Nat /\ closes \in Nat
  /\ thread \in {"none", "joinable", "joined"}
  /\ writer \in {"off", "top", "waiting", "batch", "drain", "written",
                 "release", "reclaim", "finalize", "closed", "exited"}
  /\ back \in {"drain", "release"}
  /\ sender \in [Senders -> {"idle", "waiting", "woken", "notify"}]
  /\ len \in [Senders -> 0 .. MaxSize]
  /\ stopper \in [Stoppers -> {"idle", "await", "shed", "reclaim", "closing",
                               "returned"}]

(***************************************************************************)
(* A recording accounts for every frame it was given: at the end each has  *)
(* been written or is in dropped(), whichever path shed it (eviction in    *)
(* Send, a refusal or an exception anywhere in a batch, a failed           *)
(* recording, the inline finalizer).                                       *)
(***************************************************************************)
EveryFrameAccounted == finalized => next = written + dropped

(***************************************************************************)
(* What PayloadArena promises its readers outside the lock ("no live or    *)
(* claimed chunk is reused"): records of a chunk do not overlap, and no    *)
(* chunk with a live record is on its way back to the kernel.              *)
(***************************************************************************)
RecordsIntact ==
  \A e \in Records : e.chunk # NoChunk =>
    /\ e.chunk \notin arena.reclaiming
    /\ e.offset + e.size <= ChunkBytes
    /\ \A g \in Records \ {e} : g.chunk = e.chunk =>
         e.offset + e.size <= g.offset \/ g.offset + g.size <= e.offset

(***************************************************************************)
(* Nobody oversleeps on the one cv_ (Send, ReleaseFront, StopFor).  A      *)
(* sender asleep still has no room, and a reclaim that will wake it is in  *)
(* flight; the writer asleep has no work but what a notify is on its way   *)
(* for, and no sender sleeps beside it that could take that notify_one.    *)
(***************************************************************************)
SleepersAreWoken ==
  /\ \A p \in Senders : sender[p] = "waiting" => MustWait(len[p])
  /\ writer = "waiting" =>
       /\ ~stop
       /\ \A p \in Senders : sender[p] # "waiting"
       /\ queue # {} => \E p \in Senders : sender[p] = "notify"

(* No accepted frame is lost uncounted or torn, and nobody sleeps on work  *)
(* (McapWriterEndpoint's queue, arena and signals).                        *)
FramesKept == EveryFrameAccounted /\ RecordsIntact /\ SleepersAreWoken

(***************************************************************************)
(* The file is closed once, by one thread: the writer and an inline        *)
(* finalizer are never both at work, and a StopFor that returned true left *)
(* a closed file and no thread (StopFor, Finalize).                        *)
(***************************************************************************)
OneFinalizer ==
  /\ closes <= 1
  /\ inline => writer = "off"
  /\ \A s \in Stoppers : stopper[s] = "returned" =>
       finalized /\ thread # "joinable"

(* Stop returns, and whatever was queued before it has been dealt with     *)
(* (StopFor without a timeout, WriterLoop).                                *)
StopCompletes ==
  \A s \in Stoppers \ Impatient :
    stopper[s] # "idle" ~> stopper[s] = "returned" /\ Records = {}
=============================================================================
