---------------------------- MODULE MessageInbox ----------------------------
(***************************************************************************)
(* MessageInbox (transport/message_inbox.hpp): the bounded inbound queue   *)
(* between an endpoint's reader thread and one consumer that blocks on a   *)
(* condition variable.  Push signals only the empty-to-non-empty edge, and *)
(* after it has released mu_.                                              *)
(*                                                                         *)
(* The queue is a set of entries as in WritePolicy.                        *)
(***************************************************************************)
EXTENDS WritePolicy

CONSTANTS
  Producers,     \* reader threads
  MaxSize,       \* payload sizes are 1 .. MaxSize bytes
  Inboxes,       \* the inboxes to consider, see InboxType
  MaxMessages    \* bound: messages pushed in a run

(***************************************************************************)
(* An inbox has a policy; max_batch is PopBatch's max_frames (0 for no     *)
(* cap); `timeouts` says whether a wait may expire.                        *)
(***************************************************************************)
InboxType == [policy : Policies, max_batch : Nat, timeouts : BOOLEAN]

VARIABLES
  inbox,                 \* the inbox at hand, never changed
  queue, bytes, closed,  \* guarded by mu_
  dropped,               \* dropped_
  notifying,             \* threads between unlock and their notify
  consumer,              \* the consumer's place in PopBatch
  next,                  \* messages pushed so far
  taken                  \* history: messages handed to the consumer

vars ==
  <<inbox, queue, bytes, closed, dropped, notifying, consumer, next, taken>>

Policy == inbox.policy
MaxBatch == inbox.max_batch

(* The thread that closes the inbox, its notify_all pending. *)
Closer == "closer"

-----------------------------------------------------------------------------
(* Mutant: the signal is sent when messages were already there. *)
SignalsLater(before) == before # {}

(* was_empty: only the empty-to-non-empty edge is signalled. *)
Signals(before) == before = {}

(* Push, under mu_. *)
Push(p, size) ==
  /\ p \notin notifying /\ next < MaxMessages
  /\ LET evicted == Evicted(Policy, queue, bytes, size)
     IN  IF Admits(Policy, queue)
         THEN /\ queue' = (queue \ evicted) \cup {[id |-> next, size |-> size]}
              /\ bytes' = bytes - Bytes(evicted) + size
              /\ dropped' = dropped + Cardinality(evicted)
              /\ notifying' = IF Signals(queue)
                              THEN notifying \cup {p} ELSE notifying
         ELSE /\ dropped' = dropped + 1
              /\ UNCHANGED <<queue, bytes, notifying>>
  /\ next' = next + 1
  /\ UNCHANGED <<inbox, closed, consumer, taken>>

(* notify_one, or Close's notify_all: there is one waiter at most. *)
Notify(p) ==
  /\ p \in notifying
  /\ notifying' = notifying \ {p}
  /\ consumer' = IF consumer = "waiting" THEN "woken" ELSE consumer
  /\ UNCHANGED <<inbox, queue, bytes, closed, dropped, next, taken>>

Close ==
  /\ ~closed /\ closed' = TRUE
  /\ notifying' = notifying \cup {Closer}
  /\ UNCHANGED <<inbox, queue, bytes, dropped, consumer, next, taken>>

-----------------------------------------------------------------------------
(* PopBatch. *)

Ready == queue # {} \/ closed

(* PopBatch takes mu_ and blocks on an empty, open inbox. *)
Wait ==
  /\ consumer \in {"idle", "woken"} /\ ~Ready
  /\ consumer' = "waiting"
  /\ UNCHANGED <<inbox, queue, bytes, closed, dropped, notifying, next, taken>>

(* A condition variable may wake by itself; the predicate is re-checked. *)
SpuriousWakeup ==
  /\ consumer = "waiting"
  /\ consumer' = "woken"
  /\ UNCHANGED <<inbox, queue, bytes, closed, dropped, notifying, next, taken>>

(* The first max_frames messages; without a cap, the whole deque. *)
Batch ==
  {e \in queue :
     MaxBatch = 0 \/ Cardinality({g \in queue : g.id < e.id}) < MaxBatch}

BytesKept == bytes                           \* mutant: swap leaves bytes_
BytesLeft == IF Batch = queue THEN 0 ELSE bytes - Bytes(Batch)

(* Take a batch, under mu_: at once, or when woken and ready. *)
Take ==
  /\ consumer \in {"idle", "woken"} /\ Ready
  /\ queue' = queue \ Batch /\ bytes' = BytesLeft
  /\ taken' = taken \cup Batch
  /\ consumer' = "idle"
  /\ UNCHANGED <<inbox, closed, dropped, notifying, next>>

(* The wait expires: whatever is queued is taken, perhaps nothing. *)
TimeOut ==
  /\ inbox.timeouts /\ consumer = "waiting"
  /\ queue' = queue \ Batch /\ bytes' = BytesLeft
  /\ taken' = taken \cup Batch
  /\ consumer' = "idle"
  /\ UNCHANGED <<inbox, closed, dropped, notifying, next>>

-----------------------------------------------------------------------------
Init ==
  /\ inbox \in Inboxes
  /\ queue = {} /\ bytes = 0 /\ closed = FALSE /\ dropped = 0
  /\ notifying = {} /\ consumer = "idle" /\ next = 0 /\ taken = {}

Next ==
  \/ \E p \in Producers, size \in 1 .. MaxSize : Push(p, size)
  \/ \E p \in Producers \cup {Closer} : Notify(p)
  \/ Close
  \/ Wait
  \/ SpuriousWakeup
  \/ Take
  \/ TimeOut

Spec == Init /\ [][Next]_vars

(***************************************************************************)
(* Fairness: a thread that unlocked goes on to notify, and the consumer    *)
(* calls PopBatch again and again.  No timeout is relied on.               *)
(***************************************************************************)
FairSpec ==
  /\ Spec
  /\ \A p \in Producers \cup {Closer} : WF_vars(Notify(p))
  /\ WF_vars(Take) /\ WF_vars(Wait)

-----------------------------------------------------------------------------
(* Properties. *)

(***************************************************************************)
(* "a consumer only ever BLOCKS on an empty queue": a consumer asleep on a *)
(* queue with messages, or on a closed inbox, has a notify on its way.     *)
(***************************************************************************)
NoLostSignal == consumer = "waiting" /\ Ready => notifying # {}

(***************************************************************************)
(* Nothing is lost silently, reordered or handed over twice: every message *)
(* pushed is queued, taken or counted in dropped_, what is taken was       *)
(* pushed before what is left, and bytes_ is what the queue holds, which   *)
(* is what the byte bound of the next Push is measured on.                 *)
(***************************************************************************)
Accounted ==
  /\ next = Cardinality(queue) + Cardinality(taken) + dropped
  /\ \A e \in taken, g \in queue : e.id < g.id
  /\ bytes = Bytes(queue)
=============================================================================
