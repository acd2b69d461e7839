------------------------------- MODULE MCWaits -------------------------------
(***************************************************************************)
(* The three places where a thread of the transport sleeps until another   *)
(* wakes it, for TLC: an I/O loop in poll (WakeFd), a consumer on a        *)
(* condition variable (MessageInbox), the accept thread (TcpAcceptor).     *)
(*                                                                         *)
(* They share no variable, so one is explored with the others at rest.     *)
(* What is proved of them follows: that no wakeup and no message is lost   *)
(* and that no storm of refused clients keeps the accept thread busy, for  *)
(* any number of threads and clients, and every inbox.                     *)
(***************************************************************************)
EXTENDS WakeFd, WritePolicyProofs

CONSTANTS MaxSize, MaxMessages, Clients, Unwelcome, MaxAccepts

VARIABLES
  focus,     \* the component whose behaviour this is
  inbox, queue, bytes, closed, dropped, notifying, consumer, next, taken,
  stop, wake, listening, backlog, attached, client, pc, defer, accepts,
  refused, stopper, refusals

WP == INSTANCE WritePolicy

(***************************************************************************)
(* An inbox that keeps the newest messages and is drained whole, with no   *)
(* timeout to fall back on; and one bounded in bytes, drained one message  *)
(* at a time.                                                              *)
(***************************************************************************)
Inboxes ==
  {[policy |-> WP!drop_oldest(2), max_batch |-> 0, timeouts |-> FALSE],
   [policy |-> WP!stale_eviction(3, 0, "OneAtATime", 0), max_batch |-> 1,
    timeouts |-> TRUE]}

Inbox == INSTANCE MessageInbox
Tcp == INSTANCE TcpAcceptor

ASSUME WaitsAssumption ==
  /\ MaxSize \in Nat \ {0} /\ MaxMessages \in Nat
  /\ Inboxes \subseteq Inbox!InboxType
  /\ Unwelcome \subseteq Clients /\ MaxAccepts \in Nat \ {0}

ibox == <<inbox, queue, bytes, closed, dropped, notifying, consumer, next,
          taken>>
tcp == <<stop, wake, listening, backlog, attached, client, pc, defer, accepts,
         refused, stopper, refusals>>

MCInit ==
  Init /\ Inbox!Init /\ Tcp!Init /\ focus \in {"wake", "inbox", "tcp"}

MCNext ==
  \/ focus = "wake" /\ Next /\ UNCHANGED <<ibox, tcp, focus>>
  \/ focus = "inbox" /\ Inbox!Next /\ UNCHANGED <<vars, tcp, focus>>
  \/ focus = "tcp" /\ Tcp!Next /\ UNCHANGED <<vars, ibox, focus>>

(* The fairness of each component's FairSpec. *)
MCSpec ==
  /\ MCInit /\ [][MCNext]_<<vars, ibox, tcp, focus>>
  /\ \A p \in Producers : WF_vars(focus = "wake" /\ Signal(p))
  /\ WF_vars(focus = "wake" /\ Woken)
  /\ WF_vars(focus = "wake" /\ (OpenResetFlag \/ OpenFd))
  /\ \A p \in Producers \cup {Inbox!Closer} :
       WF_ibox(focus = "inbox" /\ Inbox!Notify(p))
  /\ WF_ibox(focus = "inbox" /\ Inbox!Take)
  /\ WF_ibox(focus = "inbox" /\ Inbox!Wait)
  /\ WF_tcp(focus = "tcp" /\ Tcp!AcceptThread)
  /\ WF_tcp(focus = "tcp" /\ Tcp!Stopper)

(* A consumer asleep on messages, or on a closed inbox, has a notify on    *)
(* its way (MessageInbox::Push signals the empty edge only).               *)
NoLostSignal == Inbox!NoLostSignal

(* Every message pushed is queued, taken or counted as dropped, and the    *)
(* byte total the bound is measured on is exact (Push, PopBatch).          *)
Accounted == Inbox!Accounted

(* A refused client that redials is paced, within a pass and across passes *)
(* (TcpAcceptor::AcceptPass and the deferred poll).                        *)
StormIsPaced == Tcp!StormIsPaced

(* A welcome client is admitted however hard a refused one redials.        *)
WelcomeAdmitted == Tcp!WelcomeAdmitted

(* TcpAcceptor::Stop returns, though the poll has no timeout, and no       *)
(* on_accept runs after it has.                                            *)
StopReturns == Tcp!StopReturns
(* No signal and no message is lost, and a storm is paced.                 *)
NothingLost == NoLostSignal /\ Accounted /\ StormIsPaced

(* Every wait ends: queued work is seen, a welcome client admitted, Stop   *)
(* returns.                                                                *)
WaitsEnd == WorkIsSeen /\ WelcomeAdmitted /\ StopReturns

-----------------------------------------------------------------------------
(***************************************************************************)
(* WakeFd.                                                                 *)
(***************************************************************************)

(***************************************************************************)
(* The inductive invariant.  Between Open's two steps no Signal is past    *)
(* its check and the flag is clear (a Signal that was past it counts as    *)
(* straddling), so the new fd starts with an honest flag.                  *)
(***************************************************************************)
OpensClean ==
  (loop = "opening" /\ ~straddled) =>
    ~signalled /\ \A p \in Producers : signal[p] \in {"idle", "check"}

IInv == TypeOK /\ OpensClean /\ FlagMeansWake /\ NoSleepOnWork

(* Init establishes the invariant. *)
LEMMA InitIInv == Init => IInv
<1> SUFFICES ASSUME Init PROVE IInv
  OBVIOUS
<1>1. TypeOK
  BY DEF Init, TypeOK
<1>2. OpensClean /\ FlagMeansWake /\ NoSleepOnWork
  BY Zenon DEF Init, OpensClean, FlagMeansWake, NoSleepOnWork
<1> QED BY <1>1, <1>2 DEF IInv

(* A step of a producer keeps the invariant. *)
LEMMA ProducerIInv ==
  ASSUME IInv, NEW p \in Producers, Enqueue(p) \/ Signal(p)
  PROVE  IInv'
<1> USE DEF IInv, TypeOK, OpensClean, FlagMeansWake, NoSleepOnWork, WillWrite
<1>1. CASE Enqueue(p)
  BY <1>1 DEF Enqueue, Idle
<1>2. CASE SignalCheck(p)
  BY <1>2 DEF SignalCheck
<1>3. CASE SignalExchange(p)
  BY <1>3 DEF SignalExchange
<1>4. CASE SignalWrite(p)
  BY <1>4 DEF SignalWrite
<1> QED BY <1>1, <1>2, <1>3, <1>4 DEF Signal

(* Every step keeps the invariant. *)
LEMMA NextIInv == IInv /\ [Next]_vars => IInv'
<1> SUFFICES ASSUME IInv, [Next]_vars PROVE IInv'
  OBVIOUS
<1>1. ASSUME NEW p \in Producers, Enqueue(p) \/ Signal(p) PROVE IInv'
  BY <1>1, ProducerIInv
<1> USE DEF IInv, TypeOK, OpensClean, FlagMeansWake, NoSleepOnWork, WillWrite
<1>2. CASE PollWoken \/ PollTick
  BY <1>2 DEF PollWoken, PollTick
<1>3. CASE Drain
  BY <1>3 DEF Drain
<1>4. CASE Pump
  BY <1>4 DEF Pump
<1>5. CASE Close
  <2>1. TypeOK'
    <3>1. reopens' \in Nat
      BY <1>5 DEF Close
    <3>2. ~open' /\ loop' = "closed"
      BY <1>5, Zenon DEF Close
    <3> QED BY <1>5, <3>1, <3>2, Zenon DEF Close
  <2>2. (OpensClean /\ FlagMeansWake /\ NoSleepOnWork)'
    BY <1>5, Zenon DEF Close
  <2> QED BY <2>1, <2>2
<1>6. CASE OpenResetFlag
  BY <1>6 DEF OpenResetFlag
<1>7. CASE OpenFd
  BY <1>7 DEF OpenFd
<1>8. CASE UNCHANGED vars
  BY <1>8 DEF vars
<1> QED
  BY <1>1, <1>2, <1>3, <1>4, <1>5, <1>6, <1>7, <1>8 DEF Next, Woken

(***************************************************************************)
(* A set flag always means a wakeup is on its way, so the elided write(2)  *)
(* was not needed.                                                         *)
(***************************************************************************)
THEOREM ElisionIsSound == Spec => []FlagMeansWake
<1>1. IInv => FlagMeansWake
  BY DEF IInv
<1> QED BY InitIInv, NextIInv, <1>1, PTL DEF Spec

(***************************************************************************)
(* The loop never sleeps on queued work that nobody will wake it for.      *)
(***************************************************************************)
THEOREM NoLostWakeup == Spec => []NoSleepOnWork
<1>1. IInv => NoSleepOnWork
  BY DEF IInv
<1> QED BY InitIInv, NextIInv, <1>1, PTL DEF Spec

-----------------------------------------------------------------------------
(***************************************************************************)
(* MessageInbox.  Only the empty-to-non-empty edge is signalled, which is  *)
(* enough; and the byte total stays exact through evictions and batches.   *)
(***************************************************************************)

(* The inbox's set operators are those of the lemmas. *)
LEMMA SameOps ==
  /\ \A S : Inbox!Cardinality(S) = Cardinality(S)
  /\ \A S : Inbox!Bytes(S) = Bytes(S)
<1>1. \A S : Inbox!Cardinality(S) = Cardinality(S)
  BY Zenon DEF Cardinality, Inbox!Cardinality
<1>2. \A S : Inbox!Bytes(S) = Bytes(S)
  BY Zenon DEF Bytes, MapThenSumSet, MapThenFoldSet, Inbox!Bytes,
               Inbox!MapThenSumSet, Inbox!MapThenFoldSet
<1> QED BY <1>1, <1>2

InboxTypes ==
  /\ inbox \in Inboxes
  /\ next \in Nat /\ dropped \in Nat
  /\ Sized(queue) /\ IsFiniteSet(taken)
  /\ \A e \in queue : e.id \in Nat /\ e.id < next
  /\ \A e \in taken : e.id \in Nat /\ e.id < next

Counted ==
  /\ next = Cardinality(queue) + Cardinality(taken) + dropped
  /\ \A e \in taken, g \in queue : e.id < g.id
  /\ bytes = Bytes(queue)

InboxIInv == InboxTypes /\ Counted /\ Inbox!NoLostSignal

(* An open, empty inbox.                                                   *)
LEMMA InboxInit == Inbox!Init => InboxIInv
<1> SUFFICES ASSUME Inbox!Init PROVE InboxIInv
  OBVIOUS
<1>1. IsFiniteSet({}) /\ Cardinality({}) = 0
  BY FS_EmptySet
<1>2. Bytes({}) = 0
  BY <1>1, BytesUnfold
<1>3. InboxTypes
  BY <1>1 DEF Inbox!Init, InboxTypes, Sized
<1>4. Counted
  BY <1>1, <1>2 DEF Inbox!Init, Counted
<1>5. Inbox!NoLostSignal
  BY DEF Inbox!Init, Inbox!NoLostSignal
<1> QED BY <1>3, <1>4, <1>5 DEF InboxIInv

(* Push evicts, then queues the new message or refuses it. *)
LEMMA PushCounts ==
  ASSUME InboxTypes, Counted, NEW p, NEW size \in Nat, Inbox!Push(p, size)
  PROVE  InboxTypes' /\ Counted'
<1> DEFINE evicted == Inbox!Evicted(Inbox!Policy, queue, bytes, size)
           e == [id |-> next, size |-> size]
           rest == queue \ evicted
<1>0. next' = next + 1 /\ inbox' = inbox /\ taken' = taken
  BY DEF Inbox!Push
<1>1. CASE Inbox!Admits(Inbox!Policy, queue)
  <2>1. /\ queue' = rest \cup {e}
        /\ bytes' = bytes - Bytes(evicted) + size
        /\ dropped' = dropped + Cardinality(evicted)
    BY <1>1, SameOps DEF Inbox!Push
  <2>2. evicted \in SUBSET queue
    BY DEF Inbox!Evicted
  <2> HIDE DEF evicted
  <2>3. /\ Sized(evicted) /\ Sized(rest) /\ Bytes(evicted) \in Nat /\ Bytes(queue) \in Nat
        /\ Bytes(rest) = Bytes(queue) - Bytes(evicted)
    BY <2>2, BytesSplit DEF InboxTypes
  <2>4. e \notin rest /\ e.size \in Nat /\ e.size = size /\ e.id = next
    BY DEF InboxTypes
  <2> HIDE DEF e
  <2>5. Sized(rest \cup {e}) /\ Bytes(rest \cup {e}) = Bytes(rest) + e.size
    BY <2>3, <2>4, BytesAdd
  <2>6. /\ Cardinality(rest) = Cardinality(queue) - Cardinality(evicted)
        /\ Cardinality(rest \cup {e}) = Cardinality(rest) + 1
        /\ Cardinality(evicted) \in Nat /\ Cardinality(queue) \in Nat
        /\ Cardinality(taken) \in Nat
    <3>1. IsFiniteSet(queue) /\ IsFiniteSet(rest) /\ IsFiniteSet(evicted) /\ IsFiniteSet(taken)
      BY <2>3 DEF InboxTypes, Sized
    <3>2. Cardinality(rest) = Cardinality(queue) - Cardinality(queue \cap evicted)
      BY <3>1, FS_Difference
    <3>3. queue \cap evicted = evicted
      BY <2>2
    <3> QED BY <2>4, <3>1, <3>2, <3>3, FS_AddElement, FS_CardinalityType
  <2>7. InboxTypes'
    BY <1>0, <2>1, <2>4, <2>5, <2>6 DEF InboxTypes
  <2>8. bytes' = Bytes(queue')
    BY <2>1, <2>3, <2>4, <2>5 DEF Counted
  <2>9. next' = Cardinality(queue') + Cardinality(taken') + dropped'
    BY <1>0, <2>1, <2>6 DEF Counted, InboxTypes
  <2>10. \A t \in taken, g \in rest \cup {e} : t.id < g.id
    BY <2>4 DEF InboxTypes, Counted
  <2> QED BY <1>0, <2>1, <2>7, <2>8, <2>9, <2>10 DEF Counted
<1>2. CASE ~Inbox!Admits(Inbox!Policy, queue)
  <2>1. dropped' = dropped + 1 /\ UNCHANGED <<queue, bytes>>
    BY <1>2 DEF Inbox!Push
  <2>2. Cardinality(queue) \in Nat /\ Cardinality(taken) \in Nat
    BY FS_CardinalityType DEF InboxTypes, Sized
  <2> QED BY <1>0, <2>1, <2>2 DEF InboxTypes, Counted
<1> QED BY <1>1, <1>2

(* A batch is the front of the queue, and its bytes leave the total. *)
LEMMA BatchIsFront ==
  ASSUME InboxTypes, NEW b \in Inbox!Batch, NEW g \in queue \ Inbox!Batch
  PROVE  b.id < g.id
<1> DEFINE Below(x) == {h \in queue : h.id < x}
<1>1. inbox.max_batch \in Nat
  BY WaitsAssumption DEF InboxTypes, Inbox!InboxType
<1>2. /\ b \in queue /\ b.id \in Nat /\ g.id \in Nat
      /\ inbox.max_batch = 0 \/ Cardinality(Below(b.id)) < inbox.max_batch
      /\ ~(inbox.max_batch = 0 \/ Cardinality(Below(g.id)) < inbox.max_batch)
  BY SameOps DEF InboxTypes, Inbox!Batch, Inbox!MaxBatch
<1>3. \A x : IsFiniteSet(Below(x)) /\ Cardinality(Below(x)) \in Nat
  BY FS_Subset, FS_CardinalityType DEF InboxTypes, Sized
<1>4. SUFFICES ASSUME g.id <= b.id PROVE FALSE
  BY <1>2
<1>5. Below(g.id) \in SUBSET Below(b.id)
  BY <1>2, <1>4 DEF InboxTypes
<1>6. Cardinality(Below(g.id)) <= Cardinality(Below(b.id))
  BY <1>3, <1>5, FS_Subset
<1> HIDE DEF Below
<1> QED BY <1>1, <1>2, <1>3, <1>6

(* A batch taken leaves the count of what was pushed and not popped        *)
(* (PopBatch).                                                             *)
LEMMA BatchCounts ==
  ASSUME InboxTypes, Counted, queue' = queue \ Inbox!Batch, bytes' = Inbox!BytesLeft,
         taken' = taken \cup Inbox!Batch, UNCHANGED <<inbox, next, dropped>>
  PROVE  InboxTypes' /\ Counted'
<1> DEFINE batch == Inbox!Batch
<1>1. batch \in SUBSET queue
  BY DEF Inbox!Batch
<1>2. /\ Sized(batch) /\ Sized(queue \ batch) /\ Bytes(batch) \in Nat
      /\ Bytes(queue) \in Nat /\ Bytes(queue \ batch) = Bytes(queue) - Bytes(batch)
  BY <1>1, BytesSplit DEF InboxTypes
<1>3. bytes' = Bytes(queue')
  BY <1>2, SameOps DEF Inbox!BytesLeft, Counted
<1>4. InboxTypes'
  BY <1>1, <1>2, FS_Union DEF InboxTypes, Sized
<1>5. next = Cardinality(queue') + Cardinality(taken') + dropped
  <2>1. IsFiniteSet(queue) /\ IsFiniteSet(batch) /\ IsFiniteSet(taken)
    BY <1>2 DEF InboxTypes, Sized
  <2>2. queue \cap batch = batch /\ taken \cap batch = {}
    BY <1>1 DEF Counted, InboxTypes
  <2>3. /\ Cardinality(queue \ batch) = Cardinality(queue) - Cardinality(batch)
        /\ Cardinality(taken \cup batch)
             = Cardinality(taken) + Cardinality(batch) - Cardinality({})
    <3>1. Cardinality(queue \ batch) = Cardinality(queue) - Cardinality(queue \cap batch)
      BY <2>1, FS_Difference, Zenon
    <3>2. Cardinality(taken \cup batch)
            = Cardinality(taken) + Cardinality(batch) - Cardinality(taken \cap batch)
      BY <2>1, FS_Union, Zenon
    <3> QED BY <2>2, <3>1, <3>2, Zenon
  <2>4. /\ Cardinality(queue) \in Nat /\ Cardinality(batch) \in Nat
        /\ Cardinality(taken) \in Nat /\ Cardinality({}) = 0 /\ dropped \in Nat
    BY <2>1, FS_CardinalityType, FS_EmptySet DEF InboxTypes
  <2> HIDE DEF batch
  <2>5. queue' = queue \ batch /\ taken' = taken \cup batch
    BY DEF batch
  <2>6. next = Cardinality(queue) + Cardinality(taken) + dropped
    BY DEF Counted
  <2>7. /\ Cardinality(queue') = Cardinality(queue) - Cardinality(batch)
        /\ Cardinality(taken') = Cardinality(taken) + Cardinality(batch) - 0
    BY <2>3, <2>4, <2>5, Zenon
  <2> QED BY <2>4, <2>6, <2>7
<1>6. \A t \in taken', g \in queue' : t.id < g.id
  BY BatchIsFront DEF Counted
<1> QED BY <1>3, <1>4, <1>5, <1>6 DEF Counted

(* Push and Close keep the promise of a notify: a push into an empty queue *)
(* leaves its thread on its way to it; one into a non-empty queue changes  *)
(* nothing about who is on the way, and one was if the consumer sleeps.    *)
LEMMA PushSignals ==
  ASSUME Inbox!NoLostSignal, NEW p, NEW size, Inbox!Push(p, size)
  PROVE  Inbox!NoLostSignal'
<1>1. CASE queue = {} /\ Inbox!Admits(Inbox!Policy, queue)
  <2>1. p \in notifying'
    BY <1>1 DEF Inbox!Push, Inbox!Signals
  <2> QED BY <2>1 DEF Inbox!NoLostSignal
<1>2. CASE queue # {} \/ ~Inbox!Admits(Inbox!Policy, queue)
  <2>1. /\ notifying' = notifying
        /\ consumer' = consumer /\ closed' = closed
    BY <1>2 DEF Inbox!Push, Inbox!Signals
  <2>2. Inbox!Ready' => Inbox!Ready
    BY <1>2, <2>1 DEF Inbox!Push, Inbox!Ready
  <2> QED BY <2>1, <2>2 DEF Inbox!NoLostSignal
<1> QED BY <1>1, <1>2

(* Every step of the readers, the consumer and Close.                      *)
LEMMA InboxNext == InboxIInv /\ [Inbox!Next]_ibox => InboxIInv'
<1> SUFFICES ASSUME InboxIInv, [Inbox!Next]_ibox PROVE InboxIInv'
  OBVIOUS
<1>1. ASSUME NEW p \in Producers, NEW size \in 1 .. MaxSize, Inbox!Push(p, size)
      PROVE  InboxIInv'
  <2>1. size \in Nat
    BY WaitsAssumption
  <2> QED BY <1>1, <2>1, PushCounts, PushSignals DEF InboxIInv
<1>2. ASSUME NEW p \in Producers \cup {Inbox!Closer}, Inbox!Notify(p) PROVE InboxIInv'
  BY <1>2 DEF Inbox!Notify, Inbox!NoLostSignal, InboxIInv, InboxTypes, Counted
<1>3. CASE Inbox!Close
  BY <1>3 DEF Inbox!Close, Inbox!NoLostSignal, InboxIInv, InboxTypes, Counted
<1>4. CASE Inbox!Wait \/ Inbox!SpuriousWakeup
  BY <1>4 DEF Inbox!Wait, Inbox!SpuriousWakeup, Inbox!NoLostSignal, Inbox!Ready,
              InboxIInv, InboxTypes, Counted
<1>5. CASE Inbox!Take \/ Inbox!TimeOut
  <2>1. /\ queue' = queue \ Inbox!Batch /\ bytes' = Inbox!BytesLeft
        /\ taken' = taken \cup Inbox!Batch /\ UNCHANGED <<inbox, next, dropped>>
        /\ consumer' = "idle"
    BY <1>5 DEF Inbox!Take, Inbox!TimeOut
  <2> QED BY <2>1, BatchCounts DEF InboxIInv, Inbox!NoLostSignal
<1>6. CASE UNCHANGED ibox
  BY <1>6 DEF ibox, Inbox!NoLostSignal, Inbox!Ready, InboxIInv, InboxTypes, Counted
<1> QED BY <1>1, <1>2, <1>3, <1>4, <1>5, <1>6 DEF Inbox!Next

-----------------------------------------------------------------------------
(***************************************************************************)
(* TcpAcceptor.  A pass refuses no more clients than it accepts, and once  *)
(* one is refused the pause comes before the next pass.                    *)
(***************************************************************************)
TcpTypes ==
  /\ refusals \in Nat /\ accepts \in Nat /\ accepts <= MaxAccepts
  /\ pc \in {"loop", "poll", "accept", "admit", "exited"}

Paced ==
  /\ pc \in {"accept", "admit"} =>
       /\ refusals <= accepts
       /\ refusals > 0 => refused
  /\ pc = "admit" => refusals < accepts /\ \E c : client = {c}
  /\ pc \in {"loop", "poll"} /\ refusals > 0 => defer
  /\ refusals <= MaxAccepts

TcpIInv == TcpTypes /\ Paced

(* Every accept, failure, pause and close of the acceptor.                 *)
LEMMA TcpNext == TcpIInv /\ [Tcp!Next]_tcp => TcpIInv'
<1> SUFFICES ASSUME TcpIInv, [Tcp!Next]_tcp PROVE TcpIInv'
  OBVIOUS
<1> USE WaitsAssumption DEF TcpIInv, TcpTypes, Paced
<1>1. CASE \E c \in Clients : Tcp!Connect(c) \/ Tcp!Disconnect(c)
  <2>1. UNCHANGED <<refusals, accepts, refused, client, defer, pc>>
    BY <1>1 DEF Tcp!Connect, Tcp!Disconnect
  <2> QED BY <2>1
<1>2. CASE Tcp!LoopTest
  <2>1. /\ pc = "loop" /\ pc' \in {"exited", "poll"}
        /\ UNCHANGED <<refusals, accepts, refused, client, defer>>
    BY <1>2 DEF Tcp!LoopTest
  <2> QED BY <2>1
<1>3. CASE Tcp!Poll
  <2>1. /\ pc = "poll" /\ accepts' = 0 /\ refusals' = IF defer THEN 0 ELSE refusals
        /\ ~(refusals > 0 /\ ~defer)
    BY <1>3 DEF Tcp!Poll
  <2>2. refusals' = 0
    BY <2>1
  <2>3. pc' \in {"exited", "accept", "loop"}
    BY <1>3 DEF Tcp!Poll
  <2> QED BY <2>1, <2>2, <2>3
<1>4. CASE Tcp!Accept
  <2>1. /\ pc = "accept" /\ accepts < MaxAccepts /\ accepts' = accepts + 1
        /\ pc' = "admit" /\ UNCHANGED <<refusals, refused>>
        /\ client' = {Tcp!Head(backlog)}
    BY <1>4 DEF Tcp!Accept
  <2> QED BY <2>1
<1>5. CASE Tcp!Admit
  <2>1. PICK c : client = {c}
    BY <1>5 DEF Tcp!Admit
  <2>2. /\ pc = "admit" /\ pc' = "accept" /\ UNCHANGED accepts
        /\ refused' <=> (refused \/ c \in Unwelcome)
        /\ refusals' = refusals + Tcp!Cardinality({c} \cap Unwelcome)
    BY <1>5, <2>1 DEF Tcp!Admit, Tcp!RefusedInPass
  <2>3. Tcp!Cardinality({c} \cap Unwelcome) = IF c \in Unwelcome THEN 1 ELSE 0
    <3>1. Tcp!Cardinality({c} \cap Unwelcome) = Cardinality({c} \cap Unwelcome)
      BY Zenon DEF Cardinality, Tcp!Cardinality
    <3>2. {c} \cap Unwelcome = IF c \in Unwelcome THEN {c} ELSE {}
      OBVIOUS
    <3>3. Cardinality({c}) = 1 /\ Cardinality({}) = 0
      BY FS_Singleton, FS_EmptySet
    <3> QED BY <3>1, <3>2, <3>3
  <2> QED BY <2>2, <2>3
<1>6. CASE Tcp!EndPass
  BY <1>6 DEF Tcp!EndPass
<1>7. CASE Tcp!SetStop \/ Tcp!Stopper
  BY <1>7 DEF Tcp!SetStop, Tcp!Stopper, Tcp!Wake, Tcp!Join
<1>8. CASE UNCHANGED tcp
  BY <1>8 DEF tcp
<1>9. CASE Tcp!Terminated
  BY <1>9 DEF Tcp!Terminated, Tcp!vars
<1> QED
  BY <1>1, <1>2, <1>3, <1>4, <1>5, <1>6, <1>7, <1>8, <1>9
  DEF Tcp!Next, Tcp!AcceptThread

-----------------------------------------------------------------------------
(* A consumer blocked on messages, or on a closed inbox, has a notify on    *)
(* its way; every message pushed is queued, taken or counted as dropped, in *)
(* order and with an exact byte total; and between two pauses the acceptor  *)
(* refuses no more clients than one pass accepts.                           *)
THEOREM NothingIsLost == MCSpec => []NothingLost
<1> DEFINE Inv == InboxIInv /\ TcpIInv
<1>1. MCInit => Inv
  <2>1. Tcp!Init => TcpIInv
    BY WaitsAssumption DEF Tcp!Init, TcpIInv, TcpTypes, Paced
  <2> QED BY <2>1, InboxInit, Zenon DEF MCInit
<1>2. Inv /\ [MCNext]_<<vars, ibox, tcp, focus>> => Inv'
  <2>1. [MCNext]_<<vars, ibox, tcp, focus>> => [Inbox!Next]_ibox /\ [Tcp!Next]_tcp
    BY Zenon DEF MCNext
  <2> QED BY <2>1, InboxNext, TcpNext, Zenon
<1>3. Inv => NothingLost
  BY SameOps
  DEF NothingLost, NoLostSignal, Accounted, StormIsPaced, InboxIInv, Counted,
      Inbox!Accounted, TcpIInv, Paced, Tcp!StormIsPaced
<1> QED BY <1>1, <1>2, <1>3, PTL DEF MCSpec
=============================================================================
