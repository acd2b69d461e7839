--------------------------- MODULE MCFramedOutbox ---------------------------
(***************************************************************************)
(* Instances of FramedOutbox for TLC: the lanes of an endpoint, and a sink *)
(* that keeps only what it has.  And theorems about it, for every policy,  *)
(* frame size and number of producers: types, the order of the frames, the *)
(* drop counter, the bounds and what is shed to keep them, and the         *)
(* refinement of LossyFifo.                                                *)
(***************************************************************************)
EXTENDS FramedOutbox, WritePolicyProofs

Unreliable(policy) ==
  [policy |-> policy, reliable |-> FALSE, queued_byte_limit |-> 0]

(* The control lane: drop-oldest, every queued frame in one write. *)
Ctrl == Unreliable([drop_oldest(2) EXCEPT !.drain = "BatchAll"])

(* A latest-only sink. *)
Refuse == Unreliable(drop_on_fail(1))

(* The bulk lane of a slow leg: bytes and age bound, small frames kept. *)
Video == Unreliable(stale_eviction(3, 1, "OneAtATime", 2))

(* The reliable lane. *)
Trusted == [policy |-> lossless, reliable |-> TRUE, queued_byte_limit |-> 3]

AllLanes == {Ctrl, Refuse, Video, Trusted}

(* A lane keeps to its bounds, measured on an exact byte total, and sheds  *)
(* what its policy says (ApplyDropBound and the sweep of Drain).           *)
ShedsToBound == [](TypeOK /\ Bounded) /\ ShedOrder

-----------------------------------------------------------------------------
(* The inductive invariant. *)
IInv == TypeOK /\ InOrder /\ EveryShedCounted

(* Every eviction takes entries of the queue. *)
LEMMA EvictionFromQueue ==
  /\ \A bytes, incoming : Evicted(Policy, queue, bytes, incoming) \subseteq queue
  /\ Stale \subseteq queue
  /\ \A q : Promoted(q) \subseteq q
BY DEF Evicted, Stale, Promoted, Front

(* Promotion takes a prefix of the queue. *)
LEMMA PromotedIsPrefix ==
  ASSUME NEW q \in SUBSET Entries,
         \A e, g \in q : e.id = g.id => e = g,
         NEW e \in Promoted(q), NEW g \in q \ Promoted(q)
  PROVE  e.id < g.id
<1>1. e.id \in Nat /\ g.id \in Nat /\ e \in q
  BY EvictionFromQueue DEF Entries
<1>2. CASE Coalesces(q)
  BY <1>2 DEF Promoted
<1>3. CASE ~Coalesces(q)
  BY <1>1, <1>3 DEF Promoted, Front
<1> QED BY <1>2, <1>3

(* A disjoint finite batch adds exactly its size to a cardinality. *)
LEMMA CountBatch ==
  ASSUME NEW S, IsFiniteSet(S), NEW T, IsFiniteSet(T), S \cap T = {}
  PROVE  /\ IsFiniteSet(S \cup T)
         /\ Cardinality(S \cup T) = Cardinality(S) + Cardinality(T)
         /\ Cardinality(T) \in Nat
<1>1. Cardinality(S \cap T) = 0
  BY FS_EmptySet
<1>2. Cardinality(S) \in Nat /\ Cardinality(T) \in Nat
  BY FS_CardinalityType
<1>3. /\ IsFiniteSet(S \cup T)
      /\ Cardinality(S \cup T)
           = Cardinality(S) + Cardinality(T) - Cardinality(S \cap T)
  BY FS_Union, Zenon
<1> QED BY <1>1, <1>2, <1>3

(* The frame a producer holds becomes a well-formed entry numbered next. *)
LEMMA EntryType ==
  ASSUME TypeOK, NEW p \in Producers, pending[p] # NoFrame
  PROVE  Entry(p) \in Entries /\ Entry(p).id = next
BY DEF TypeOK, Entry, Entries

(* Init establishes the invariant. *)
LEMMA InitIInv == Init => IInv
<1> SUFFICES ASSUME Init PROVE IInv
  OBVIOUS
<1>1. IsFiniteSet({}) /\ Cardinality({}) = 0
  BY FS_EmptySet
<1>2. TypeOK
  BY <1>1 DEF Init, TypeOK
<1>3. InOrder
  BY DEF Init, InOrder, Accepted
<1>4. EveryShedCounted
  BY <1>1 DEF Init, EveryShedCounted
<1> QED BY <1>2, <1>3, <1>4 DEF IInv

(* A push keeps the invariant, whether it evicts or is refused. *)
LEMMA EnqueueIInv ==
  ASSUME IInv, NEW p \in Producers, Enqueue(p)
  PROVE  IInv'
<1> DEFINE e == Entry(p)
           out == Evicted(Policy, queue, queue_bytes, e.size)
<1>1. e \in Entries /\ e.id = next /\ next \in Nat
  BY EntryType DEF IInv, Enqueue, TypeOK
<1>2. out \subseteq queue /\ IsFiniteSet(out)
  BY EvictionFromQueue, FS_Subset DEF IInv, TypeOK
<1>3. pending' \in [Producers -> {NoFrame} \cup
        [id : {-1}, size : Sizes, keyframe : BOOLEAN, at : Nat]]
  BY DEF Enqueue, IInv, TypeOK
<1> HIDE DEF e, out
<1>4. CASE Admits(Policy, queue)
  <2>1. /\ queue' = (queue \ out) \cup {e}
        /\ dropped' = dropped + Cardinality(out)
        /\ shed' = shed \cup out
        /\ UNCHANGED <<lane, in_flight, in_flight_off, pc, now, sent, gone>>
        /\ next' = next + 1
    BY <1>4 DEF Enqueue, e, out
  <2>2. IsFiniteSet(queue')
    BY <2>1, FS_Difference, FS_AddElement DEF IInv, TypeOK
  <2>3. shed \cap out = {}
    BY <1>2 DEF IInv, InOrder
  <2>4. /\ IsFiniteSet(shed')
        /\ Cardinality(shed') = Cardinality(shed) + Cardinality(out)
        /\ Cardinality(out) \in Nat
    BY <1>2, <2>1, <2>3, CountBatch DEF IInv, TypeOK
  <2>5. TypeOK'
    BY <1>1, <1>2, <1>3, <2>1, <2>2, <2>4 DEF IInv, TypeOK
  <2>6. InOrder'
    <3>1. \A g \in Accepted : g.id \in Nat /\ g.id < next
      BY DEF IInv, InOrder, TypeOK, Accepted, Entries
    <3>2. \A g \in Accepted' : g \in Accepted \/ g = e
      BY <1>2, <2>1 DEF Accepted
    <3> QED BY <1>1, <1>2, <2>1, <3>1, <3>2 DEF IInv, InOrder, Accepted
  <2>7. EveryShedCounted'
    BY <2>1, <2>4 DEF IInv, EveryShedCounted
  <2> QED BY <2>5, <2>6, <2>7 DEF IInv
<1>5. CASE ~Admits(Policy, queue)
  <2>1. /\ dropped' = dropped + 1
        /\ shed' = shed \cup {e}
        /\ UNCHANGED <<lane, queue, in_flight, in_flight_off, pc, now, sent, gone>>
        /\ next' = next + 1
    BY <1>5 DEF Enqueue, e
  <2>2. \A g \in Accepted : g.id \in Nat /\ g.id < next
    BY DEF IInv, InOrder, TypeOK, Accepted, Entries
  <2>3. e \notin Accepted
    BY <1>1, <2>2
  <2>4. IsFiniteSet(shed') /\ Cardinality(shed') = Cardinality(shed) + 1
    BY <2>1, <2>3, FS_AddElement DEF IInv, TypeOK, Accepted
  <2>5. TypeOK'
    BY <1>1, <1>3, <2>1, <2>4 DEF IInv, TypeOK
  <2>6. InOrder'
    BY <1>1, <2>1, <2>2, <2>3 DEF IInv, InOrder, Accepted
  <2>7. EveryShedCounted'
    BY <2>1, <2>4 DEF IInv, EveryShedCounted
  <2> QED BY <2>5, <2>6, <2>7 DEF IInv
<1> QED BY <1>4, <1>5
(* A reliable push keeps the invariant, accepted or refused. *)
LEMMA TryEnqueueIInv ==
  ASSUME IInv, NEW p \in Producers, TryEnqueue(p)
  PROVE  IInv'
<1> DEFINE e == Entry(p)
<1>1. e \in Entries /\ e.id = next /\ next \in Nat
  BY EntryType DEF IInv, TryEnqueue, TypeOK
<1>2. pending' \in [Producers -> {NoFrame} \cup
        [id : {-1}, size : Sizes, keyframe : BOOLEAN, at : Nat]]
  BY DEF TryEnqueue, IInv, TypeOK
<1>3. /\ \/ queue' = queue \cup {e} /\ gone' = gone
         \/ queue' = queue /\ gone' = gone \cup {e}
      /\ next' = next + 1
      /\ UNCHANGED <<lane, in_flight, in_flight_off, dropped, pc, now, sent, shed>>
  BY DEF TryEnqueue
<1> HIDE DEF e
<1>4. TypeOK'
  BY <1>1, <1>2, <1>3, FS_AddElement DEF IInv, TypeOK
<1>5. InOrder'
  <2>1. \A g \in Accepted : g.id \in Nat /\ g.id < next
    BY DEF IInv, InOrder, TypeOK, Accepted, Entries
  <2> QED BY <1>1, <1>3, <2>1 DEF IInv, InOrder, Accepted
<1>6. EveryShedCounted'
  BY <1>3 DEF IInv, EveryShedCounted
<1> QED BY <1>4, <1>5, <1>6 DEF IInv

(* Writing a prefix of the buffer in flight keeps the invariant. *)
LEMMA WriteIInv ==
  ASSUME IInv,
         NEW partial \in {"idle"}, NEW whole \in {"idle", "locked"},
         Write(partial, whole),
         UNCHANGED <<lane, queue, dropped, pending, now, next, shed, gone>>
  PROVE  IInv'
<1>1. PICK done \in SUBSET in_flight, off \in 0 .. MaxSize :
        /\ \A e \in done, g \in in_flight \ done : e.id < g.id
        /\ in_flight' = in_flight \ done
        /\ in_flight_off' = off
        /\ sent' = sent \cup done
        /\ pc' = IF in_flight \ done = {} THEN whole ELSE partial
  BY Zenon DEF Write
<1>2. TypeOK'
  BY <1>1, OutboxAssumption DEF IInv, TypeOK
<1>3. InOrder'
  BY <1>1 DEF IInv, InOrder, Accepted
<1>4. EveryShedCounted'
  BY DEF IInv, EveryShedCounted
<1> QED BY <1>2, <1>3, <1>4 DEF IInv

(* Age eviction and promotion keep the invariant. *)
LEMMA EvictAndPromoteIInv ==
  ASSUME IInv, EvictAndPromote
  PROVE  IInv'
<1> DEFINE kept == queue \ Stale
           front == Promoted(kept)
<1>1. /\ dropped' = dropped + Cardinality(Stale)
      /\ shed' = shed \cup Stale
      /\ queue' = kept \ front
      /\ in_flight' = front
      /\ pc' \in {"idle", "tail"}
      /\ UNCHANGED <<lane, in_flight_off, pending, now, next, sent, gone>>
  BY DEF EvictAndPromote, AgeDrops
<1>2. /\ Stale \subseteq queue /\ IsFiniteSet(Stale)
      /\ front \subseteq kept
      /\ shed \cap Stale = {}
  BY EvictionFromQueue, FS_Subset DEF IInv, TypeOK, InOrder
<1>3. /\ IsFiniteSet(shed')
      /\ Cardinality(shed') = Cardinality(shed) + Cardinality(Stale)
      /\ Cardinality(Stale) \in Nat
  BY <1>1, <1>2, CountBatch DEF IInv, TypeOK
<1>4. \A e \in front, g \in kept \ front : e.id < g.id
  <2>1. kept \in SUBSET Entries /\ \A e, g \in kept : e.id = g.id => e = g
    BY DEF IInv, TypeOK, InOrder, Accepted
  <2> QED BY <2>1, PromotedIsPrefix
<1>5. IsFiniteSet(queue')
  BY <1>1, FS_Difference DEF IInv, TypeOK
<1>6. pc = "locked" /\ in_flight = {}
  BY DEF EvictAndPromote, IInv, InOrder
<1> HIDE DEF front
<1>7. TypeOK'
  BY <1>1, <1>2, <1>3, <1>5 DEF IInv, TypeOK
<1>8. InOrder'
  <2>1. Accepted' \subseteq Accepted
    BY <1>1, <1>2 DEF Accepted
  <2>2. \A e, g \in Accepted' : e.id < next' /\ (e.id = g.id => e = g)
    BY <1>1, <2>1 DEF IInv, InOrder
  <2>3. \A e \in in_flight', g \in queue' : e.id < g.id
    BY <1>1, <1>4
  <2>4. \A e \in sent', g \in in_flight' \cup queue' : e.id < g.id
    BY <1>1, <1>2 DEF IInv, InOrder
  <2>5. shed' \cap (queue' \cup in_flight' \cup sent') = {}
    <3>1. sent \cap queue = {}
      BY DEF IInv, InOrder, TypeOK, Entries
    <3> QED BY <1>1, <1>2, <3>1 DEF IInv, InOrder
  <2> QED BY <1>1, <2>2, <2>3, <2>4, <2>5 DEF InOrder
<1>9. EveryShedCounted'
  BY <1>1, <1>3 DEF IInv, EveryShedCounted
<1> QED BY <1>7, <1>8, <1>9 DEF IInv

(* Every step keeps the invariant. *)
LEMMA NextIInv == IInv /\ [Next]_vars => IInv'
<1> SUFFICES ASSUME IInv, [Next]_vars PROVE IInv'
  OBVIOUS
<1> USE DEF IInv
<1>1. ASSUME NEW p \in Producers, NEW size \in Sizes, NEW keyframe \in BOOLEAN,
             ReadClock(p, size, keyframe)
      PROVE  IInv'
  BY <1>1 DEF ReadClock, TypeOK, InOrder, Accepted, EveryShedCounted
<1>2. ASSUME NEW p \in Producers, Enqueue(p) PROVE IInv'
  BY <1>2, EnqueueIInv
<1>3. ASSUME NEW p \in Producers, TryEnqueue(p) PROVE IInv'
  BY <1>3, TryEnqueueIInv
<1>4. CASE DiscardQueued
  BY <1>4, FS_EmptySet
     DEF DiscardQueued, TypeOK, InOrder, Accepted, EveryShedCounted
<1>5. CASE DrainInFlight
  <2>1. CASE InFlightActive
    <3>1. Write("idle", IF Reliable THEN "idle" ELSE "locked")
      BY <1>5, <2>1 DEF DrainInFlight
    <3>2. UNCHANGED <<lane, queue, dropped, pending, now, next, shed, gone>>
      BY <1>5 DEF DrainInFlight
    <3> QED BY <3>1, <3>2, WriteIInv
  <2>2. CASE ~InFlightActive
    BY <1>5, <2>2
       DEF DrainInFlight, InFlightActive, TypeOK, InOrder, Accepted,
           EveryShedCounted
  <2> QED BY <2>1, <2>2
<1>6. CASE EvictAndPromote
  BY <1>6, EvictAndPromoteIInv
<1>7. CASE DrainTail
  <2>1. /\ Write("idle", "idle")
        /\ UNCHANGED <<lane, queue, dropped, pending, now, next, shed, gone>>
    BY <1>7 DEF DrainTail
  <2> QED BY <2>1, WriteIInv
<1>8. CASE Clear
  BY <1>8, FS_EmptySet DEF Clear, TypeOK, InOrder, Accepted, EveryShedCounted
<1>9. CASE Tick
  BY <1>9 DEF Tick, TypeOK, InOrder, Accepted, EveryShedCounted
<1>10. CASE UNCHANGED vars
  BY <1>10 DEF vars, TypeOK, InOrder, Accepted, EveryShedCounted
<1> QED
  BY <1>1, <1>2, <1>3, <1>4, <1>5, <1>6, <1>7, <1>8, <1>9, <1>10
     DEF Next, Producer, Drain

(***************************************************************************)
(* The types of the outbox's state, in every reachable state.              *)
(***************************************************************************)
THEOREM TypeCorrect == Spec => []TypeOK
<1>1. IInv => TypeOK
  BY DEF IInv
<1> QED BY InitIInv, NextIInv, <1>1, PTL DEF Spec

(***************************************************************************)
(* The wire sees the frames in the order they were admitted, each at most  *)
(* once, for every policy and drain mode.                                  *)
(***************************************************************************)
THEOREM FramesInOrder == Spec => []InOrder
<1>1. IInv => InOrder
  BY DEF IInv
<1> QED BY InitIInv, NextIInv, <1>1, PTL DEF Spec

(***************************************************************************)
(* Dropped() counts every frame the policy sheds, and no other.            *)
(***************************************************************************)
THEOREM ShedsCounted == Spec => []EveryShedCounted
<1>1. IInv => EveryShedCounted
  BY DEF IInv
<1> QED BY InitIInv, NextIInv, <1>1, PTL DEF Spec
-----------------------------------------------------------------------------
(* The outbox implements LossyFifo. *)

(* The numbers of accepted entries behave like the entries. *)
LEMMA IdsAlgebra ==
  ASSUME NEW S, NEW T
  PROVE  /\ Ids(S \cup T) = Ids(S) \cup Ids(T)
         /\ S \subseteq T => Ids(S) \subseteq Ids(T)
         /\ Ids({}) = {}
         /\ (T \subseteq S /\ \A e, g \in S : e.id = g.id => e = g)
              => Ids(S \ T) = Ids(S) \ Ids(T)
BY DEF Ids

(* A push is an offer that may lose waiting entries, or the new one. *)
LEMMA PushIsOffer ==
  ASSUME IInv, NEW e, e.id = next, next' = next + 1,
         UNCHANGED <<in_flight, sent>>,
         NEW out \in SUBSET queue,
         \/ /\ queue' = (queue \ out) \cup {e}
            /\ shed' \cup gone' = shed \cup gone \cup out
         \/ /\ queue' = queue
            /\ shed' \cup gone' = shed \cup gone \cup {e}
  PROVE  Fifo!Offer
<1>1. /\ next \in Nat
      /\ \A g \in queue : g.id \in Nat /\ g.id < next
      /\ \A f, g \in queue : f.id = g.id => f = g
  BY DEF IInv, TypeOK, InOrder, Accepted, Entries
<1>2. Ids({e}) = {next} /\ next \notin Ids(queue)
  BY <1>1 DEF Ids
<1>3. CASE /\ queue' = (queue \ out) \cup {e}
           /\ shed' \cup gone' = shed \cup gone \cup out
  <2>1. Ids(out) \subseteq Ids(queue)
    BY DEF Ids
  <2>2. Ids(queue') = (Ids(queue) \cup {next}) \ Ids(out)
    <3>1. Ids(queue') = Ids(queue \ out) \cup Ids({e})
      BY <1>3, IdsAlgebra
    <3>2. Ids(queue \ out) = Ids(queue) \ Ids(out)
      BY <1>1, IdsAlgebra
    <3> QED BY <1>2, <2>1, <3>1, <3>2
  <2>3. Ids(shed' \cup gone') = Ids(shed \cup gone) \cup Ids(out)
    BY <1>3, IdsAlgebra
  <2>4. Ids(out) \in SUBSET (Ids(queue) \cup {next})
    BY <2>1
  <2> QED BY <2>2, <2>3, <2>4, Zenon DEF Fifo!Offer, Ids
<1>4. CASE /\ queue' = queue
           /\ shed' \cup gone' = shed \cup gone \cup {e}
  <2>1. Ids(queue') = (Ids(queue) \cup {next}) \ {next}
    BY <1>2, <1>4
  <2>2. Ids(shed' \cup gone') = Ids(shed \cup gone) \cup {next}
    BY <1>2, <1>4, IdsAlgebra
  <2>3. {next} \in SUBSET (Ids(queue) \cup {next})
    OBVIOUS
  <2> QED BY <2>1, <2>2, <2>3, Zenon DEF Fifo!Offer, Ids
<1> QED BY <1>3, <1>4

(* A write delivers a prefix of the committed entries. *)
LEMMA WriteIsDeliver ==
  ASSUME IInv, NEW partial, NEW whole, Write(partial, whole),
         UNCHANGED <<queue, next, shed, gone>>
  PROVE  Fifo!Deliver
<1>1. PICK done \in SUBSET in_flight :
        /\ \A e \in done, g \in in_flight \ done : e.id < g.id
        /\ in_flight' = in_flight \ done
        /\ sent' = sent \cup done
  BY Zenon DEF Write
<1>2. Ids(in_flight') = Ids(in_flight) \ Ids(done)
  <2>1. \A f, g \in in_flight : f.id = g.id => f = g
    BY DEF IInv, InOrder, Accepted
  <2> QED BY <1>1, <2>1, IdsAlgebra
<1>3. Ids(sent') = Ids(sent) \cup Ids(done)
  BY <1>1, IdsAlgebra
<1>4. /\ Ids(done) \in SUBSET Ids(in_flight)
      /\ \A i \in Ids(done), j \in Ids(in_flight) \ Ids(done) : i < j
  BY <1>1 DEF Ids
<1> QED BY <1>2, <1>3, <1>4, Zenon DEF Fifo!Deliver, Ids

(* Shedding and promoting is a commit of a prefix of what is kept. *)
LEMMA PromoteIsCommit ==
  ASSUME IInv, EvictAndPromote
  PROVE  Fifo!Commit
<1> DEFINE kept == queue \ Stale
           front == Promoted(kept)
<1>1. /\ shed' = shed \cup Stale
      /\ queue' = kept \ front
      /\ in_flight' = front
      /\ UNCHANGED <<next, sent, gone>>
  BY DEF EvictAndPromote
<1>2. Stale \subseteq queue /\ front \subseteq kept /\ in_flight = {}
  BY EvictionFromQueue DEF EvictAndPromote, IInv, InOrder
<1>3. /\ kept \in SUBSET Entries
      /\ \A e, g \in queue : e.id = g.id => e = g
      /\ \A e, g \in kept : e.id = g.id => e = g
  BY DEF IInv, TypeOK, InOrder, Accepted
<1>4. \A e \in front, g \in kept \ front : e.id < g.id
  BY <1>3, PromotedIsPrefix
<1> HIDE DEF front
<1>5. Ids(kept) = Ids(queue) \ Ids(Stale)
  BY <1>2, <1>3, IdsAlgebra
<1>6. Ids(queue') = (Ids(queue) \ Ids(Stale)) \ Ids(front)
  <2>1. Ids(kept \ front) = Ids(kept) \ Ids(front)
    BY <1>2, <1>3, IdsAlgebra
  <2> QED BY <1>1, <1>5, <2>1
<1>7. Ids(shed' \cup gone') = Ids(shed \cup gone) \cup Ids(Stale)
  BY <1>1, IdsAlgebra DEF Ids
<1>8. Ids(in_flight') = Ids(in_flight) \cup Ids(front) /\ Ids(in_flight) = {}
  BY <1>1, <1>2, IdsAlgebra
<1>9. /\ Ids(Stale) \in SUBSET Ids(queue)
      /\ Ids(front) \in SUBSET (Ids(queue) \ Ids(Stale))
  BY <1>2, <1>5, IdsAlgebra
<1>10. \A i \in Ids(front), j \in (Ids(queue) \ Ids(Stale)) \ Ids(front) : i < j
  BY <1>1, <1>4, <1>6 DEF Ids
<1>11. UNCHANGED <<next, Ids(sent)>>
  BY <1>1
<1> QED BY <1>6, <1>7, <1>8, <1>9, <1>10, <1>11, Zenon DEF Fifo!Commit, Ids

(* Every step of the outbox is a step of LossyFifo or leaves it alone. *)
LEMMA StepImplements ==
  IInv /\ [Next]_vars => [Fifo!Next]_(Fifo!fifoVars)
<1> SUFFICES ASSUME IInv, [Next]_vars
             PROVE  Fifo!Next \/ UNCHANGED Fifo!fifoVars
  OBVIOUS
<1>1. ASSUME NEW p \in Producers, Enqueue(p) PROVE Fifo!Offer
  <2>1. Entry(p).id = next
    BY <1>1, EntryType DEF IInv, Enqueue
  <2>2. Evicted(Policy, queue, queue_bytes, Entry(p).size) \in SUBSET queue
    BY EvictionFromQueue
  <2> QED BY <1>1, <2>1, <2>2, PushIsOffer DEF Enqueue
<1>2. ASSUME NEW p \in Producers, TryEnqueue(p) PROVE Fifo!Offer
  <2>1. Entry(p).id = next
    BY <1>2, EntryType DEF IInv, TryEnqueue
  <2>2. /\ next' = next + 1 /\ UNCHANGED <<in_flight, sent>>
        /\ \/ /\ queue' = (queue \ {}) \cup {Entry(p)}
              /\ shed' \cup gone' = shed \cup gone \cup {}
           \/ /\ queue' = queue
              /\ shed' \cup gone' = shed \cup gone \cup {Entry(p)}
        /\ {} \in SUBSET queue
    BY <1>2 DEF TryEnqueue
  <2> QED BY <2>1, <2>2, PushIsOffer, Zenon
<1>3. CASE DiscardQueued
  <2>1. /\ Ids(queue') = (Ids(queue) \ Ids(queue)) \ {}
        /\ Ids(shed' \cup gone') = Ids(shed \cup gone) \cup Ids(queue)
        /\ Ids(in_flight') = Ids(in_flight) \cup {}
        /\ UNCHANGED <<next, Ids(sent)>>
    BY <1>3 DEF DiscardQueued, Ids
  <2>2. Ids(queue) \in SUBSET Ids(queue) /\ {} \in SUBSET (Ids(queue) \ Ids(queue))
    OBVIOUS
  <2>3. Fifo!Commit
    BY <2>1, <2>2, Zenon DEF Fifo!Commit, Ids
  <2> QED BY <2>3 DEF Fifo!Next
<1>4. CASE DrainInFlight
  <2>1. CASE InFlightActive
    <3>1. Write("idle", IF Reliable THEN "idle" ELSE "locked")
      BY <1>4, <2>1 DEF DrainInFlight
    <3>2. UNCHANGED <<queue, next, shed, gone>>
      BY <1>4 DEF DrainInFlight
    <3> QED BY <3>1, <3>2, WriteIsDeliver DEF Fifo!Next
  <2>2. CASE ~InFlightActive
    BY <1>4, <2>2 DEF DrainInFlight, Fifo!fifoVars, Ids
  <2> QED BY <2>1, <2>2
<1>5. CASE DrainTail
  <2>1. Write("idle", "idle") /\ UNCHANGED <<queue, next, shed, gone>>
    BY <1>5 DEF DrainTail
  <2> QED BY <2>1, WriteIsDeliver DEF Fifo!Next
<1>6. CASE Clear
  <2>1. /\ Ids(queue') = {} /\ Ids(in_flight') = {}
        /\ Ids(shed' \cup gone')
             = Ids(shed \cup gone) \cup Ids(queue) \cup Ids(in_flight)
        /\ UNCHANGED <<next, Ids(sent)>>
    BY <1>6 DEF Clear, Ids
  <2> QED BY <2>1 DEF Fifo!Reset, Fifo!Next, Ids
<1>7. ASSUME NEW p \in Producers, NEW size \in Sizes, NEW keyframe \in BOOLEAN,
             ReadClock(p, size, keyframe)
      PROVE  UNCHANGED Fifo!fifoVars
  BY <1>7 DEF ReadClock, Fifo!fifoVars, Ids
<1>8. CASE Tick \/ UNCHANGED vars
  BY <1>8 DEF Tick, vars, Fifo!fifoVars, Ids
<1>9. CASE EvictAndPromote
  BY <1>9, PromoteIsCommit DEF Fifo!Next
<1> QED
  BY <1>1, <1>2, <1>3, <1>4, <1>5, <1>6, <1>7, <1>8, <1>9
     DEF Next, Producer, Drain, Fifo!Next

(***************************************************************************)
(* The outbox is a lossy FIFO: a frame is lost only while it waits (or     *)
(* with its whole link), frames are committed in order and a committed     *)
(* frame is never shed.                                                    *)
(***************************************************************************)
THEOREM OutboxImplementsLossyFifo == Spec => ImplementsLossyFifo
<1>1. Init => Fifo!Init
  BY DEF Init, Fifo!Init, Ids
<1> QED
  BY InitIInv, NextIInv, <1>1, StepImplements, PTL
     DEF Spec, ImplementsLossyFifo, Fifo!Spec

-----------------------------------------------------------------------------
(* The bounds, and what is shed to keep them. *)

(* One entry of any non-empty queue is evicted before all the others. *)
LEMMA FirstToGo ==
  ASSUME NEW S \in SUBSET Entries, S # {}
  PROVE  \E m \in S : \A g \in S : ~EvictedBefore(Policy, g, m)
<1>1. ASSUME NEW T \in SUBSET Entries, T # {}
      PROVE  \E m \in T : \A g \in T : ~(g.id < m.id)
  <2> DEFINE N == {n \in Nat : \E e \in T : e.id = n}
  <2>1. \A e \in T : e.id \in N
    BY DEF Entries
  <2>2. N # {} /\ N \in SUBSET Nat
    BY <1>1, <2>1
  <2>3. PICK n \in N : \A k \in N : n <= k
    BY <2>2, LeastNat
  <2>4. PICK m \in T : m.id = n
    BY <2>3
  <2>5. \A g \in T : ~(g.id < m.id)
    BY <2>1, <2>3, <2>4
  <2> QED BY <2>5
<1> DEFINE bulk == {e \in S : IsBulk(Policy, e)}
<1>2. CASE bulk # {}
  <2>1. PICK m \in bulk : \A g \in bulk : ~(g.id < m.id)
    BY <1>1, <1>2
  <2>2. \A g \in S : ~EvictedBefore(Policy, g, m)
    BY <2>1 DEF EvictedBefore
  <2> QED BY <2>2
<1>3. CASE bulk = {}
  <2>1. PICK m \in S : \A g \in S : ~(g.id < m.id)
    BY <1>1
  <2>2. \A g \in S : ~EvictedBefore(Policy, g, m)
    BY <1>3, <2>1 DEF EvictedBefore
  <2> QED BY <2>2
<1> QED BY <1>2, <1>3

(* What a queue's size and bytes are bounded by, bounds its subsets'. *)
LEMMA SubsetIsSmaller ==
  ASSUME NEW S \in SUBSET Entries, IsFiniteSet(S), NEW T \in SUBSET S
  PROVE  /\ Sized(S) /\ Sized(T)
         /\ Bytes(T) \in Nat /\ Bytes(S) \in Nat /\ Bytes(T) <= Bytes(S)
         /\ Bytes(S \ T) = Bytes(S) - Bytes(T)
         /\ Cardinality(T) \in Nat /\ Cardinality(S) \in Nat
         /\ Cardinality(T) <= Cardinality(S)
<1>1. Sized(S)
  BY OutboxAssumption DEF Entries, Sizes, Sized
<1>2. /\ Sized(T) /\ Sized(S \ T) /\ Bytes(T) \in Nat /\ Bytes(S) \in Nat
      /\ Bytes(S \ T) = Bytes(S) - Bytes(T)
  BY <1>1, BytesSplit
<1>3. Bytes(S \ T) \in Nat
  BY <1>2, BytesRemove
<1>4. Cardinality(T) \in Nat /\ Cardinality(S) \in Nat /\ Cardinality(T) <= Cardinality(S)
  BY FS_Subset, FS_CardinalityType
<1> QED BY <1>1, <1>2, <1>3, <1>4

(* After an eviction there is room for the new frame, or the queue is empty. *)
LEMMA EvictionMakesRoom ==
  ASSUME TypeOK, queue_bytes = Bytes(queue), NEW size \in Nat,
         NEW rest, rest = queue \ Evicted(Policy, queue, queue_bytes, size), rest # {}
  PROVE  /\ Policy.drop = "DropOldest" => Cardinality(rest) < Policy.max_depth
         /\ Policy.drop = "StaleEviction" => Bytes(rest) + size <= Policy.max_bytes
<1>1. queue \in SUBSET Entries /\ IsFiniteSet(queue) /\ rest \in SUBSET queue
  BY DEF TypeOK
<1>2. PICK m \in rest : \A g \in rest : ~EvictedBefore(Policy, g, m)
  BY <1>1, FirstToGo
<1> DEFINE ahead == {g \in queue : EvictedBefore(Policy, g, m)}
           left == queue \ ahead
<1>3. ~OverBound(Policy, Cardinality(left), queue_bytes - Bytes(ahead), size)
  BY <1>2 DEF Evicted
<1>4. rest \in SUBSET left /\ left \in SUBSET queue /\ ahead \in SUBSET queue
  BY <1>1, <1>2
<1> HIDE DEF ahead
<1>5. Bytes(left) = queue_bytes - Bytes(ahead)
  BY <1>1, <1>4, SubsetIsSmaller
<1>6. IsFiniteSet(left) /\ left \in SUBSET Entries
  BY <1>1, <1>4, FS_Subset
<1> HIDE DEF left
<1>7. /\ Bytes(rest) \in Nat /\ Bytes(left) \in Nat /\ Bytes(rest) <= Bytes(left)
      /\ Cardinality(rest) \in Nat /\ Cardinality(left) \in Nat
      /\ Cardinality(rest) <= Cardinality(left)
  BY <1>4, <1>6, SubsetIsSmaller
<1>8. Policy.max_depth \in Nat /\ Policy.max_bytes \in Nat
  BY OutboxAssumption DEF TypeOK, Policy, LaneType, Policies
<1>9. CASE Policy.drop = "DropOldest"
  <2>1. ~(Cardinality(left) >= Policy.max_depth)
    BY <1>3, <1>9 DEF OverBound
  <2> QED BY <1>7, <1>8, <1>9, <2>1
<1>10. CASE Policy.drop = "StaleEviction"
  <2>1. ~(Bytes(left) + size > Policy.max_bytes)
    BY <1>3, <1>5, <1>10 DEF OverBound
  <2> QED BY <1>7, <1>8, <1>10, <2>1
<1> QED BY <1>9, <1>10

(* A queue that only lost entries keeps its bound. *)
LEMMA ShrinkBounded ==
  ASSUME TypeOK, Bounded, queue' \in SUBSET queue, UNCHANGED lane,
         queue_bytes' = Bytes(queue')
  PROVE  Bounded'
<1>1. /\ Bytes(queue') \in Nat /\ Bytes(queue) \in Nat /\ Bytes(queue') <= Bytes(queue)
      /\ Cardinality(queue') \in Nat /\ Cardinality(queue) \in Nat
      /\ Cardinality(queue') <= Cardinality(queue)
  BY SubsetIsSmaller DEF TypeOK
<1>2. Cardinality(queue') = 0 => Bytes(queue') = 0
  <2>1. IsFiniteSet(queue')
    BY FS_Subset DEF TypeOK
  <2> QED BY <2>1, FS_EmptySet, BytesUnfold
<1>3. /\ Policy.max_depth \in Nat /\ Policy.max_bytes \in Nat
      /\ QueuedByteLimit \in Nat
  BY OutboxAssumption DEF TypeOK, Policy, QueuedByteLimit, LaneType, Policies
<1>4. UNCHANGED <<Policy, Reliable, QueuedByteLimit>>
  BY DEF Policy, Reliable, QueuedByteLimit
<1> QED BY <1>1, <1>2, <1>3, <1>4 DEF Bounded

(* A push keeps the bound. *)
LEMMA EnqueueBounded ==
  ASSUME IInv, Bounded, NEW p \in Producers, Enqueue(p)
  PROVE  Bounded'
<1> DEFINE e == Entry(p)
           out == Evicted(Policy, queue, queue_bytes, e.size)
           rest == queue \ out
<1>1. e \in Entries /\ e.id = next /\ e.size \in Nat
  BY EntryType, OutboxAssumption DEF IInv, Enqueue, Entries, Sizes
<1>2. /\ UNCHANGED <<Policy, Reliable, QueuedByteLimit>> /\ ~Reliable
      /\ queue_bytes = Bytes(queue)
  BY DEF Enqueue, Policy, Reliable, QueuedByteLimit, Bounded
<1>3. CASE ~Admits(Policy, queue)
  BY <1>2, <1>3 DEF Enqueue, Bounded
<1>4. CASE Admits(Policy, queue)
  <2>1. queue' = rest \cup {e} /\ queue_bytes' = queue_bytes - Bytes(out) + e.size
    BY <1>4 DEF Enqueue
  <2>2. /\ out \in SUBSET queue /\ rest \in SUBSET queue
        /\ queue \in SUBSET Entries /\ IsFiniteSet(queue)
    BY EvictionFromQueue DEF IInv, TypeOK
  <2>3. rest # {} =>
          /\ Policy.drop = "DropOldest" => Cardinality(rest) < Policy.max_depth
          /\ Policy.drop = "StaleEviction" => Bytes(rest) + e.size <= Policy.max_bytes
    BY <1>1, <1>2, EvictionMakesRoom DEF IInv
  <2>4. Policy.drop = "DropOnFail" => Cardinality(queue) < Policy.max_depth
    BY <1>4 DEF Admits
  <2> HIDE DEF out, e
  <2>5. /\ Sized(rest) /\ Bytes(rest) \in Nat /\ Bytes(rest) = Bytes(queue) - Bytes(out)
        /\ Cardinality(rest) \in Nat /\ Cardinality(queue) \in Nat
        /\ Cardinality(rest) <= Cardinality(queue)
    BY <2>2, SubsetIsSmaller
  <2>6. e \notin rest
    BY <1>1, <2>2 DEF IInv, InOrder, Accepted, TypeOK, Entries
  <2>7. /\ Bytes(rest \cup {e}) = Bytes(rest) + e.size
        /\ Cardinality(rest \cup {e}) = Cardinality(rest) + 1
    <3>1. Bytes(rest \cup {e}) = Bytes(rest) + e.size
      BY <1>1, <2>5, <2>6, BytesAdd
    <3>2. IsFiniteSet(rest)
      BY <2>5 DEF Sized
    <3> QED BY <2>6, <3>1, <3>2, FS_AddElement
  <2>8. queue_bytes' = Bytes(queue')
    <3>1. Bytes(out) \in Nat /\ Bytes(queue) \in Nat
      BY <2>2, SubsetIsSmaller
    <3> QED BY <1>1, <1>2, <2>1, <2>5, <2>7, <3>1
  <2>9. /\ Policy.max_depth \in Nat /\ Policy.max_bytes \in Nat
        /\ Policy.drop \in DropModes
    BY OutboxAssumption DEF IInv, TypeOK, Policy, LaneType, Policies
  <2>10. /\ Cardinality(queue') = Cardinality(rest) + 1
         /\ Bytes(queue') = Bytes(rest) + e.size
    BY <2>1, <2>7
  <2>11. rest = {} => Cardinality(rest) = 0
    BY FS_EmptySet
  <2>12. CASE Policy.drop = "DropOldest"
    <3>1. Cardinality(queue') <= Policy.max_depth \/ Cardinality(queue') = 1
      BY <2>3, <2>5, <2>9, <2>10, <2>11, <2>12
    <3> QED BY <1>2, <2>8, <2>12, <3>1 DEF Bounded
  <2>13. CASE Policy.drop = "StaleEviction"
    <3>1. Bytes(queue') <= Policy.max_bytes \/ Cardinality(queue') = 1
      BY <1>1, <2>3, <2>5, <2>9, <2>10, <2>11, <2>13
    <3> QED BY <1>2, <2>8, <2>13, <3>1 DEF Bounded
  <2>14. CASE Policy.drop = "DropOnFail"
    <3>1. Cardinality(queue') <= Policy.max_depth
      BY <2>4, <2>5, <2>9, <2>10, <2>14
    <3> QED BY <1>2, <2>8, <2>14, <3>1 DEF Bounded
  <2> QED BY <2>9, <2>12, <2>13, <2>14 DEF DropModes
<1> QED BY <1>3, <1>4

(* A producer's own push into a lane (TryEnqueue) sheds to the bounds.     *)
LEMMA TryEnqueueBounded ==
  ASSUME IInv, Bounded, NEW p \in Producers, TryEnqueue(p)
  PROVE  Bounded'
<1> DEFINE e == Entry(p)
<1>1. e \in Entries /\ e.id = next /\ e.size \in Nat
  BY EntryType, OutboxAssumption DEF IInv, TryEnqueue, Entries, Sizes
<1>2. /\ UNCHANGED <<Policy, Reliable, QueuedByteLimit>> /\ Reliable
      /\ queue_bytes = Bytes(queue)
  BY DEF TryEnqueue, Policy, Reliable, QueuedByteLimit, Bounded
<1>3. CASE ~Fits(e.size)
  BY <1>2, <1>3 DEF TryEnqueue, Bounded
<1>4. CASE Fits(e.size)
  <2>1. queue' = queue \cup {e} /\ queue_bytes' = queue_bytes + e.size
    BY <1>4 DEF TryEnqueue
  <2>2. queue_bytes <= QueuedByteLimit - e.size /\ QueuedByteLimit \in Nat
    BY <1>4, OutboxAssumption
    DEF Fits, IInv, TypeOK, QueuedByteLimit, LaneType
  <2> HIDE DEF e
  <2>3. Sized(queue) /\ Bytes(queue) \in Nat
    BY SubsetIsSmaller DEF IInv, TypeOK
  <2>4. e \notin queue
    BY <1>1 DEF IInv, InOrder, Accepted, TypeOK, Entries
  <2>5. Bytes(queue \cup {e}) = Bytes(queue) + e.size
    BY <1>1, <2>3, <2>4, BytesAdd
  <2> QED BY <1>1, <1>2, <2>1, <2>2, <2>3, <2>5 DEF Bounded
<1> QED BY <1>3, <1>4

(* Frames taken over from the inbox by Drain are shed to the bounds of     *)
(* their lane.                                                             *)
LEMMA PromoteBounded ==
  ASSUME IInv, Bounded, EvictAndPromote
  PROVE  Bounded'
<1> DEFINE kept == queue \ Stale
           front == Promoted(kept)
<1>1. queue' = kept \ front /\ queue_bytes' = BytesAfter(kept, front) /\ UNCHANGED lane
  BY DEF EvictAndPromote
<1>2. /\ Stale \in SUBSET queue /\ kept \in SUBSET queue /\ front \in SUBSET kept
      /\ queue \in SUBSET Entries /\ kept \in SUBSET Entries
      /\ IsFiniteSet(queue) /\ IsFiniteSet(kept)
  BY EvictionFromQueue, FS_Subset DEF IInv, TypeOK
<1>3. /\ Bytes(kept) = Bytes(queue) - Bytes(Stale)
      /\ Bytes(kept \ front) = Bytes(kept) - Bytes(front)
      /\ Bytes(Stale) \in Nat /\ Bytes(front) \in Nat /\ Bytes(queue) \in Nat
  <2>1. /\ Bytes(kept) = Bytes(queue) - Bytes(Stale)
        /\ Bytes(Stale) \in Nat /\ Bytes(queue) \in Nat
    BY <1>2, SubsetIsSmaller
  <2> HIDE DEF kept
  <2>2. Bytes(kept \ front) = Bytes(kept) - Bytes(front) /\ Bytes(front) \in Nat
    BY <1>2, SubsetIsSmaller
  <2> QED BY <2>1, <2>2
<1>4. queue_bytes' = Bytes(queue')
  <2>1. CASE Coalesces(kept)
    <3>1. queue' = {} /\ queue_bytes' = 0
      BY <1>1, <2>1 DEF Promoted, BytesAfter
    <3> QED BY <3>1, FS_EmptySet, BytesUnfold
  <2>2. CASE ~Coalesces(kept)
    <3>1. queue_bytes' = queue_bytes - Bytes(Stale) - Bytes(front)
      BY <1>1, <2>2 DEF BytesAfter
    <3>2. queue_bytes = Bytes(queue)
      BY DEF Bounded
    <3> HIDE DEF kept, front
    <3> QED BY <1>1, <1>3, <3>1, <3>2
  <2> QED BY <2>1, <2>2
<1>5. queue' \in SUBSET queue
  BY <1>1, <1>2
<1> QED BY <1>1, <1>4, <1>5, ShrinkBounded DEF IInv

(* Every step of the producers and of the drain keeps the bounds.          *)
LEMMA NextBounded == IInv /\ Bounded /\ [Next]_vars => Bounded'
<1> SUFFICES ASSUME IInv, Bounded, [Next]_vars PROVE Bounded'
  OBVIOUS
<1>1. ASSUME NEW p \in Producers, Enqueue(p) \/ TryEnqueue(p) PROVE Bounded'
  BY <1>1, EnqueueBounded, TryEnqueueBounded
<1>2. CASE EvictAndPromote
  BY <1>2, PromoteBounded
<1>3. CASE DiscardQueued \/ Clear
  <2>1. queue' = {} /\ queue_bytes' = 0 /\ UNCHANGED lane
    BY <1>3 DEF DiscardQueued, Clear
  <2>2. Bytes({}) = 0
    BY FS_EmptySet, BytesUnfold
  <2> QED BY <2>1, <2>2, ShrinkBounded DEF IInv
<1>4. CASE UNCHANGED <<lane, queue, queue_bytes>>
  BY <1>4 DEF Bounded, Reliable, Policy, QueuedByteLimit
<1> QED
  BY <1>1, <1>2, <1>3, <1>4
  DEF Next, Producer, ReadClock, Drain, DrainInFlight, DrainTail, Tick, vars

(* What is evicted before an entry is evicted before what it goes before. *)
LEMMA EvictionIsMonotone ==
  ASSUME IInv, Bounded, NEW size \in Nat, NEW e \in queue, NEW g \in queue,
         EvictedBefore(Policy, g, e), e \in Evicted(Policy, queue, queue_bytes, size)
  PROVE  g \in Evicted(Policy, queue, queue_bytes, size)
<1> DEFINE ahead(x) == {h \in queue : EvictedBefore(Policy, h, x)}
           left(x) == queue \ ahead(x)
<1>1. queue \in SUBSET Entries /\ IsFiniteSet(queue) /\ queue_bytes = Bytes(queue)
  BY DEF IInv, TypeOK, Bounded
<1>2. \A h \in queue : EvictedBefore(Policy, h, g) => EvictedBefore(Policy, h, e)
  BY <1>1 DEF EvictedBefore, Entries
<1>3. \A x : ahead(x) \in SUBSET queue /\ left(x) \in SUBSET queue
  OBVIOUS
<1>4. left(e) \in SUBSET left(g)
  BY <1>2
<1>5. OverBound(Policy, Cardinality(left(e)), queue_bytes - Bytes(ahead(e)), size)
  BY DEF Evicted
<1>6. SUFFICES OverBound(Policy, Cardinality(left(g)), queue_bytes - Bytes(ahead(g)), size)
  BY DEF Evicted
<1> HIDE DEF ahead
<1>7. \A x : Bytes(left(x)) = queue_bytes - Bytes(ahead(x))
  BY <1>1, <1>3, SubsetIsSmaller
<1>8. IsFiniteSet(left(g)) /\ left(g) \in SUBSET Entries
  BY <1>1, <1>3, FS_Subset
<1> HIDE DEF left
<1>9. /\ Bytes(left(e)) \in Nat /\ Bytes(left(g)) \in Nat /\ Bytes(left(e)) <= Bytes(left(g))
      /\ Cardinality(left(e)) \in Nat /\ Cardinality(left(g)) \in Nat
      /\ Cardinality(left(e)) <= Cardinality(left(g))
  BY <1>4, <1>8, SubsetIsSmaller
<1>10. Policy.max_depth \in Nat /\ Policy.max_bytes \in Nat /\ Policy.drop \in DropModes
  BY OutboxAssumption DEF IInv, TypeOK, Policy, LaneType, Policies
<1>11. CASE Policy.drop = "DropOldest"
  <2>1. Cardinality(left(e)) >= Policy.max_depth
    BY <1>5, <1>11 DEF OverBound
  <2>2. Cardinality(left(g)) >= Policy.max_depth
    BY <1>9, <1>10, <2>1
  <2> QED BY <1>11, <2>2 DEF OverBound
<1>12. CASE Policy.drop = "StaleEviction"
  <2>1. Bytes(left(e)) + size > Policy.max_bytes
    BY <1>5, <1>7, <1>12 DEF OverBound
  <2>2. Bytes(left(g)) + size > Policy.max_bytes
    BY <1>9, <1>10, <2>1
  <2> QED BY <1>7, <1>12, <2>2 DEF OverBound
<1>13. CASE Policy.drop = "DropOnFail"
  BY <1>5, <1>13 DEF OverBound
<1> QED BY <1>10, <1>11, <1>12, <1>13 DEF DropModes

(* What a step sheds. *)
ShedRight ==
  \A e \in shed' \ shed :
    /\ e.size < Policy.protect_below_bytes =>
         \A g \in queue \cap queue' : ~IsBulk(Policy, g)
    /\ e.keyframe => next' = next + 1

(* Whatever step sheds, it sheds what its policy allows.                   *)
LEMMA NextShedsRight == IInv /\ Bounded /\ [Next]_vars => [ShedRight]_vars
<1> SUFFICES ASSUME IInv, Bounded, Next PROVE ShedRight
  BY DEF vars
<1>0. /\ Policy.protect_below_bytes \in Nat
      /\ Policy.drop = "DropOnFail" => Policy.protect_below_bytes = 0
      /\ \A e \in Entries : e.size \in Nat /\ e.id \in Nat
  BY OutboxAssumption DEF IInv, TypeOK, Policy, LaneType, Policies, Entries, Sizes
<1>1. ASSUME NEW p \in Producers, Enqueue(p) PROVE ShedRight
  <2> DEFINE f == Entry(p)
             out == Evicted(Policy, queue, queue_bytes, f.size)
  <2>1. f \in Entries /\ f.id = next /\ f.size \in Nat /\ next' = next + 1
    BY <1>0, <1>1, EntryType DEF IInv, Enqueue
  <2>2. \A g \in queue : g.id < next /\ g \in Entries
    BY DEF IInv, TypeOK, InOrder, Accepted
  <2>3. CASE ~Admits(Policy, queue)
    <3>1. shed' = shed \cup {f}
      BY <1>1, <2>3 DEF Enqueue
    <3>2. ~(f.size < Policy.protect_below_bytes)
      BY <1>0, <2>1, <2>3 DEF Admits
    <3> QED BY <2>1, <3>1, <3>2 DEF ShedRight
  <2>4. CASE Admits(Policy, queue)
    <3>1. shed' = shed \cup out /\ queue' = (queue \ out) \cup {f}
      BY <1>1, <2>4 DEF Enqueue
    <3>2. ASSUME NEW e \in out, e.size < Policy.protect_below_bytes,
                 NEW g \in queue \cap queue'
          PROVE  ~IsBulk(Policy, g)
      <4>1. e \in queue
        BY EvictionFromQueue
      <4>2. g \in queue /\ g \notin out
        <5>1. g # f
          BY <1>0, <2>1, <2>2
        <5> QED BY <3>1, <5>1
      <4>3. ~IsBulk(Policy, e)
        BY <1>0, <2>2, <3>2, <4>1 DEF IsBulk
      <4>4. IsBulk(Policy, g) => EvictedBefore(Policy, g, e)
        BY <4>3 DEF EvictedBefore
      <4> QED BY <2>1, <4>1, <4>2, <4>4, EvictionIsMonotone
    <3> HIDE DEF out
    <3> QED BY <2>1, <3>1, <3>2 DEF ShedRight
  <2> QED BY <2>3, <2>4
<1>2. CASE EvictAndPromote
  <2>1. shed' = shed \cup Stale
    BY <1>2 DEF EvictAndPromote
  <2>2. \A e \in Stale : ~e.keyframe /\ ~(e.size < Policy.protect_below_bytes)
    BY <1>0 DEF Stale, IInv, TypeOK
  <2> QED BY <2>1, <2>2 DEF ShedRight
<1>3. CASE UNCHANGED shed
  BY <1>3 DEF ShedRight
<1> QED
  BY <1>1, <1>2, <1>3
  DEF Next, Producer, ReadClock, TryEnqueue, DiscardQueued, Drain, DrainInFlight,
      DrainTail, Write, Clear, Tick

(* A lane keeps to the bound its policy names, measured on a byte total that *)
(* is exact; no small frame is shed while a bulk one is left to shed in its  *)
(* place, and the age sweep never sheds a keyframe.                          *)
THEOREM ShedsAreBounded == Spec => ShedsToBound
<1> DEFINE Inv == IInv /\ Bounded
<1>1. Init => Inv
  <2>1. Init => Bounded
    <3> SUFFICES ASSUME Init PROVE Bounded
      OBVIOUS
    <3>1. Cardinality({}) = 0 /\ Bytes({}) = 0
      BY FS_EmptySet, BytesUnfold
    <3>2. /\ Policy.max_depth \in Nat /\ Policy.max_bytes \in Nat
          /\ QueuedByteLimit \in Nat
      BY OutboxAssumption DEF Init, Policy, QueuedByteLimit, LaneType, Policies
    <3>3. queue = {} /\ queue_bytes = 0
      BY DEF Init
    <3> QED BY <3>1, <3>2, <3>3 DEF Bounded
  <2> QED BY <2>1, InitIInv
<1>2. Inv /\ [Next]_vars => Inv'
  BY NextIInv, NextBounded
<1>3. Inv => TypeOK /\ Bounded
  BY DEF IInv
<1>4. Inv /\ [Next]_vars => [ShedRight]_vars
  BY NextShedsRight
<1> QED BY <1>1, <1>2, <1>3, <1>4, PTL DEF Spec, ShedsToBound, ShedOrder, ShedRight
=============================================================================
