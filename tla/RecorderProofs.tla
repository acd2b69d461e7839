--------------------------- MODULE RecorderProofs ---------------------------
(***************************************************************************)
(* The recording sink, for every value of its constants.                   *)
(*                                                                         *)
(* The endpoint, for any number of senders and stoppers and every policy   *)
(* and arena: one thread finalizes the recording, once, and it accounts    *)
(* for every frame, with no payload overwritten while queued and no thread *)
(* left asleep.                                                            *)
(*                                                                         *)
(* The file writer, for any cameras, messages and constructor arguments,   *)
(* and storage that fails at any step: the parts hold every frame of a     *)
(* started continuation in its channel's order, number without a gap and   *)
(* keep their bound; a part that claims to be decodable alone is.          *)
(***************************************************************************)
EXTENDS McapWriterEndpoint, McapWriter, WritePolicyProofs

-----------------------------------------------------------------------------
(* McapWriterEndpoint. *)

Types ==
  /\ thread \in {"none", "joinable", "joined"}
  /\ writer \in {"off", "top", "waiting", "batch", "drain", "written",
                 "release", "reclaim", "finalize", "closed", "exited"}
  /\ back \in {"drain", "release"}
  /\ stopper \in [Stoppers -> {"idle", "await", "shed", "reclaim", "closing",
                               "returned"}]
  /\ stop \in BOOLEAN /\ finalized \in BOOLEAN /\ inline \in BOOLEAN
  /\ closes \in Nat

(* The places of a stopper that finalizes the file itself. *)
Finalizing == {"shed", "reclaim", "closing"}

(* The thread exists from its spawn to its join, and its place says so. *)
ThreadMatchesPlace ==
  /\ thread = "none" <=> writer = "off"
  /\ thread = "joined" => writer = "exited"
  /\ writer = "exited" => finalized
  /\ finalized /\ ~inline => writer = "exited"
  /\ finalized \/ writer \in {"finalize", "closed"} => stop

(* An inline finalizer is alone: it found no thread, and bars the next. *)
InlineAlone ==
  /\ inline => writer = "off" /\ stop
  /\ \A s \in Stoppers : stopper[s] \in Finalizing => inline /\ ~finalized
  /\ \A s, t \in Stoppers :
       stopper[s] \in Finalizing /\ stopper[t] \in Finalizing => s = t

HasClosed ==
  \/ writer \in {"closed", "exited"} \/ finalized
  \/ \E s \in Stoppers : stopper[s] = "closing"

ClosedOnce == closes = IF HasClosed THEN 1 ELSE 0

IInv == Types /\ ThreadMatchesPlace /\ InlineAlone /\ ClosedOnce /\ OneFinalizer

(* An endpoint not yet started.                                            *)
LEMMA InitIInv == Init => IInv
<1> SUFFICES ASSUME Init PROVE IInv
  OBVIOUS
<1>1. Types
  BY DEF Init, Types
<1>2. \A s \in Stoppers : stopper[s] = "idle"
  BY DEF Init
<1>3. ThreadMatchesPlace /\ InlineAlone /\ OneFinalizer
  BY <1>2 DEF Init, ThreadMatchesPlace, InlineAlone, OneFinalizer, Finalizing
<1>4. ClosedOnce
  BY <1>2 DEF Init, ClosedOnce, HasClosed
<1> QED BY <1>1, <1>3, <1>4 DEF IInv

(* What decides the invariant; most steps leave it alone. *)
owner == <<thread, writer, stopper, stop, finalized, inline, closes>>

(* The writer's way from one batch to the next, while it is not finalizing. *)
LEMMA BusyWriter ==
  ASSUME IInv,
         writer \notin {"off", "finalize", "closed", "exited"},
         writer' \in {"top", "waiting", "batch", "drain", "written", "release",
                      "reclaim", "finalize"},
         writer' = "finalize" => stop,
         back' \in {"drain", "release"},
         UNCHANGED <<thread, stopper, stop, finalized, inline, closes>>
  PROVE  IInv'
<1> USE DEF IInv, Types, ThreadMatchesPlace, InlineAlone, OneFinalizer,
            Finalizing
<1>1. HasClosed' <=> HasClosed
  BY DEF HasClosed
<1>2. ClosedOnce'
  BY <1>1 DEF ClosedOnce
<1> QED BY <1>2

(* A caller enters StopFor while others may be in it.                      *)
LEMMA StopBeginIInv ==
  ASSUME IInv, NEW s \in Stoppers, StopBegin(s)
  PROVE  IInv'
<1> USE DEF IInv, Types, ThreadMatchesPlace, InlineAlone, HasClosed,
            ClosedOnce, OneFinalizer, Finalizing, NeedsOwner
<1>1. stop' = TRUE /\ UNCHANGED <<finalized, closes, back>>
  BY DEF StopBegin
<1>2. CASE /\ ~NeedsOwner /\ stopper' = [stopper EXCEPT ![s] = "await"]
           /\ writer' = WriterWoken /\ UNCHANGED <<thread, inline>>
  BY <1>1, <1>2 DEF StopBegin, WriterWoken
<1>3. CASE /\ NeedsOwner /\ Spawned /\ UNCHANGED inline
           /\ stopper' = [stopper EXCEPT ![s] = "await"]
  BY <1>1, <1>3 DEF StopBegin, Spawned
<1>4. CASE NeedsOwner /\ UNCHANGED <<thread, inline, writer, stopper>>
  BY <1>1, <1>4
<1>5. CASE /\ NeedsOwner /\ inline' = TRUE /\ UNCHANGED <<thread, writer>>
           /\ stopper' = [stopper EXCEPT ![s] = "shed"]
  BY <1>1, <1>5 DEF StopBegin
<1> QED BY <1>2, <1>3, <1>4, <1>5 DEF StopBegin

(* A caller of StopFor goes on: waits, times out, or finalizes.            *)
LEMMA StopperIInv ==
  ASSUME IInv, NEW s \in Stoppers, Stopper(s) \/ GivesUp(s)
  PROVE  IInv'
<1> USE DEF IInv, Types, ThreadMatchesPlace, InlineAlone, HasClosed,
            ClosedOnce, OneFinalizer, Finalizing
<1>1. CASE Shed(s)
  BY <1>1 DEF Shed, flags, counts
<1>2. CASE ShedReclaimed(s)
  BY <1>2 DEF ShedReclaimed, flags, counts
<1>3. CASE CloseInline(s)
  BY <1>3 DEF CloseInline
<1>4. CASE FinalizedInline(s)
  BY <1>4 DEF FinalizedInline, counts
<1>5. CASE GivesUp(s)
  BY <1>5 DEF GivesUp, flags, counts
<1>6. CASE Join(s)
  BY <1>6 DEF Join, Joined, counts
<1> QED BY <1>1, <1>2, <1>3, <1>4, <1>5, <1>6 DEF Stopper

(* Every step of the worker and of the callers keeps the invariant.        *)
LEMMA NextIInv == IInv /\ [Next]_vars => IInv'
<1> SUFFICES ASSUME IInv, [Next]_vars PROVE IInv'
  OBVIOUS
<1> USE DEF flags, counts, threads, held
<1>1. ASSUME UNCHANGED owner, UNCHANGED back PROVE IInv'
  BY <1>1 DEF owner, IInv, Types, ThreadMatchesPlace, InlineAlone, HasClosed,
              ClosedOnce, OneFinalizer, Finalizing
<1>2. ASSUME NEW p \in Senders, Send(p) PROVE IInv'
  BY <1>1, <1>2 DEF Send, owner
<1>3. ASSUME NEW p \in Senders, Notify(p) PROVE IInv'
  BY <1>1, <1>3, BusyWriter DEF Notify, owner, IInv, Types
<1>4. CASE SpuriousWakeup
  BY <1>1, <1>4, BusyWriter DEF SpuriousWakeup, owner, IInv, Types
<1>5. CASE Wait \/ Deadline \/ TakeBatch
  BY <1>5, BusyWriter DEF Wait, Deadline, TakeBatch, Swap, IInv, Types
<1>6. CASE BeginBatch \/ WriteFront
  BY <1>6, BusyWriter DEF BeginBatch, WriteFront, GiveUpBatch, IInv, Types
<1>7. CASE ReleaseWritten \/ ReleaseRest
  BY <1>7, BusyWriter DEF ReleaseWritten, ReleaseRest, ReleaseOfBatch, IInv, Types
<1>8. CASE WriterReclaimed
  BY <1>8, BusyWriter DEF WriterReclaimed, IInv, Types
<1>9. CASE Close \/ SetFinalized
  <2> USE DEF IInv, Types, ThreadMatchesPlace, InlineAlone, OneFinalizer,
              Finalizing
  <2>1. ~inline /\ \A s \in Stoppers : stopper[s] \notin Finalizing
    BY <1>9 DEF Close, SetFinalized
  <2>2. CASE Close
    <3>1. ~HasClosed /\ HasClosed' /\ closes' = closes + 1
      BY <2>1, <2>2 DEF Close, HasClosed
    <3> QED BY <2>1, <2>2, <3>1 DEF Close, ClosedOnce
  <2>3. CASE SetFinalized
    <3>1. HasClosed /\ HasClosed' /\ closes' = closes
      BY <2>3 DEF SetFinalized, HasClosed
    <3> QED BY <2>1, <2>3, <3>1 DEF SetFinalized, ClosedOnce
  <2> QED BY <1>9, <2>2, <2>3
<1>10. CASE Start
  BY <1>10 DEF Start, Spawned, IInv, Types, ThreadMatchesPlace, InlineAlone,
               HasClosed, ClosedOnce, OneFinalizer, Finalizing
<1>11. ASSUME NEW s \in Stoppers, StopBegin(s) \/ Stopper(s) \/ GivesUp(s)
       PROVE  IInv'
  BY <1>11, StopBeginIInv, StopperIInv
<1>12. CASE UNCHANGED vars
  BY <1>1, <1>12 DEF vars, owner
<1> QED
  BY <1>2, <1>3, <1>4, <1>5, <1>6, <1>7, <1>8, <1>9, <1>10, <1>11, <1>12
  DEF Next, Writer

(***************************************************************************)
(* The file is closed once and by one thread, and a StopFor that returned  *)
(* true left a closed file and no thread, however Start, several StopFor   *)
(* calls, their timeouts and failed thread creations interleave (StopFor,  *)
(* Finalize, WriterLoop).                                                  *)
(***************************************************************************)
THEOREM FinalizedByOne == Spec => []OneFinalizer
<1>1. IInv => OneFinalizer
  BY DEF IInv
<1> QED BY InitIInv, NextIInv, <1>1, PTL DEF Spec

-----------------------------------------------------------------------------
(***************************************************************************)
(* An entry of the queue, the entries of a chunk, and what the arena is to *)
(* the entries R it holds: live counts them, they do not overlap, the ones *)
(* of the chunk being filled lie below the fill, and a chunk on its way    *)
(* back to the kernel holds none.                                          *)
(***************************************************************************)
Entries == [id : Nat, size : Nat \ {0}, chunk : Chunks \cup {NoChunk},
            offset : Nat]

Apart(e, g) ==
  e.chunk # NoChunk /\ g.chunk = e.chunk =>
    e.offset + e.size <= g.offset \/ g.offset + g.size <= e.offset

Fits(a, e) ==
  e.chunk # NoChunk =>
    /\ e.offset + e.size <= ChunkBytes
    /\ e.chunk = a.current => e.offset + e.size <= a.fill

Holds(a, R) ==
  /\ a \in Arenas
  /\ \A c \in Chunks : a.live[c] = Cardinality(InChunk(R, c))
  /\ \A c \in a.reclaiming : c # a.current /\ a.live[c] = 0
  /\ \A e \in R : Fits(a, e)
  /\ \A e \in R : \A g \in R \ {e} : Apart(e, g)

(* Queue and batch share nothing, and every entry was given its id.        *)
Queues ==
  /\ IsFiniteSet(queue) /\ IsFiniteSet(batch) /\ queue \cap batch = {}
  /\ \A e \in Records : e \in Entries /\ e.id < next

(* A batch is with the writer until it is given up entry by entry, and the *)
(* writer closes only a queue that is empty.                               *)
Batched ==
  /\ batch # {} => writer \in {"batch", "drain", "written", "release", "reclaim"}
  /\ writer = "written" => batch # {}
  /\ writer \in {"finalize", "closed", "exited"} => queue = {}

(***************************************************************************)
(* Where a frame not yet written or dropped is: queued, unless an inline   *)
(* finalizer has counted the queue, or of the batch, until that has been   *)
(* counted; the frame just written is still in the batch at "written".     *)
(***************************************************************************)
Queued == IF inline THEN 0 ELSE Cardinality(queue)

InHand ==
  writer \in {"batch", "drain"} \/ (writer = "reclaim" /\ back = "drain")

OfBatch ==
  IF InHand THEN Cardinality(batch)
  ELSE IF writer = "written" THEN Cardinality(batch) - 1 ELSE 0

Accounted == next = written + dropped + Queued + OfBatch

(* A chunk on its way to the kernel is in one thread's hands.              *)
ClaimHeld ==
  /\ claim \in Chunks \cup {NoChunk} /\ arena.reclaiming = {claim} \ {NoChunk}
  /\ claim # NoChunk =>
       writer = "reclaim" \/ \E s \in Stoppers : stopper[s] = "reclaim"

(* What a frame is counted in, and where its sender is.                    *)
FrameTypes ==
  /\ sender \in [Senders -> {"idle", "waiting", "woken", "notify"}]
  /\ len \in [Senders -> 0 .. MaxSize]
  /\ next \in Nat /\ written \in Nat /\ dropped \in Nat

(***************************************************************************)
(* The frames are kept, given who runs (IInv).  Who sleeps is told by the  *)
(* chunk in flight, so the two cannot be shown apart: a sender asleep      *)
(* means a reclaim, and the thread in it is the one that ends the sleep.   *)
(***************************************************************************)
KeptInv ==
  /\ FrameTypes /\ Queues /\ Holds(arena, Records) /\ Batched /\ Accounted
  /\ ClaimHeld /\ SleepersAreWoken

(* No chunk is chunk -1.                                                   *)
LEMMA ArenaShape ==
  /\ ChunkBytes \in Nat \ {0} /\ Chunks \subseteq Nat /\ NoChunk = -1
  /\ NoChunk \notin Chunks
BY ArenaAssumption DEF Chunks, NoChunk

(* The room a record is given: what is left of the current chunk, or a     *)
(* chunk that is free.                                                     *)
LEMMA RoomChosen ==
  ASSUME NEW a \in Arenas, NEW size \in Nat, NEW c, c = ChooseChunk(a, size),
         c # NoChunk
  PROVE  /\ size # 0 /\ size <= ChunkBytes /\ c \in Chunks
         /\ \/ c = a.current /\ size <= ChunkBytes - a.fill
            \/ IsFree(a, c)
<1>1. size # 0 /\ size <= ChunkBytes
  BY ArenaShape DEF ChooseChunk
<1>2. CASE a.current # NoChunk /\ size <= ChunkBytes - a.fill
  <2>1. c = a.current
    BY <1>1, <1>2, ArenaShape DEF ChooseChunk
  <2> QED BY <1>1, <1>2, <2>1 DEF Arenas
<1>3. CASE ~(a.current # NoChunk /\ size <= ChunkBytes - a.fill)
  <2>1. c = LowestFreeChunk(a)
    BY <1>1, <1>3, ArenaShape DEF ChooseChunk
  <2> DEFINE F == {d \in Chunks : IsFree(a, d)}
  <2>2. F # {} /\ F \in SUBSET Nat
    BY <2>1, ArenaShape DEF LowestFreeChunk
  <2>3. \E m \in F : \A k \in F : m <= k
    BY <2>2, LeastNat
  <2>4. c \in Chunks /\ IsFree(a, c)
    BY <2>1, <2>2, <2>3 DEF LowestFreeChunk
  <2> QED BY <1>1, <2>4
<1> QED BY <1>2, <1>3

(* The entries of each chunk, one entry more or less.                      *)
LEMMA InAdd ==
  ASSUME NEW R, IsFiniteSet(R), NEW e, e \notin R, NEW c
  PROVE  /\ IsFiniteSet(InChunk(R, c)) /\ Cardinality(InChunk(R, c)) \in Nat
         /\ Cardinality(InChunk(R \cup {e}, c)) =
              IF e.chunk = c THEN Cardinality(InChunk(R, c)) + 1
              ELSE Cardinality(InChunk(R, c))
<1>1. IsFiniteSet(InChunk(R, c))
  BY FS_Subset DEF InChunk
<1>2. Cardinality(InChunk(R, c)) \in Nat
  BY <1>1, FS_CardinalityType
<1>3. CASE e.chunk = c
  <2>1. InChunk(R \cup {e}, c) = InChunk(R, c) \cup {e} /\ e \notin InChunk(R, c)
    BY <1>3 DEF InChunk
  <2> QED BY <1>1, <1>2, <1>3, <2>1, FS_AddElement
<1>4. CASE e.chunk # c
  <2>1. InChunk(R \cup {e}, c) = InChunk(R, c)
    BY <1>4 DEF InChunk
  <2> QED BY <1>1, <1>2, <1>4, <2>1
<1> QED BY <1>3, <1>4

(* The same, of an entry taken out.                                        *)
LEMMA InRemove ==
  ASSUME NEW R, IsFiniteSet(R), NEW e \in R, NEW c
  PROVE  /\ Cardinality(InChunk(R, c)) \in Nat
         /\ Cardinality(InChunk(R \ {e}, c)) =
              IF e.chunk = c THEN Cardinality(InChunk(R, c)) - 1
              ELSE Cardinality(InChunk(R, c))
<1> DEFINE S == R \ {e}
<1>0. e \notin S /\ S \cup {e} = R
  OBVIOUS
<1>1. IsFiniteSet(S)
  BY FS_RemoveElement
<1> HIDE DEF S
<1>2. /\ Cardinality(InChunk(S, c)) \in Nat
      /\ Cardinality(InChunk(S \cup {e}, c)) =
           IF e.chunk = c THEN Cardinality(InChunk(S, c)) + 1
           ELSE Cardinality(InChunk(S, c))
  BY <1>0, <1>1, InAdd DEF S
<1>3. Cardinality(InChunk(R, c)) = IF e.chunk = c THEN Cardinality(InChunk(S, c)) + 1
                              ELSE Cardinality(InChunk(S, c))
  BY <1>0, <1>2
<1>4. /\ Cardinality(InChunk(R, c)) \in Nat
      /\ Cardinality(InChunk(S, c)) = IF e.chunk = c THEN Cardinality(InChunk(R, c)) - 1
                                 ELSE Cardinality(InChunk(R, c))
  BY <1>2, <1>3
<1> QED BY <1>4 DEF S

(* A chunk none is in holds none.                                          *)
LEMMA InNone ==
  ASSUME NEW R, IsFiniteSet(R), NEW c, Cardinality(InChunk(R, c)) = 0
  PROVE  \A e \in R : e.chunk # c
<1>1. IsFiniteSet(InChunk(R, c))
  BY FS_Subset DEF InChunk
<1>2. InChunk(R, c) = {}
  BY <1>1, FS_EmptySet
<1> QED BY <1>2 DEF InChunk

(* The entries of a chunk, without some of them.                           *)
LEMMA InSplit ==
  ASSUME NEW R, IsFiniteSet(R), NEW X \in SUBSET R, NEW c
  PROVE  /\ Cardinality(InChunk(R, c)) \in Nat /\ Cardinality(InChunk(X, c)) \in Nat
         /\ Cardinality(InChunk(R \ X, c))
              = Cardinality(InChunk(R, c)) - Cardinality(InChunk(X, c))
         /\ Cardinality(InChunk(R \ X, c)) \in Nat
<1>1. IsFiniteSet(InChunk(R, c)) /\ InChunk(X, c) \subseteq InChunk(R, c)
  BY FS_Subset DEF InChunk
<1>2. IsFiniteSet(InChunk(X, c)) /\ IsFiniteSet(InChunk(R \ X, c))
  BY <1>1, FS_Subset DEF InChunk
<1>3. /\ InChunk(R, c) \ InChunk(X, c) = InChunk(R \ X, c)
      /\ InChunk(R, c) \cap InChunk(X, c) = InChunk(X, c)
  BY DEF InChunk
<1>4. Cardinality(InChunk(R, c) \ InChunk(X, c))
        = Cardinality(InChunk(R, c)) - Cardinality(InChunk(R, c) \cap InChunk(X, c))
  BY <1>1, FS_Difference
<1> QED BY <1>1, <1>2, <1>3, <1>4, FS_CardinalityType

(***************************************************************************)
(* A record put where the arena places it overlaps none of the others, and *)
(* no chunk on its way to the kernel is chosen (Put, LowestFreeChunk).     *)
(***************************************************************************)
LEMMA PutHolds ==
  ASSUME NEW a, NEW R, IsFiniteSet(R), R \subseteq Entries, Holds(a, R),
         NEW e \in Entries, e \notin R,
         e.chunk = Place(a, e.size).chunk, e.offset = Place(a, e.size).offset
  PROVE  Holds(Put(a, e.size), R \cup {e}) /\ Put(a, e.size).reclaiming = a.reclaiming
<1> DEFINE c == ChooseChunk(a, e.size)
           b == Put(a, e.size)
<1>0. a \in Arenas /\ e.size \in Nat \ {0} /\ e.offset \in Nat
  BY DEF Holds, Entries
<1>f. /\ a.live \in [Chunks -> Nat] /\ a.reclaiming \subseteq Chunks
      /\ a.current \in Chunks \cup {NoChunk} /\ a.fill \in 0 .. ChunkBytes
  BY <1>0 DEF Arenas
<1>1. CASE c = NoChunk
  <2>1. e.chunk = NoChunk /\ b = a
    BY <1>1 DEF Place, Put, NoPlace
  <2>2. \A d \in Chunks : Cardinality(InChunk(R \cup {e}, d)) = Cardinality(InChunk(R, d))
    BY <2>1, InAdd, ArenaShape
  <2>3. \A g \in R \cup {e} : Fits(a, g)
    BY <2>1 DEF Holds, Fits
  <2>4. \A g \in R \cup {e} : \A h \in (R \cup {e}) \ {g} : Apart(g, h)
    BY <2>1 DEF Holds, Apart
  <2> QED BY <2>1, <2>2, <2>3, <2>4 DEF Holds
<1>2. CASE c # NoChunk
  <2>1. /\ c \in Chunks /\ e.size <= ChunkBytes
        /\ \/ c = a.current /\ e.size <= ChunkBytes - a.fill
           \/ IsFree(a, c)
    BY <1>0, <1>2, RoomChosen
  <2>2. e.chunk = c /\ e.offset = IF c = a.current THEN a.fill ELSE 0
    BY <1>2 DEF Place
  <2>3. Place(a, e.size) # NoPlace
    BY <1>2 DEF Place, NoPlace
  <2>4. b = [a EXCEPT !.live[c] = @ + 1, !.current = c, !.fill = e.offset + e.size]
    BY <1>2, <2>2, <2>3 DEF Put, Place
  <2> HIDE DEF b, c
  <2>5. /\ b \in Arenas /\ b.reclaiming = a.reclaiming /\ b.current = c
        /\ b.fill = e.offset + e.size /\ b.fill <= ChunkBytes
        /\ b.live = [a.live EXCEPT ![c] = @ + 1]
    <3>1. e.offset + e.size \in 0 .. ChunkBytes
      <4>1. CASE c = a.current
        <5>1. e.offset = a.fill /\ e.size <= ChunkBytes - a.fill
          BY <2>1, <2>2, <4>1 DEF IsFree
        <5> HIDE DEF c
        <5> QED BY <1>0, <1>f, <5>1, ArenaShape
      <4>2. CASE c # a.current
        <5>1. e.offset = 0
          BY <2>2, <4>2
        <5> QED BY <1>0, <2>1, <5>1, ArenaShape
      <4> QED BY <4>1, <4>2
    <3>2. [a.live EXCEPT ![c] = @ + 1] \in [Chunks -> Nat]
      BY <1>f, <2>1
    <3>3. b = [live |-> [a.live EXCEPT ![c] = @ + 1], reclaiming |-> a.reclaiming,
               current |-> c, fill |-> e.offset + e.size]
      BY <1>0, <2>4 DEF Arenas
    <3> HIDE DEF b
    <3> QED BY <1>f, <2>1, <3>1, <3>2, <3>3 DEF Arenas
  <2>6. \A d \in Chunks : b.live[d] = Cardinality(InChunk(R \cup {e}, d))
    <3> SUFFICES ASSUME NEW d \in Chunks PROVE b.live[d] = Cardinality(InChunk(R \cup {e}, d))
      OBVIOUS
    <3>1. a.live[d] = Cardinality(InChunk(R, d))
      BY DEF Holds
    <3>2. Cardinality(InChunk(R \cup {e}, d)) =
            IF e.chunk = d THEN Cardinality(InChunk(R, d)) + 1 ELSE Cardinality(InChunk(R, d))
      BY InAdd
    <3>3. b.live[d] = IF c = d THEN a.live[d] + 1 ELSE a.live[d]
      BY <1>f, <2>1, <2>5
    <3> QED BY <2>2, <3>1, <3>2, <3>3
  <2>7. \A d \in b.reclaiming : d # b.current /\ b.live[d] = 0
    <3>1. \A d \in a.reclaiming : d # a.current /\ a.live[d] = 0
      BY DEF Holds
    <3>2. c \notin a.reclaiming
      BY <2>1, <3>1 DEF IsFree
    <3> QED BY <1>f, <2>1, <2>5, <3>1, <3>2
  <2>8. \A g \in R : g.chunk = c => c = a.current /\ g.offset + g.size <= a.fill
    <3> SUFFICES ASSUME NEW g \in R, g.chunk = c
                 PROVE  c = a.current /\ g.offset + g.size <= a.fill
      OBVIOUS
    <3>1. ~IsFree(a, c)
      <4>1. a.live[c] = Cardinality(InChunk(R, c))
        BY <2>1 DEF Holds
      <4> QED BY <4>1, InNone DEF IsFree
    <3>2. c = a.current
      BY <2>1, <3>1
    <3>3. Fits(a, g)
      BY DEF Holds
    <3> QED BY <1>2, <3>2, <3>3 DEF Fits, c
  <2>n. /\ \A g \in R : g.offset \in Nat /\ g.size \in Nat
        /\ e.offset \in Nat /\ e.size \in Nat /\ b.fill \in Nat
    <3>1. \A g \in Entries : g.offset \in Nat /\ g.size \in Nat
      BY DEF Entries
    <3>2. \A g \in R : g.offset \in Nat /\ g.size \in Nat
      BY <3>1
    <3>3. b.fill \in Nat
      <4>1. b.fill \in 0 .. ChunkBytes
        BY <2>5 DEF Arenas
      <4> QED BY <4>1, ArenaShape
    <3> QED BY <3>1, <3>2, <3>3
  <2>9. \A g \in R \cup {e} : Fits(b, g)
    <3>1. Fits(b, e)
      <4>1. b.fill <= ChunkBytes /\ e.offset + e.size = b.fill
        BY <2>5
      <4>2. e.offset + e.size <= b.fill
        BY <2>n, <4>1
      <4>3. e.offset + e.size <= ChunkBytes
        BY <4>1
      <4> QED BY <4>2, <4>3 DEF Fits
    <3>2. ASSUME NEW g \in R PROVE Fits(b, g)
      <4>1. Fits(a, g)
        BY DEF Holds
      <4>2. g.chunk = c => g.offset + g.size <= b.fill
        BY <1>f, <2>2, <2>5, <2>8, <2>n
      <4> QED BY <2>5, <4>1, <4>2 DEF Fits
    <3> QED BY <3>1, <3>2
  <2>10. \A g \in R \cup {e} : \A h \in (R \cup {e}) \ {g} : Apart(g, h)
    <3>1. \A g \in R : Apart(g, e) /\ Apart(e, g)
      BY <2>2, <2>8 DEF Apart
    <3>2. \A g \in R : \A h \in R \ {g} : Apart(g, h)
      BY DEF Holds
    <3> QED BY <3>1, <3>2
  <2> QED BY <2>5, <2>6, <2>7, <2>9, <2>10 DEF Holds, b
<1> QED BY <1>1, <1>2

(* What an arena holds, some of it taken away.                             *)
LEMMA HoldsFewer ==
  ASSUME NEW a, NEW R, IsFiniteSet(R), R \subseteq Entries, Holds(a, R),
         NEW b \in Arenas, NEW Q \in SUBSET R,
         \A c \in Chunks : b.live[c] = Cardinality(InChunk(Q, c)),
         \A c \in b.reclaiming : c # b.current /\ b.live[c] = 0,
         b.current \in {a.current, NoChunk},
         b.fill = a.fill \/ (b.fill = 0 /\ \A e \in Q : e.chunk # b.current)
                         \/ b.current = NoChunk
  PROVE  Holds(b, Q)
<1>1. ASSUME NEW e \in Q PROVE Fits(b, e)
  <2>1. Fits(a, e)
    BY DEF Holds
  <2> QED BY <2>1 DEF Fits
<1>2. \A e \in Q : \A g \in Q \ {e} : Apart(e, g)
  BY DEF Holds
<1> QED BY <1>1, <1>2 DEF Holds

(***************************************************************************)
(* Freeing a record keeps the others intact.  When it was the last of its  *)
(* chunk and the chunk is handed back, it is no longer the one being       *)
(* filled (Free).                                                          *)
(***************************************************************************)
LEMMA FreeHolds ==
  ASSUME NEW a, NEW R, IsFiniteSet(R), R \subseteq Entries, Holds(a, R),
         NEW e \in R, e.chunk # NoChunk
  PROVE  /\ Holds(Free(a, e.chunk), R \ {e})
         /\ Claimed(a, e.chunk) \in {e.chunk, NoChunk}
         /\ Free(a, e.chunk).reclaiming =
              a.reclaiming \cup ({Claimed(a, e.chunk)} \ {NoChunk})
<1> DEFINE c == e.chunk
           b == Free(a, c)
           Q == R \ {e}
<1>0. a \in Arenas /\ c \in Chunks /\ c # NoChunk
  BY DEF Holds, Entries
<1>f. /\ a.live \in [Chunks -> Nat] /\ a.reclaiming \subseteq Chunks
      /\ a.current \in Chunks \cup {NoChunk} /\ a.fill \in 0 .. ChunkBytes
  BY <1>0 DEF Arenas
<1>1. \A d \in Chunks : /\ a.live[d] = Cardinality(InChunk(R, d))
                        /\ Cardinality(InChunk(Q, d)) =
                             IF c = d THEN a.live[d] - 1 ELSE a.live[d]
  <2>1. \A d \in Chunks : a.live[d] = Cardinality(InChunk(R, d))
    BY DEF Holds
  <2>2. \A d : Cardinality(InChunk(Q, d)) = IF c = d THEN Cardinality(InChunk(R, d)) - 1
                                       ELSE Cardinality(InChunk(R, d))
    BY InRemove
  <2> QED BY <2>1, <2>2
<1>2. IsFiniteSet(Q) /\ Q \in SUBSET R
  BY FS_Subset
<1>3. \A d \in Chunks : Cardinality(InChunk(Q, d)) \in Nat
  BY <1>2, InSplit
<1> HIDE DEF c, Q
<1>4. b = [live |-> [a.live EXCEPT ![c] = @ - 1],
           reclaiming |-> IF Claimed(a, c) = NoChunk THEN a.reclaiming
                          ELSE a.reclaiming \cup {c},
           current |-> IF a.live[c] = 1 /\ c = a.current /\ ~KeepsCurrent(c)
                       THEN NoChunk ELSE a.current,
           fill |-> IF a.live[c] = 1 /\ c = a.current THEN 0 ELSE a.fill]
  BY Zenon DEF Free
<1> HIDE DEF b
<1>5. Claimed(a, c) \in {c, NoChunk}
  BY DEF Claimed
<1>6. \A d \in Chunks : b.live[d] = Cardinality(InChunk(Q, d))
  <2>1. b.live = [a.live EXCEPT ![c] = @ - 1]
    BY <1>4
  <2>2. \A d \in Chunks : b.live[d] = IF c = d THEN a.live[d] - 1 ELSE a.live[d]
    BY <1>0, <1>f, <2>1
  <2> QED BY <1>1, <2>2
<1>7. b.live \in [Chunks -> Nat]
  <2>1. b.live = [a.live EXCEPT ![c] = @ - 1]
    BY <1>4
  <2>2. DOMAIN b.live = Chunks /\ b.live = [d \in Chunks |-> b.live[d]]
    BY <1>f, <2>1
  <2>3. \A d \in Chunks : b.live[d] \in Nat
    BY <1>3, <1>6
  <2> QED BY <2>2, <2>3
<1>8. b.reclaiming = a.reclaiming \cup ({Claimed(a, c)} \ {NoChunk})
  BY <1>0, <1>4, <1>5
<1>9. /\ b.current = IF a.live[c] = 1 /\ c = a.current /\ ~KeepsCurrent(c)
                     THEN NoChunk ELSE a.current
      /\ b.fill = IF a.live[c] = 1 /\ c = a.current THEN 0 ELSE a.fill
  BY <1>4
<1>10. b \in Arenas
  <2>1. b.reclaiming \subseteq Chunks /\ b.current \in Chunks \cup {NoChunk}
    BY <1>0, <1>f, <1>5, <1>8, <1>9
  <2>2. b.fill \in 0 .. ChunkBytes
    BY <1>f, <1>9, ArenaShape
  <2>3. b = [live |-> b.live, reclaiming |-> b.reclaiming, current |-> b.current,
             fill |-> b.fill]
    BY <1>4
  <2> QED BY <1>7, <2>1, <2>2, <2>3 DEF Arenas
<1>11. \A d \in b.reclaiming : d # b.current /\ b.live[d] = 0
  <2>1. ASSUME NEW d \in a.reclaiming PROVE d # b.current /\ b.live[d] = 0
    <3>1. d # a.current /\ a.live[d] = 0 /\ d \in Chunks
      BY <1>f DEF Holds
    <3>2. c # d
      <4>1. Cardinality(InChunk(R, d)) = 0
        BY <1>1, <3>1
      <4> QED BY <4>1, InNone DEF c
    <3>3. b.live[d] = 0
      BY <1>1, <1>6, <3>1, <3>2
    <3>4. d # NoChunk
      BY <3>1, ArenaShape
    <3> QED BY <1>9, <3>1, <3>3, <3>4
  <2>2. ASSUME Claimed(a, c) = c PROVE c # b.current /\ b.live[c] = 0
    <3>1. a.live[c] = 1 /\ c >= ResidentChunks
      BY <1>0, <2>2 DEF Claimed
    <3>2. ~KeepsCurrent(c)
      BY <1>0, <3>1, ArenaShape, ArenaAssumption DEF KeepsCurrent
    <3>3. b.live[c] = 0
      BY <1>0, <1>1, <1>6, <3>1
    <3> QED BY <1>0, <1>9, <3>1, <3>2, <3>3
  <2> QED BY <1>5, <1>8, <2>1, <2>2
<1>12. Holds(b, Q)
  <2>1. b.current \in {a.current, NoChunk}
    BY <1>9
  <2>2. CASE a.live[c] = 1 /\ c = a.current
    <3>1. Cardinality(InChunk(Q, c)) = 0
      BY <1>0, <1>1, <2>2
    <3>2. \A g \in Q : g.chunk # c
      BY <1>2, <3>1, InNone
    <3>3. b.fill = 0 /\ b.current \in {c, NoChunk}
      BY <1>9, <2>2
    <3>4. (b.fill = 0 /\ \A g \in Q : g.chunk # b.current) \/ b.current = NoChunk
      BY <3>2, <3>3
    <3> QED BY <1>2, <1>6, <1>10, <1>11, <2>1, <3>4, HoldsFewer
  <2>3. CASE ~(a.live[c] = 1 /\ c = a.current)
    <3>1. b.fill = a.fill
      BY <1>9, <2>3
    <3> QED BY <1>2, <1>6, <1>10, <1>11, <2>1, <3>1, HoldsFewer
  <2> QED BY <2>2, <2>3
<1> QED BY <1>5, <1>8, <1>12 DEF b, c, Q

(***************************************************************************)
(* The destructors of evicted entries keep the others intact, and hand     *)
(* back what they empty without anyone else's hand on it (Record::Reset).  *)
(***************************************************************************)
LEMMA ResetHolds ==
  ASSUME NEW a, NEW R, IsFiniteSet(R), R \subseteq Entries, Holds(a, R),
         NEW X \in SUBSET R
  PROVE  Holds(Reset(a, X), R \ X) /\ Reset(a, X).reclaiming = a.reclaiming
<1> DEFINE b == Reset(a, X)
           Q == R \ X
           gone == /\ a.current # NoChunk /\ InChunk(X, a.current) # {}
                   /\ a.live[a.current] - Cardinality(InChunk(X, a.current)) = 0
           live == [d \in Chunks |-> a.live[d] - Cardinality(InChunk(X, d))]
           lost == /\ a.current # NoChunk /\ InChunk(X, a.current) # {}
                   /\ live[a.current] = 0
<1>0. a \in Arenas
  BY DEF Holds
<1>f. /\ a.live \in [Chunks -> Nat] /\ a.reclaiming \subseteq Chunks
      /\ a.current \in Chunks \cup {NoChunk} /\ a.fill \in 0 .. ChunkBytes
  BY <1>0 DEF Arenas
<1>1. \A d \in Chunks :
        /\ a.live[d] = Cardinality(InChunk(R, d))
        /\ Cardinality(InChunk(Q, d)) = a.live[d] - Cardinality(InChunk(X, d))
        /\ Cardinality(InChunk(Q, d)) \in Nat
  <2> SUFFICES ASSUME NEW d \in Chunks
      PROVE  /\ a.live[d] = Cardinality(InChunk(R, d))
             /\ Cardinality(InChunk(Q, d)) = a.live[d] - Cardinality(InChunk(X, d))
             /\ Cardinality(InChunk(Q, d)) \in Nat
    OBVIOUS
  <2>1. a.live[d] = Cardinality(InChunk(R, d))
    BY DEF Holds
  <2>2. /\ Cardinality(InChunk(Q, d))
             = Cardinality(InChunk(R, d)) - Cardinality(InChunk(X, d))
        /\ Cardinality(InChunk(Q, d)) \in Nat
    BY InSplit
  <2> QED BY <2>1, <2>2
<1>2. IsFiniteSet(Q) /\ Q \in SUBSET R
  BY FS_Subset
<1>r. b = [live |-> live, reclaiming |-> a.reclaiming,
           current |-> IF lost /\ ~KeepsCurrent(a.current) THEN NoChunk
                       ELSE a.current,
           fill |-> IF lost THEN 0 ELSE a.fill]
  BY Zenon DEF Reset
<1> HIDE DEF b, live, lost
<1>q. /\ b.live = live /\ b.reclaiming = a.reclaiming
      /\ b.current = IF lost /\ ~KeepsCurrent(a.current) THEN NoChunk
                     ELSE a.current
      /\ b.fill = IF lost THEN 0 ELSE a.fill
      /\ b = [live |-> b.live, reclaiming |-> b.reclaiming,
              current |-> b.current, fill |-> b.fill]
  BY <1>r
<1>3. /\ b.live = [d \in Chunks |-> a.live[d] - Cardinality(InChunk(X, d))]
      /\ b.reclaiming = a.reclaiming
      /\ b = [live |-> b.live, reclaiming |-> b.reclaiming,
              current |-> b.current, fill |-> b.fill]
  BY <1>q DEF live
<1>4. lost <=> gone
  <2>1. a.current # NoChunk =>
          live[a.current] = a.live[a.current] - Cardinality(InChunk(X, a.current))
    BY <1>f DEF live
  <2> QED BY <2>1 DEF lost
<1>5. /\ b.current = IF gone /\ ~KeepsCurrent(a.current) THEN NoChunk ELSE a.current
      /\ b.fill = IF gone THEN 0 ELSE a.fill
  BY <1>q, <1>4
<1> HIDE DEF Q
<1>6. \A d \in Chunks : b.live[d] = Cardinality(InChunk(Q, d))
  BY <1>1, <1>3
<1>7. b \in Arenas
  <2>1. b.live \in [Chunks -> Nat]
    BY <1>1, <1>3
  <2>2. b.current \in Chunks \cup {NoChunk} /\ b.reclaiming \subseteq Chunks
    BY <1>f, <1>3, <1>5
  <2>3. b.fill \in 0 .. ChunkBytes
    BY <1>f, <1>5, ArenaShape
  <2> QED BY <1>3, <2>1, <2>2, <2>3 DEF Arenas
<1>8. \A d \in b.reclaiming : d # b.current /\ b.live[d] = 0
  <2> SUFFICES ASSUME NEW d \in a.reclaiming PROVE d # b.current /\ b.live[d] = 0
    BY <1>3
  <2>1. d # a.current /\ a.live[d] = 0 /\ d \in Chunks /\ d # NoChunk
    BY <1>f, ArenaShape DEF Holds
  <2>2. Cardinality(InChunk(X, d)) \in Nat
    BY InSplit
  <2>3. b.live[d] = 0
    BY <1>1, <1>6, <2>1, <2>2
  <2> QED BY <1>5, <2>1, <2>3
<1>9. Holds(b, Q)
  <2>1. b.current \in {a.current, NoChunk}
    BY <1>5
  <2>2. CASE gone
    <3>1. a.current \in Chunks
      BY <1>f, <2>2
    <3>2. Cardinality(InChunk(Q, a.current)) = 0
      BY <1>1, <2>2, <3>1
    <3>3. \A g \in Q : g.chunk # a.current
      BY <1>2, <3>2, InNone
    <3>4. b.fill = 0
      BY <1>5, <2>2
    <3> HIDE DEF gone
    <3>5. (b.fill = 0 /\ \A g \in Q : g.chunk # b.current) \/ b.current = NoChunk
      BY <2>1, <3>3, <3>4
    <3> QED BY <1>2, <1>6, <1>7, <1>8, <2>1, <3>5, HoldsFewer
  <2>3. CASE ~gone
    <3>1. b.fill = a.fill
      BY <1>5, <2>3
    <3> QED BY <1>2, <1>6, <1>7, <1>8, <2>1, <3>1, HoldsFewer
  <2> QED BY <2>2, <2>3
<1> QED BY <1>3, <1>9 DEF b, Q

(* Where there is room, or a free chunk, a record can be put.              *)
LEMMA RoomFound ==
  ASSUME NEW a \in Arenas, NEW size \in 1 .. ChunkBytes,
         \/ a.current # NoChunk /\ size <= ChunkBytes - a.fill
         \/ \E c \in Chunks : IsFree(a, c)
  PROVE  CanPut(a, size)
<1>1. size # 0 /\ size <= ChunkBytes
  BY ArenaShape
<1>2. CASE a.current # NoChunk /\ size <= ChunkBytes - a.fill
  BY <1>1, <1>2, ArenaShape DEF CanPut, ChooseChunk
<1>3. CASE ~(a.current # NoChunk /\ size <= ChunkBytes - a.fill)
  <2>1. ChooseChunk(a, size) = LowestFreeChunk(a)
    BY <1>1, <1>3, ArenaShape DEF ChooseChunk
  <2> DEFINE F == {d \in Chunks : IsFree(a, d)}
  <2>2. F # {} /\ F \in SUBSET Nat
    BY <1>3, ArenaShape
  <2>3. \E m \in F : \A k \in F : m <= k
    BY <2>2, LeastNat
  <2>4. LowestFreeChunk(a) \in Chunks
    BY <2>2, <2>3 DEF LowestFreeChunk
  <2> QED BY <2>1, <2>4, ArenaShape DEF CanPut
<1> QED BY <1>2, <1>3

(* A record's place is in the arena, or nowhere.                           *)
LEMMA PlaceTyped ==
  ASSUME NEW a \in Arenas, NEW size \in Nat
  PROVE  /\ Place(a, size).chunk \in Chunks \cup {NoChunk}
         /\ Place(a, size).offset \in Nat
<1> DEFINE c == ChooseChunk(a, size)
<1>1. CASE c = NoChunk
  BY <1>1 DEF Place, NoPlace
<1>2. CASE c # NoChunk
  <2>1. c \in Chunks
    BY <1>2, RoomChosen
  <2>2. a.fill \in Nat
    BY ArenaShape DEF Arenas
  <2>3. Place(a, size) = [chunk |-> c, offset |-> IF c = a.current THEN a.fill ELSE 0]
    BY <1>2 DEF Place
  <2> HIDE DEF c
  <2> QED BY <2>1, <2>2, <2>3
<1> QED BY <1>1, <1>2

(***************************************************************************)
(* A record put in makes no room for another: who had none still has none  *)
(* (CanPut, in the wait of Send).                                          *)
(***************************************************************************)
LEMMA PutMakesNoRoom ==
  ASSUME NEW a \in Arenas, NEW size \in Nat, Put(a, size) \in Arenas,
         NEW l \in Nat, ~CanPut(a, l)
  PROVE  ~CanPut(Put(a, size), l)
<1> DEFINE b == Put(a, size)
           c == ChooseChunk(a, size)
           d == ChooseChunk(b, l)
<1>1. SUFFICES ASSUME d # NoChunk PROVE FALSE
  BY DEF CanPut
<1>f. /\ a.live \in [Chunks -> Nat] /\ a.fill \in 0 .. ChunkBytes
      /\ a.current \in Chunks \cup {NoChunk}
  BY DEF Arenas
<1>2. /\ l # 0 /\ l <= ChunkBytes /\ d \in Chunks
      /\ (d = b.current /\ l <= ChunkBytes - b.fill) \/ IsFree(b, d)
  BY <1>1, RoomChosen
<1>3. /\ ~(a.current # NoChunk /\ l <= ChunkBytes - a.fill)
      /\ \A k \in Chunks : ~IsFree(a, k)
  <2>1. l \in 1 .. ChunkBytes
    BY <1>2, ArenaShape
  <2> QED BY <2>1, RoomFound
<1>4. CASE c = NoChunk
  <2>1. b = a
    BY <1>4 DEF Put, Place, NoPlace
  <2> QED BY <1>1, <1>4, <2>1 DEF CanPut
<1>5. CASE c # NoChunk
  <2>1. c \in Chunks /\ c = a.current /\ size <= ChunkBytes - a.fill /\ c # NoChunk
    BY <1>3, <1>5, RoomChosen
  <2>2. Place(a, size) = [chunk |-> c, offset |-> a.fill]
    BY <1>5, <2>1 DEF Place
  <2> HIDE DEF c
  <2>3. Place(a, size) # NoPlace
    BY <2>1, <2>2 DEF NoPlace
  <2>4. b = [a EXCEPT !.live[c] = @ + 1, !.current = c, !.fill = a.fill + size]
    BY <2>2, <2>3 DEF Put
  <2> HIDE DEF b
  <2>5. /\ b.live = [a.live EXCEPT ![c] = @ + 1] /\ b.current = c
        /\ b.fill = a.fill + size /\ b.reclaiming = a.reclaiming
    BY <2>4 DEF Arenas
  <2>6. CASE d = b.current /\ l <= ChunkBytes - b.fill
    <3>1. l <= ChunkBytes - a.fill
      BY <1>f, <2>5, <2>6, ArenaShape
    <3> QED BY <1>3, <2>1, <3>1
  <2>7. CASE IsFree(b, d)
    <3>1. d # c /\ b.live[d] = 0 /\ d \notin a.reclaiming
      BY <2>5, <2>7 DEF IsFree
    <3>2. a.live[d] = 0
      BY <1>2, <1>f, <2>1, <2>5, <3>1
    <3>3. IsFree(a, d)
      BY <2>1, <3>1, <3>2 DEF IsFree
    <3> QED BY <1>2, <1>3, <3>3
  <2> QED BY <1>2, <2>6, <2>7
<1> QED BY <1>4, <1>5

(* The deque has a front.                                                  *)
LEMMA FrontIn ==
  ASSUME NEW Q, Q # {}, \A e \in Q : e.id \in Nat
  PROVE  (CHOOSE g \in Q : g \in Front(Q)) \in Q
<1> DEFINE T == {e.id : e \in Q}
<1>1. T \in SUBSET Nat /\ T # {}
  OBVIOUS
<1>2. PICK m \in T : \A k \in T : m <= k
  <2> HIDE DEF T
  <2> QED BY <1>1, LeastNat
<1>3. PICK e \in Q : e.id = m
  BY <1>2
<1>4. e \in Front(Q)
  BY <1>2, <1>3 DEF Front
<1> QED BY <1>3, <1>4

(* The front entry of the queue or of the batch is freed.                  *)
LEMMA ReleasedHolds ==
  ASSUME Queues, Holds(arena, Records), NEW Q \in SUBSET Records, Q # {}
  PROVE  \E e \in Q :
           /\ Released(Q).rest = Q \ {e}
           /\ Released(Q).claim \in Chunks \cup {NoChunk}
           /\ Holds(Released(Q).arena, Records \ {e})
           /\ Released(Q).arena.reclaiming =
                arena.reclaiming \cup ({Released(Q).claim} \ {NoChunk})
<1> DEFINE e == CHOOSE g \in Q : g \in Front(Q)
           r == Released(Q)
<1>1. \A g \in Records : g \in Entries /\ g.id \in Nat
  BY DEF Queues, Entries
<1>2. e \in Q
  BY <1>1, FrontIn
<1>3. r = [rest |-> Q \ {e}, size |-> e.size,
           claim |-> IF e.chunk = NoChunk THEN NoChunk ELSE Claimed(arena, e.chunk),
           arena |-> IF e.chunk = NoChunk THEN arena ELSE Free(arena, e.chunk)]
  BY DEF Released
<1>4. IsFiniteSet(Records) /\ Records \subseteq Entries
  BY <1>1, FS_Union DEF Records, Queues
<1> HIDE DEF e, r
<1>5. CASE e.chunk = NoChunk
  <2>1. r.rest = Q \ {e} /\ r.claim = NoChunk /\ r.arena = arena
    BY <1>3, <1>5
  <2>2. Holds(arena, Records \ {e})
    <3>1. \A c \in Chunks : InChunk(Records \ {e}, c) = InChunk(Records, c)
      BY <1>5, ArenaShape DEF InChunk
    <3> QED BY <1>4, <3>1, HoldsFewer DEF Holds
  <2> QED BY <1>2, <2>1, <2>2 DEF r
<1>6. CASE e.chunk # NoChunk
  <2>1. r.rest = Q \ {e} /\ r.claim = Claimed(arena, e.chunk)
        /\ r.arena = Free(arena, e.chunk)
    BY <1>3, <1>6
  <2>2. e \in Records /\ e.chunk \in Chunks
    BY <1>1, <1>2, <1>6 DEF Entries
  <2>3. /\ Holds(Free(arena, e.chunk), Records \ {e})
        /\ Claimed(arena, e.chunk) \in {e.chunk, NoChunk}
        /\ Free(arena, e.chunk).reclaiming =
             arena.reclaiming \cup ({Claimed(arena, e.chunk)} \ {NoChunk})
    BY <1>4, <1>6, <2>2, FreeHolds
  <2> QED BY <1>2, <2>1, <2>2, <2>3 DEF r
<1> QED BY <1>5, <1>6

(* Who runs, and what becomes of the frames.                               *)
AllInv == IInv /\ KeptInv

(* Who sleeps on cv_ sleeps because a chunk is on its way back.            *)
LEMMA NoSleeper ==
  ASSUME SleepersAreWoken, claim = NoChunk \/ stop
  PROVE  \A p \in Senders : sender[p] # "waiting"
BY DEF SleepersAreWoken, MustWait, ReclaimInFlight

(* Steps that leave the entries, the arena and the ids alone.              *)
LEMMA EntriesAlone ==
  ASSUME Queues, Holds(arena, Records), UNCHANGED <<queue, batch, arena, next>>
  PROVE  Queues' /\ Holds(arena, Records)'
BY DEF Queues, Holds, Records

(* What keeps the sleepers as they were.                                   *)
LEMMA SleepersAlone ==
  ASSUME SleepersAreWoken, UNCHANGED <<queue, claim, arena, stop, sender, len>>,
         writer' = "waiting" => writer = "waiting"
  PROVE  SleepersAreWoken'
BY DEF SleepersAreWoken, MustWait, ReclaimInFlight

(* What notify_all leaves: no sleeper, and every notify still to come.     *)
LEMMA AllAwake ==
  ASSUME sender \in [Senders -> {"idle", "waiting", "woken", "notify"}]
  PROVE  /\ AllSendersWoken \in [Senders -> {"idle", "waiting", "woken", "notify"}]
         /\ \A p \in Senders : /\ AllSendersWoken[p] # "waiting"
                               /\ sender[p] = "notify" => AllSendersWoken[p] = "notify"
BY DEF AllSendersWoken

(***************************************************************************)
(* The steps that move no entry: a sender that waits, is woken or finds    *)
(* the endpoint stopped, the notify, and a writer that waits or is woken.  *)
(***************************************************************************)
LEMMA UnmovedKept ==
  ASSUME AllInv, FrameTypes', SleepersAreWoken',
         UNCHANGED <<held, counts, inline, back, stopper>>,
         \/ UNCHANGED writer
         \/ writer \in {"top", "waiting"} /\ writer' \in {"top", "waiting"}
  PROVE  KeptInv'
<1> USE DEF held, counts
<1>1. Queues' /\ Holds(arena, Records)'
  BY EntriesAlone DEF AllInv, KeptInv
<1>2. Batched'
  BY DEF AllInv, KeptInv, Batched
<1>3. Accounted'
  BY DEF AllInv, KeptInv, Accounted, Queued, OfBatch, InHand
<1>4. ClaimHeld'
  BY DEF AllInv, KeptInv, ClaimHeld
<1> QED BY <1>1, <1>2, <1>3, <1>4 DEF KeptInv

(* A frame enters the queue, and the ones it drives out are counted.       *)
LEMMA PushKept ==
  ASSUME AllInv, NEW p \in Senders, NEW size \in 1 .. MaxSize,
         sender[p] \in {"idle", "woken"}, ~MustWait(size), ~stop,
         Push(p, size), len' = [len EXCEPT ![p] = 0],
         UNCHANGED <<batch, claim, flags, written, closes, writer, back, stopper>>
  PROVE  KeptInv'
<1> USE DEF flags
<1>0. /\ FrameTypes /\ Queues /\ Holds(arena, Records) /\ Batched /\ Accounted
      /\ ClaimHeld /\ SleepersAreWoken /\ ~inline /\ size \in Nat \ {0}
  <2>1. MaxSize \in Nat
    BY EndpointAssumption
  <2> QED BY <2>1 DEF AllInv, KeptInv, IInv, InlineAlone
<1>n. next \in Nat /\ written \in Nat /\ dropped \in Nat /\ next' = next + 1
  BY <1>0 DEF FrameTypes, Push
<1>o. UNCHANGED OfBatch /\ OfBatch \in Int
  <2>1. Cardinality(batch) \in Nat
    BY <1>0, FS_CardinalityType DEF Queues
  <2> QED BY <2>1 DEF OfBatch, InHand
<1>q. Cardinality(queue) \in Nat /\ Queued = Cardinality(queue)
      /\ Queued' = Cardinality(queue')
  BY <1>0, FS_CardinalityType DEF Queues, Queued
<1>l. len' \in [Senders -> 0 .. MaxSize]
  BY <1>0, EndpointAssumption DEF FrameTypes
<1>b. Batched'
  BY <1>0 DEF Batched, AllInv, IInv, ThreadMatchesPlace
<1>1. CASE ~Admits(Policy, queue)
  <2>1. /\ dropped' = dropped + 1 /\ sender' = [sender EXCEPT ![p] = "idle"]
        /\ UNCHANGED <<queue, queue_bytes, arena>>
    BY <1>1 DEF Push
  <2>2. FrameTypes'
    BY <1>0, <1>n, <1>l, <2>1 DEF FrameTypes
  <2>3. Queues' /\ Holds(arena, Records)'
    <3>1. \A e \in Records : e.id \in Nat /\ e.id < next'
      BY <1>0, <1>n DEF Queues, Entries
    <3> QED BY <1>0, <2>1, <3>1 DEF Queues, Records, Holds
  <2>4. Accounted'
    BY <1>0, <1>n, <1>o, <1>q, <2>1 DEF Accounted
  <2>5. ClaimHeld'
    BY <1>0, <2>1 DEF ClaimHeld
  <2>6. SleepersAreWoken'
    <3>1. \A q \in Senders : sender'[q] = "waiting" => sender[q] = "waiting" /\ len'[q] = len[q]
      BY <1>0, <2>1 DEF FrameTypes
    <3>2. \A q \in Senders : sender[q] = "notify" => sender'[q] = "notify"
      BY <1>0, <2>1 DEF FrameTypes
    <3> QED BY <1>0, <2>1, <3>1, <3>2 DEF SleepersAreWoken, MustWait, ReclaimInFlight
  <2> QED BY <1>b, <2>2, <2>3, <2>4, <2>5, <2>6 DEF KeptInv
<1>2. CASE Admits(Policy, queue)
  <2> DEFINE X == Evicted(Policy, queue, queue_bytes, size)
             room == AfterEvicting(X)
             e == Entry(room, size)
             woken == WokenByEviction(X)
             R == Records \ X
  <2>1. /\ queue' = (queue \ X) \cup {e} /\ arena' = Put(room, size)
        /\ dropped' = dropped + Cardinality(X)
        /\ sender' = [woken EXCEPT ![p] = IF Signals(queue) THEN "notify" ELSE "idle"]
    BY <1>2 DEF Push
  <2>2. X \subseteq queue
    BY DEF Evicted
  <2>3. IsFiniteSet(Records) /\ Records \subseteq Entries /\ X \in SUBSET Records
    BY <1>0, <2>2, FS_Union DEF Queues, Records
  <2>4. Holds(room, R) /\ room.reclaiming = arena.reclaiming
    BY <1>0, <2>3, ResetHolds DEF AfterEvicting
  <2>5. room \in Arenas
    BY <2>4 DEF Holds
  <2> HIDE DEF X, room
  <2>6. /\ e \in Entries /\ e.id = next /\ e.size = size
        /\ e.chunk = Place(room, size).chunk /\ e.offset = Place(room, size).offset
    <3>1. /\ Place(room, size).chunk \in Chunks \cup {NoChunk}
          /\ Place(room, size).offset \in Nat
      BY <1>0, <2>5, PlaceTyped
    <3>2. e = [id |-> next, size |-> size, chunk |-> Place(room, size).chunk,
               offset |-> Place(room, size).offset]
      BY DEF Entry
    <3> HIDE DEF e
    <3> QED BY <1>0, <1>n, <3>1, <3>2 DEF Entries
  <2> HIDE DEF e
  <2>7. e \notin Records
    BY <1>0, <1>n, <2>6 DEF Queues
  <2>8. IsFiniteSet(R) /\ R \subseteq Entries /\ e \notin R
    BY <2>3, <2>7, FS_Subset
  <2>9. /\ Holds(arena', R \cup {e}) /\ arena'.reclaiming = arena.reclaiming
    BY <2>1, <2>4, <2>6, <2>8, PutHolds
  <2>10. Records' = R \cup {e}
    BY <1>0, <2>1, <2>2 DEF Records, Queues
  <2>11. Queues'
    <3>1. IsFiniteSet(queue') /\ IsFiniteSet(batch')
      <4>1. IsFiniteSet(queue \ X)
        BY <1>0, FS_Subset DEF Queues
      <4> QED BY <1>0, <2>1, <4>1, FS_AddElement DEF Queues
    <3>2. queue' \cap batch' = {}
      BY <1>0, <2>1, <2>7 DEF Queues, Records
    <3>3. \A g \in R : g \in Entries /\ g.id < next'
      <4>1. \A g \in Records : g.id \in Nat /\ g.id < next /\ g \in Entries
        BY <1>0 DEF Queues, Entries
      <4> QED BY <1>n, <4>1
    <3>4. e \in Entries /\ e.id < next'
      BY <1>n, <2>6
    <3> QED BY <2>10, <3>1, <3>2, <3>3, <3>4 DEF Queues
  <2>12. Cardinality(queue') = Cardinality(queue) - Cardinality(X) + 1
         /\ Cardinality(X) \in Nat
    <3>1. IsFiniteSet(queue) /\ IsFiniteSet(X) /\ IsFiniteSet(queue \ X)
          /\ queue \cap X = X
      BY <1>0, <2>2, FS_Subset DEF Queues
    <3>2. Cardinality(queue \ X) = Cardinality(queue) - Cardinality(X)
      BY <3>1, FS_Difference
    <3>3. e \notin queue \ X
      BY <2>7 DEF Records
    <3>4. Cardinality(queue') = Cardinality(queue \ X) + 1
      BY <2>1, <3>1, <3>3, FS_AddElement
    <3> QED BY <3>1, <3>2, <3>4, FS_CardinalityType
  <2>13. Accounted'
    BY <1>0, <1>n, <1>o, <1>q, <2>1, <2>12 DEF Accounted
  <2>14. ClaimHeld'
    BY <1>0, <2>9 DEF ClaimHeld
  <2>15. /\ woken \in [Senders -> {"idle", "waiting", "woken", "notify"}]
         /\ \A q \in Senders : sender[q] = "notify" => woken[q] = "notify"
         /\ \A q \in Senders : woken[q] = "waiting" =>
              sender[q] = "waiting" /\ X = {}
    <3>1. CASE ReclaimInFlight /\ X # {}
      BY <1>0, <3>1, AllAwake DEF FrameTypes, WokenByEviction
    <3>2. CASE ~(ReclaimInFlight /\ X # {})
      <4>1. woken = sender
        BY <3>2 DEF WokenByEviction
      <4>2. ~ReclaimInFlight => \A q \in Senders : sender[q] # "waiting"
        BY <1>0, NoSleeper DEF ReclaimInFlight
      <4> QED BY <1>0, <3>2, <4>1, <4>2 DEF FrameTypes
    <3> QED BY <3>1, <3>2
  <2> HIDE DEF woken
  <2>16. FrameTypes'
    <3>1. sender' \in [Senders -> {"idle", "waiting", "woken", "notify"}]
      BY <2>1, <2>15
    <3>2. dropped' \in Nat /\ next' \in Nat /\ written' \in Nat
      BY <1>n, <2>1, <2>12
    <3> QED BY <1>l, <3>1, <3>2 DEF FrameTypes
  <2>17. SleepersAreWoken'
    <3>1. ASSUME NEW q \in Senders, sender'[q] = "waiting"
          PROVE  MustWait(len[q])' /\ sender[q] = "waiting"
      <4>1. q # p /\ woken[q] = "waiting"
        BY <2>1, <2>15, <3>1
      <4>2. sender[q] = "waiting" /\ X = {} /\ len'[q] = len[q] /\ len[q] \in Nat
        BY <1>0, <2>15, <4>1, EndpointAssumption DEF FrameTypes
      <4>3. MustWait(len[q])
        BY <1>0, <4>2 DEF SleepersAreWoken
      <4>4. room = Reset(arena, {})
        BY <4>2 DEF room, AfterEvicting
      <4>5. ~CanPut(room, len[q])
        <5>1. arena \in Arenas
          BY <1>0 DEF Holds
        <5>2. room.live = arena.live /\ room.reclaiming = arena.reclaiming
              /\ room.current = arena.current /\ room.fill = arena.fill
          <6>1. \A c : InChunk({}, c) = {} /\ Cardinality({}) = 0
            BY FS_EmptySet DEF InChunk
          <6>2. room = [live |-> [c \in Chunks |-> arena.live[c] - 0],
                        reclaiming |-> arena.reclaiming,
                        current |-> arena.current, fill |-> arena.fill]
            BY <4>4, <6>1 DEF Reset
          <6> QED BY <5>1, <6>2 DEF Arenas
        <5> QED BY <4>3, <5>2 DEF MustWait, CanPut, ChooseChunk, LowestFreeChunk, IsFree
      <4>6. arena' \in Arenas
        BY <2>9 DEF Holds
      <4>7. ~CanPut(arena', len[q])
        BY <1>0, <2>1, <2>5, <4>2, <4>5, <4>6, PutMakesNoRoom
      <4> QED BY <4>2, <4>3, <4>7 DEF MustWait, ReclaimInFlight
    <3>2. ASSUME writer = "waiting" PROVE \E q \in Senders : sender'[q] = "notify"
      <4>1. CASE queue = {}
        BY <2>1, <2>15, <4>1 DEF Signals
      <4>2. CASE queue # {}
        <5>1. PICK q \in Senders : sender[q] = "notify"
          BY <1>0, <3>2, <4>2 DEF SleepersAreWoken
        <5>2. q # p /\ woken[q] = "notify"
          BY <2>15, <5>1
        <5> QED BY <2>1, <2>15, <5>2
      <4> QED BY <4>1, <4>2
    <3> QED BY <1>0, <3>1, <3>2 DEF SleepersAreWoken
  <2> QED BY <1>b, <2>9, <2>10, <2>11, <2>13, <2>14, <2>16, <2>17 DEF KeptInv
<1> QED BY <1>1, <1>2

(* A sender, from the lock to the unlock (Send).                           *)
LEMMA SendKept ==
  ASSUME AllInv, NEW p \in Senders, Send(p)
  PROVE  KeptInv'
<1>0. /\ FrameTypes /\ SleepersAreWoken /\ sender[p] \in {"idle", "woken"}
      /\ UNCHANGED <<batch, claim, flags, written, closes, writer, back, stopper>>
      /\ MaxSize \in Nat
  BY EndpointAssumption DEF AllInv, KeptInv, Send
<1>1. PICK size \in 1 .. MaxSize :
        \/ /\ MustWait(size)
           /\ sender' = [sender EXCEPT ![p] = "waiting"]
           /\ len' = [len EXCEPT ![p] = size]
           /\ UNCHANGED <<queue, queue_bytes, arena, dropped, next>>
        \/ /\ ~MustWait(size) /\ ~stop
           /\ Push(p, size) /\ len' = [len EXCEPT ![p] = 0]
        \/ /\ ~MustWait(size) /\ stop
           /\ sender' = [sender EXCEPT ![p] = "idle"]
           /\ len' = [len EXCEPT ![p] = 0]
           /\ UNCHANGED <<queue, queue_bytes, arena, dropped, next>>
  BY DEF Send
<1>2. CASE /\ MustWait(size)
           /\ sender' = [sender EXCEPT ![p] = "waiting"]
           /\ len' = [len EXCEPT ![p] = size]
           /\ UNCHANGED <<queue, queue_bytes, arena, dropped, next>>
  <2>1. FrameTypes'
    BY <1>0, <1>2 DEF FrameTypes
  <2>2. writer # "waiting"
    <3>1. claim # NoChunk /\ ~stop
      BY <1>2 DEF MustWait, ReclaimInFlight
    <3>2. \A s \in Stoppers : stopper[s] # "reclaim"
      BY <3>1 DEF AllInv, IInv, InlineAlone, Finalizing
    <3> QED BY <3>1, <3>2 DEF AllInv, KeptInv, ClaimHeld
  <2>3. SleepersAreWoken'
    <3>1. ASSUME NEW q \in Senders, sender'[q] = "waiting" PROVE MustWait(len[q])'
      <4>1. CASE q = p
        <5>1. len'[q] = size
          BY <1>0, <1>2, <4>1 DEF FrameTypes
        <5> QED BY <1>0, <1>2, <5>1 DEF MustWait, ReclaimInFlight, flags
      <4>2. CASE q # p
        <5>1. sender[q] = "waiting" /\ len'[q] = len[q]
          BY <1>0, <1>2, <3>1, <4>2 DEF FrameTypes
        <5> QED BY <1>0, <1>2, <5>1 DEF SleepersAreWoken, MustWait, ReclaimInFlight, flags
      <4> QED BY <4>1, <4>2
    <3> QED BY <1>0, <2>2, <3>1 DEF SleepersAreWoken
  <2> QED BY <1>0, <1>2, <2>1, <2>3, UnmovedKept DEF held, counts, flags
<1>3. CASE /\ ~MustWait(size) /\ ~stop
           /\ Push(p, size) /\ len' = [len EXCEPT ![p] = 0]
  BY <1>0, <1>3, PushKept
<1>4. CASE /\ ~MustWait(size) /\ stop
           /\ sender' = [sender EXCEPT ![p] = "idle"]
           /\ len' = [len EXCEPT ![p] = 0]
           /\ UNCHANGED <<queue, queue_bytes, arena, dropped, next>>
  <2>1. FrameTypes'
    BY <1>0, <1>4 DEF FrameTypes
  <2>2. SleepersAreWoken'
    <3>1. \A q \in Senders : sender[q] # "waiting"
      BY <1>0, <1>4, NoSleeper
    <3>2. \A q \in Senders : sender'[q] # "waiting"
      BY <1>0, <1>4, <3>1 DEF FrameTypes
    <3>3. writer # "waiting"
      BY <1>0, <1>4 DEF SleepersAreWoken
    <3> QED BY <1>0, <3>2, <3>3 DEF SleepersAreWoken
  <2> QED BY <1>0, <1>4, <2>1, <2>2, UnmovedKept DEF held, counts, flags
<1> QED BY <1>1, <1>2, <1>3, <1>4

(***************************************************************************)
(* notify_one: with the writer asleep no sender is, so the writer gets it. *)
(* Waking more threads than a notify would is as good.                     *)
(***************************************************************************)
LEMMA WakeKept ==
  ASSUME AllInv, (\E p \in Senders : Notify(p)) \/ SpuriousWakeup
  PROVE  KeptInv'
<1>0. /\ FrameTypes /\ SleepersAreWoken
      /\ UNCHANGED <<held, flags, counts, back, len, stopper>>
  BY DEF AllInv, KeptInv, Notify, SpuriousWakeup
<1>1. /\ sender' \in [Senders -> {"idle", "waiting", "woken", "notify"}]
      /\ \A q \in Senders : sender'[q] = "waiting" => sender[q] = "waiting"
      /\ writer' = writer \/ (writer = "waiting" /\ writer' = "top")
      /\ writer' = "waiting" =>
           \A q \in Senders : sender[q] = "notify" => sender'[q] = "notify"
  <2>1. CASE \E p \in Senders : Notify(p)
    <3>1. PICK p \in Senders : Notify(p)
      BY <2>1
    <3>2. CASE /\ writer = "waiting" /\ writer' = "top"
               /\ sender' = [sender EXCEPT ![p] = "idle"]
      BY <1>0, <3>2 DEF FrameTypes
    <3>3. CASE \E q \in Senders :
                 /\ sender[q] = "waiting"
                 /\ sender' = [sender EXCEPT ![p] = "idle", ![q] = "woken"]
                 /\ UNCHANGED writer
      <4>1. PICK q \in Senders :
              /\ sender[q] = "waiting"
              /\ sender' = [sender EXCEPT ![p] = "idle", ![q] = "woken"]
              /\ UNCHANGED writer
        BY <3>3
      <4>2. writer # "waiting"
        BY <1>0, <4>1 DEF SleepersAreWoken
      <4> QED BY <1>0, <4>1, <4>2 DEF FrameTypes
    <3>4. CASE /\ writer # "waiting" /\ sender' = [sender EXCEPT ![p] = "idle"]
               /\ UNCHANGED writer
      BY <1>0, <3>4 DEF FrameTypes
    <3> QED BY <3>1, <3>2, <3>3, <3>4 DEF Notify
  <2>2. CASE SpuriousWakeup
    <3>1. CASE writer = "waiting" /\ writer' = "top" /\ UNCHANGED sender
      BY <1>0, <3>1 DEF FrameTypes
    <3>2. CASE \E p \in Senders : /\ sender[p] = "waiting" /\ UNCHANGED writer
                                  /\ sender' = [sender EXCEPT ![p] = "woken"]
      BY <1>0, <3>2 DEF FrameTypes
    <3> QED BY <2>2, <3>1, <3>2 DEF SpuriousWakeup
  <2> QED BY <2>1, <2>2
<1>2. FrameTypes'
  BY <1>0, <1>1 DEF FrameTypes, counts
<1>3. SleepersAreWoken'
  <2>1. \A q \in Senders : sender'[q] = "waiting" => MustWait(len[q])'
    BY <1>0, <1>1 DEF SleepersAreWoken, MustWait, ReclaimInFlight, held, flags
  <2>2. writer' = "waiting" => /\ ~stop'
                               /\ \A q \in Senders : sender'[q] # "waiting"
                               /\ queue' # {} => \E q \in Senders : sender'[q] = "notify"
    BY <1>0, <1>1 DEF SleepersAreWoken, held, flags
  <2> QED BY <2>1, <2>2 DEF SleepersAreWoken
<1> QED BY <1>0, <1>1, <1>2, <1>3, UnmovedKept DEF flags

(* The writer takes the queue, or waits for one.                           *)
LEMMA SwapKept ==
  ASSUME AllInv, Wait \/ TakeBatch \/ Deadline
  PROVE  KeptInv'
<1>0. /\ FrameTypes /\ Queues /\ Holds(arena, Records) /\ Batched /\ Accounted
      /\ ClaimHeld /\ SleepersAreWoken
  BY DEF AllInv, KeptInv
<1>1. CASE Wait
  <2>1. FrameTypes'
    BY <1>0, <1>1 DEF Wait, FrameTypes, counts
  <2>2. SleepersAreWoken'
    <3>1. ~inline
      BY <1>1 DEF Wait, AllInv, IInv, InlineAlone
    <3>2. \A s \in Stoppers : stopper[s] # "reclaim"
      BY <3>1 DEF AllInv, IInv, InlineAlone, Finalizing
    <3>3. claim = NoChunk
      BY <1>0, <1>1, <3>2 DEF ClaimHeld, Wait
    <3>4. \A q \in Senders : sender[q] # "waiting"
      BY <1>0, <3>3, NoSleeper
    <3> QED BY <1>1, <3>4 DEF Wait, SleepersAreWoken, held, flags
  <2> QED BY <1>1, <2>1, <2>2, UnmovedKept DEF Wait, flags
<1>2. CASE TakeBatch \/ Deadline
  <2>1. /\ writer \in {"top", "waiting"} /\ Swap
        /\ batch' = queue /\ queue' = {}
        /\ writer' \in {"finalize", "batch"}
        /\ writer' = "finalize" => queue = {} /\ stop
        /\ UNCHANGED <<arena, claim, flags, counts, back, sender, len, stopper>>
    BY <1>2 DEF TakeBatch, Deadline, Swap
  <2>2. batch = {}
    BY <1>0, <2>1 DEF Batched
  <2>3. Records' = Records /\ UNCHANGED arena /\ UNCHANGED next
    BY <2>1, <2>2 DEF Records, counts
  <2>4. Holds(arena, Records)'
    BY <1>0, <2>3 DEF Holds
  <2>5. Queues'
    BY <1>0, <2>1, <2>2, <2>3, FS_EmptySet DEF Queues
  <2>6. FrameTypes'
    BY <1>0, <2>1 DEF FrameTypes, counts
  <2>7. Batched'
    BY <2>1 DEF Batched
  <2>8. ~inline
    BY <2>1 DEF AllInv, IInv, InlineAlone
  <2>9. Accounted'
    <3>1. Queued = Cardinality(queue) /\ OfBatch = 0
      BY <2>1, <2>8 DEF Queued, OfBatch, InHand
    <3>2. Queued' = 0
      BY <2>1, <2>8, FS_EmptySet DEF Queued, flags
    <3>3. OfBatch' = Cardinality(queue)
      <4>1. CASE writer' = "batch"
        BY <2>1, <4>1 DEF OfBatch, InHand
      <4>2. CASE writer' = "finalize"
        BY <2>1, <4>2, FS_EmptySet DEF OfBatch, InHand
      <4> QED BY <2>1, <4>1, <4>2
    <3>4. Cardinality(queue) \in Nat
      BY <1>0, FS_CardinalityType DEF Queues
    <3> QED BY <1>0, <2>1, <3>1, <3>2, <3>3, <3>4 DEF Accounted, counts, FrameTypes
  <2>10. ClaimHeld'
    BY <1>0, <2>1 DEF ClaimHeld
  <2>11. SleepersAreWoken'
    BY <1>0, <2>1 DEF SleepersAreWoken, MustWait, ReclaimInFlight, flags
  <2> QED BY <2>4, <2>5, <2>6, <2>7, <2>9, <2>10, <2>11 DEF KeptInv
<1> QED BY <1>1, <1>2

(* A batch is begun, written or given up, each frame of it counted once.   *)
LEMMA BatchKept ==
  ASSUME AllInv, BeginBatch \/ WriteFront
  PROVE  KeptInv'
<1>0. /\ FrameTypes /\ Queues /\ Holds(arena, Records) /\ Batched /\ Accounted
      /\ ClaimHeld /\ SleepersAreWoken
  BY DEF AllInv, KeptInv
<1>1. /\ UNCHANGED <<held, stop, inline, next, back, sender, len, stopper>>
      /\ writer \in {"batch", "drain"} /\ writer' \in {"release", "drain", "written"}
  BY DEF BeginBatch, WriteFront, GiveUpBatch
<1>2. Cardinality(batch) \in Nat /\ (batch = {} <=> Cardinality(batch) = 0)
  BY <1>0, FS_CardinalityType, FS_EmptySet DEF Queues
<1>3. Queues' /\ Holds(arena, Records)'
  BY <1>0, <1>1, EntriesAlone DEF held
<1>4. SleepersAreWoken'
  BY <1>0, <1>1, SleepersAlone DEF held
<1>5. ClaimHeld'
  BY <1>0, <1>1 DEF ClaimHeld, held
<1>6. OfBatch = Cardinality(batch) /\ Queued \in Nat /\ Queued' = Queued
      /\ next \in Nat /\ written \in Nat /\ dropped \in Nat
  BY <1>0, <1>1, FS_CardinalityType DEF OfBatch, InHand, Queued, Queues, held, FrameTypes
<1>7. \/ /\ writer' = "release" /\ dropped' + written' = dropped + written + Cardinality(batch)
         /\ dropped' \in Nat /\ written' \in Nat
      \/ writer' = "drain" /\ UNCHANGED <<dropped, written>>
      \/ /\ writer' = "written" /\ written' = written + 1 /\ dropped' = dropped /\ batch # {}
  BY <1>2, <1>6 DEF BeginBatch, WriteFront, GiveUpBatch
<1>8. Accounted' /\ FrameTypes' /\ Batched'
  <2>1. Batched'
    BY <1>0, <1>1, <1>7 DEF Batched, held
  <2>2. CASE /\ writer' = "release"
             /\ dropped' + written' = dropped + written + Cardinality(batch)
             /\ dropped' \in Nat /\ written' \in Nat
    <3>1. OfBatch' = 0
      BY <2>2 DEF OfBatch, InHand
    <3> QED BY <1>0, <1>1, <1>2, <1>6, <2>1, <2>2, <3>1 DEF Accounted, FrameTypes
  <2>3. CASE writer' = "drain" /\ UNCHANGED <<dropped, written>>
    <3>1. OfBatch' = OfBatch
      BY <1>1, <1>6, <2>3 DEF OfBatch, InHand, held
    <3> QED BY <1>0, <1>1, <1>2, <1>6, <2>1, <2>3, <3>1 DEF Accounted, FrameTypes
  <2>4. CASE writer' = "written" /\ written' = written + 1 /\ dropped' = dropped
    <3>1. OfBatch' = Cardinality(batch) - 1
      BY <1>1, <2>4 DEF OfBatch, InHand, held
    <3> QED BY <1>0, <1>1, <1>2, <1>6, <2>1, <2>4, <3>1 DEF Accounted, FrameTypes
  <2> QED BY <1>7, <2>2, <2>3, <2>4
<1> QED BY <1>3, <1>4, <1>5, <1>8 DEF KeptInv

(***************************************************************************)
(* An entry of the queue or of the batch is released while nothing is on   *)
(* its way to the kernel: nobody sleeps for room, so nobody misses it.     *)
(***************************************************************************)
LEMMA ReleaseStep ==
  ASSUME AllInv, claim = NoChunk, NEW Q \in {queue, batch}, Q # {},
         arena' = Released(Q).arena, claim' = Released(Q).claim,
         \/ Q = queue /\ queue' = Released(Q).rest /\ UNCHANGED batch
         \/ Q = batch /\ batch' = Released(Q).rest /\ UNCHANGED queue,
         UNCHANGED <<sender, len, next, stop>>
  PROVE  /\ Queues' /\ Holds(arena, Records)'
         /\ claim' \in Chunks \cup {NoChunk}
         /\ arena'.reclaiming = {claim'} \ {NoChunk}
         /\ Cardinality(Released(Q).rest) = Cardinality(Q) - 1
         /\ Cardinality(Q) \in Nat
         /\ \A q \in Senders : sender'[q] # "waiting"
<1>0. Queues /\ Holds(arena, Records) /\ ClaimHeld /\ SleepersAreWoken
      /\ Q \in SUBSET Records
  BY DEF AllInv, KeptInv, Records
<1>1. PICK e \in Q :
        /\ Released(Q).rest = Q \ {e}
        /\ Released(Q).claim \in Chunks \cup {NoChunk}
        /\ Holds(Released(Q).arena, Records \ {e})
        /\ Released(Q).arena.reclaiming =
             arena.reclaiming \cup ({Released(Q).claim} \ {NoChunk})
  BY <1>0, ReleasedHolds
<1>2. Records' = Records \ {e}
  BY <1>0, <1>1 DEF Records, Queues
<1>3. IsFiniteSet(Q) /\ IsFiniteSet(queue') /\ IsFiniteSet(batch')
  BY <1>0, <1>1, FS_RemoveElement DEF Queues
<1>4. Queues'
  <2>1. queue' \subseteq queue /\ batch' \subseteq batch
    BY <1>1
  <2> QED BY <1>0, <1>2, <1>3, <2>1 DEF Queues
<1>5. Holds(arena, Records)'
  BY <1>1, <1>2
<1>6. claim' \in Chunks \cup {NoChunk} /\ arena'.reclaiming = {claim'} \ {NoChunk}
  BY <1>0, <1>1 DEF ClaimHeld
<1>7. Cardinality(Released(Q).rest) = Cardinality(Q) - 1 /\ Cardinality(Q) \in Nat
  BY <1>1, <1>3, FS_RemoveElement, FS_CardinalityType
<1>8. \A q \in Senders : sender'[q] # "waiting"
  BY <1>0, NoSleeper
<1> QED BY <1>4, <1>5, <1>6, <1>7, <1>8

(* The kernel has taken the chunk: no sender is left asleep (Completed).   *)
LEMMA CompletedStep ==
  ASSUME AllInv, Completed, UNCHANGED <<queue, batch, next>>
  PROVE  /\ Queues' /\ Holds(arena, Records)'
         /\ claim' = NoChunk /\ arena'.reclaiming = {}
         /\ sender' \in [Senders -> {"idle", "waiting", "woken", "notify"}]
         /\ \A q \in Senders : sender'[q] # "waiting"
<1>0. Queues /\ Holds(arena, Records) /\ ClaimHeld /\ FrameTypes
  BY DEF AllInv, KeptInv
<1>1. arena \in Arenas /\ Records' = Records
  BY <1>0 DEF Holds, Records
<1>2. /\ arena'.live = arena.live /\ arena'.current = arena.current
      /\ arena'.fill = arena.fill /\ arena'.reclaiming = arena.reclaiming \ {claim}
      /\ arena' \in Arenas
  BY <1>1 DEF Completed, CompleteReclaim, Arenas
<1>3. arena'.reclaiming = {}
  BY <1>0, <1>2 DEF ClaimHeld
<1>4. Holds(arena', Records)
  BY <1>0, <1>2, <1>3 DEF Holds, Fits
<1>5. Queues'
  BY <1>0, <1>1 DEF Queues
<1> QED BY <1>0, <1>1, <1>3, <1>4, <1>5, AllAwake DEF Completed, FrameTypes

(* ReleaseFront of the batch, before and after the kernel call.            *)
LEMMA ReleaseKept ==
  ASSUME AllInv, ReleaseWritten \/ ReleaseRest \/ WriterReclaimed
  PROVE  KeptInv'
<1>0. /\ FrameTypes /\ Queues /\ Holds(arena, Records) /\ Batched /\ Accounted
      /\ ClaimHeld /\ SleepersAreWoken
  BY DEF AllInv, KeptInv
<1>1. ASSUME NEW on \in {"drain", "release"}, ReleaseOfBatch(on), batch # {},
             writer = IF on = "drain" THEN "written" ELSE "release"
      PROVE  KeptInv'
  <2> DEFINE r == Released(batch)
  <2>1. /\ batch' = r.rest /\ arena' = r.arena /\ claim' = r.claim
        /\ UNCHANGED <<queue, queue_bytes, flags, counts, sender, len, stopper>>
        /\ \/ r.claim = NoChunk /\ writer' = on /\ UNCHANGED back
           \/ r.claim # NoChunk /\ writer' = "reclaim" /\ back' = on
    BY <1>1 DEF ReleaseOfBatch
  <2> HIDE DEF r
  <2>2. claim = NoChunk /\ ~inline
    <3>1. ~inline
      BY <1>1 DEF AllInv, IInv, InlineAlone
    <3>2. \A s \in Stoppers : stopper[s] # "reclaim"
      BY <3>1 DEF AllInv, IInv, InlineAlone, Finalizing
    <3> QED BY <1>0, <1>1, <3>1, <3>2 DEF ClaimHeld
  <2>3. /\ Queues' /\ Holds(arena, Records)'
        /\ claim' \in Chunks \cup {NoChunk}
        /\ arena'.reclaiming = {claim'} \ {NoChunk}
        /\ Cardinality(r.rest) = Cardinality(batch) - 1
        /\ Cardinality(batch) \in Nat
        /\ \A q \in Senders : sender'[q] # "waiting"
    BY <1>1, <2>1, <2>2, ReleaseStep DEF r, counts, flags
  <2>4. FrameTypes'
    BY <1>0, <2>1 DEF FrameTypes, counts
  <2>5. Batched'
    BY <2>1 DEF Batched
  <2>6. Accounted'
    <3>1. Queued' = Queued /\ UNCHANGED <<next, written, dropped>>
      BY <2>1 DEF Queued, counts, flags
    <3>2. OfBatch' = OfBatch
      <4>1. CASE on = "drain"
        <5>1. OfBatch = Cardinality(batch) - 1
          BY <1>1, <4>1 DEF OfBatch, InHand
        <5>2. InHand'
          BY <2>1, <4>1 DEF InHand
        <5> QED BY <2>1, <2>3, <5>1, <5>2 DEF OfBatch
      <4>2. CASE on = "release"
        <5>1. OfBatch = 0
          BY <1>1, <4>2 DEF OfBatch, InHand
        <5>2. ~InHand' /\ writer' # "written"
          BY <2>1, <4>2 DEF InHand
        <5> QED BY <5>1, <5>2 DEF OfBatch
      <4> QED BY <1>1, <4>1, <4>2
    <3> QED BY <1>0, <3>1, <3>2 DEF Accounted
  <2>7. ClaimHeld'
    BY <2>1, <2>3 DEF ClaimHeld
  <2>8. SleepersAreWoken'
    BY <1>1, <2>1, <2>3 DEF SleepersAreWoken
  <2> QED BY <2>3, <2>4, <2>5, <2>6, <2>7, <2>8 DEF KeptInv
<1>2. CASE ReleaseWritten
  <2>1. batch # {}
    BY <1>0, <1>2 DEF Batched, ReleaseWritten
  <2> QED BY <1>1, <1>2, <2>1 DEF ReleaseWritten
<1>3. CASE ReleaseRest
  <2>1. CASE batch # {} /\ ReleaseOfBatch("release")
    BY <1>1, <1>3, <2>1 DEF ReleaseRest
  <2>2. CASE /\ batch = {} /\ writer' = "top"
             /\ UNCHANGED <<held, flags, counts, back, sender, len, stopper>>
    <3>1. Queues' /\ Holds(arena, Records)'
      BY <1>0, <2>2, EntriesAlone DEF held, counts
    <3>2. FrameTypes' /\ Batched'
      BY <1>0, <2>2 DEF FrameTypes, Batched, counts, held
    <3>3. Accounted'
      <4>1. OfBatch = 0 /\ OfBatch' = 0
        BY <1>3, <2>2 DEF ReleaseRest, OfBatch, InHand
      <4>2. Queued' = Queued
        BY <2>2 DEF Queued, held, flags
      <4> QED BY <1>0, <2>2, <4>1, <4>2 DEF Accounted, counts
    <3>4. ClaimHeld'
      BY <1>0, <1>3, <2>2 DEF ClaimHeld, ReleaseRest, held
    <3>5. SleepersAreWoken'
      BY <1>0, <2>2, SleepersAlone DEF held, flags
    <3> QED BY <3>1, <3>2, <3>3, <3>4, <3>5 DEF KeptInv
  <2> QED BY <1>3, <2>1, <2>2 DEF ReleaseRest
<1>4. CASE WriterReclaimed
  <2>1. /\ writer = "reclaim" /\ Completed /\ writer' = back
        /\ UNCHANGED <<queue, queue_bytes, batch, flags, counts, back, len, stopper>>
    BY <1>4 DEF WriterReclaimed
  <2>2. /\ Queues' /\ Holds(arena, Records)'
        /\ claim' = NoChunk /\ arena'.reclaiming = {}
        /\ sender' \in [Senders -> {"idle", "waiting", "woken", "notify"}]
        /\ \A q \in Senders : sender'[q] # "waiting"
    BY <2>1, CompletedStep DEF counts
  <2>3. back \in {"drain", "release"}
    BY DEF AllInv, IInv, Types
  <2>4. FrameTypes' /\ Batched' /\ ClaimHeld'
    BY <1>0, <2>1, <2>2, <2>3 DEF FrameTypes, Batched, ClaimHeld, counts
  <2>5. Accounted'
    <3>1. OfBatch' = OfBatch
      BY <2>1, <2>3 DEF OfBatch, InHand
    <3>2. Queued' = Queued
      BY <2>1 DEF Queued, flags
    <3> QED BY <1>0, <2>1, <3>1, <3>2 DEF Accounted, counts
  <2>6. SleepersAreWoken'
    BY <2>1, <2>2, <2>3 DEF SleepersAreWoken
  <2> QED BY <2>2, <2>4, <2>5, <2>6 DEF KeptInv
<1> QED BY <1>2, <1>3, <1>4

(***************************************************************************)
(* The steps that move no entry and neither end a batch nor begin one: the *)
(* closing of the file, the threads that come and go.                      *)
(***************************************************************************)
LEMMA ThreadKept ==
  ASSUME AllInv,
         UNCHANGED <<queue, batch, arena, claim, next, written, dropped, inline,
                     len>>,
         UNCHANGED sender \/ sender' = AllSendersWoken,
         \/ UNCHANGED writer
         \/ writer \in {"off", "waiting"} /\ writer' = "top"
         \/ writer \in {"finalize", "closed"} /\ writer' \in {"closed", "exited"},
         \A s \in Stoppers : stopper[s] = "reclaim" <=> stopper'[s] = "reclaim",
         UNCHANGED stop \/ (sender' = AllSendersWoken /\ writer' # "waiting"),
         UNCHANGED back
  PROVE  KeptInv'
<1>0. /\ FrameTypes /\ Queues /\ Holds(arena, Records) /\ Batched /\ Accounted
      /\ ClaimHeld /\ SleepersAreWoken
  BY DEF AllInv, KeptInv
<1>1. Queues' /\ Holds(arena, Records)'
  BY <1>0, EntriesAlone
<1>2. FrameTypes'
  BY <1>0, AllAwake DEF FrameTypes
<1>3. Batched'
  BY <1>0 DEF Batched
<1>4. Accounted'
  <2>1. OfBatch' = OfBatch
    BY DEF OfBatch, InHand
  <2>2. Queued' = Queued
    BY DEF Queued
  <2> QED BY <1>0, <2>1, <2>2 DEF Accounted
<1>5. ClaimHeld'
  BY <1>0 DEF ClaimHeld
<1>6. SleepersAreWoken'
  <2>1. CASE UNCHANGED sender /\ UNCHANGED stop
    <3>1. writer' = "waiting" => writer = "waiting"
      OBVIOUS
    <3> QED BY <1>0, <2>1, <3>1, SleepersAlone
  <2>2. CASE sender' = AllSendersWoken
    <3>1. \A q \in Senders : /\ sender'[q] # "waiting"
                             /\ sender[q] = "notify" => sender'[q] = "notify"
      BY <1>0, <2>2, AllAwake DEF FrameTypes
    <3>2. writer' = "waiting" => UNCHANGED stop /\ writer = "waiting"
      OBVIOUS
    <3> QED BY <1>0, <3>1, <3>2 DEF SleepersAreWoken
  <2> QED BY <2>1, <2>2
<1> QED BY <1>1, <1>2, <1>3, <1>4, <1>5, <1>6 DEF KeptInv

(***************************************************************************)
(* A caller enters StopFor: it wakes everyone, or, when no thread can be   *)
(* had, counts the whole queue and sets out to release it.                 *)
(***************************************************************************)
LEMMA StopBeginKept ==
  ASSUME AllInv, NEW s \in Stoppers, StopBegin(s)
  PROVE  KeptInv'
<1>0. /\ FrameTypes /\ Queues /\ Holds(arena, Records) /\ Batched /\ Accounted
      /\ ClaimHeld /\ SleepersAreWoken /\ Types
      /\ stopper[s] = "idle" /\ sender' = AllSendersWoken /\ stop' = TRUE
      /\ UNCHANGED <<held, refused, finalized, next, written, closes, back, len>>
  BY DEF AllInv, KeptInv, IInv, StopBegin
<1>1. NeedsOwner => writer = "off" /\ ~inline
  BY DEF AllInv, IInv, Types, ThreadMatchesPlace, NeedsOwner
<1>2. CASE /\ ~NeedsOwner /\ stopper' = [stopper EXCEPT ![s] = "await"]
           /\ writer' = WriterWoken /\ UNCHANGED <<inline, dropped>>
  <2>1. \A t \in Stoppers : stopper[t] = "reclaim" <=> stopper'[t] = "reclaim"
    BY <1>0, <1>2 DEF Types
  <2>2. writer' = writer \/ (writer = "waiting" /\ writer' = "top")
    BY <1>2 DEF WriterWoken
  <2>3. writer' # "waiting"
    BY <1>2 DEF WriterWoken
  <2> QED BY <1>0, <1>2, <2>1, <2>2, <2>3, ThreadKept DEF held
<1>3. CASE /\ NeedsOwner /\ Spawned /\ UNCHANGED <<inline, dropped>>
           /\ stopper' = [stopper EXCEPT ![s] = "await"]
  <2>1. \A t \in Stoppers : stopper[t] = "reclaim" <=> stopper'[t] = "reclaim"
    BY <1>0, <1>3 DEF Types
  <2>2. writer = "off" /\ writer' = "top"
    BY <1>1, <1>3 DEF Spawned
  <2> QED BY <1>0, <1>3, <2>1, <2>2, ThreadKept DEF held
<1>4. CASE NeedsOwner /\ UNCHANGED <<inline, dropped, writer, stopper>>
  <2>1. writer' # "waiting"
    BY <1>1, <1>4
  <2> QED BY <1>0, <1>4, <2>1, ThreadKept DEF held
<1>5. CASE /\ NeedsOwner /\ inline' = TRUE /\ UNCHANGED writer
           /\ dropped' = dropped + Cardinality(queue)
           /\ stopper' = [stopper EXCEPT ![s] = "shed"]
  <2>1. Queues' /\ Holds(arena, Records)'
    BY <1>0, EntriesAlone DEF held
  <2>2. Cardinality(queue) \in Nat
    BY <1>0, FS_CardinalityType DEF Queues
  <2>3. FrameTypes'
    BY <1>0, <1>5, <2>2, AllAwake DEF FrameTypes
  <2>4. Batched'
    BY <1>0, <1>5 DEF Batched, held
  <2>5. Accounted'
    <3>1. OfBatch = 0 /\ OfBatch' = 0 /\ Queued' = 0 /\ Queued = Cardinality(queue)
      BY <1>1, <1>5 DEF OfBatch, InHand, Queued
    <3> QED BY <1>0, <1>5, <2>2, <3>1 DEF Accounted, FrameTypes
  <2>6. ClaimHeld'
    <3>1. \A t \in Stoppers : stopper[t] = "reclaim" => stopper'[t] = "reclaim"
      BY <1>0, <1>5 DEF Types
    <3> QED BY <1>0, <1>5, <3>1 DEF ClaimHeld, held
  <2>7. SleepersAreWoken'
    <3>1. \A q \in Senders : sender'[q] # "waiting"
      BY <1>0, AllAwake DEF FrameTypes
    <3> QED BY <1>1, <1>5, <3>1 DEF SleepersAreWoken
  <2> QED BY <2>1, <2>3, <2>4, <2>5, <2>6, <2>7 DEF KeptInv
<1> QED BY <1>2, <1>3, <1>4, <1>5 DEF StopBegin

(***************************************************************************)
(* The inline finalizer releases a queue it has counted already, as no one *)
(* else is in a Reclaim and no one sleeps.                                 *)
(***************************************************************************)
LEMMA ShedKept ==
  ASSUME AllInv, NEW s \in Stoppers, Shed(s) \/ ShedReclaimed(s)
  PROVE  KeptInv'
<1>0. /\ FrameTypes /\ Queues /\ Holds(arena, Records) /\ Batched /\ Accounted
      /\ ClaimHeld /\ SleepersAreWoken /\ Types
  BY DEF AllInv, KeptInv, IInv
<1>1. /\ inline /\ stop /\ writer = "off"
      /\ \A t \in Stoppers : stopper[t] = "reclaim" => t = s
  BY DEF AllInv, IInv, InlineAlone, Finalizing, Shed, ShedReclaimed
<1>2. /\ UNCHANGED <<batch, flags, counts, writer, back, len>>
      /\ \A t \in Stoppers \ {s} : stopper'[t] = stopper[t]
  BY <1>0 DEF Shed, ShedReclaimed, Types
<1>3. Queued = 0 /\ Queued' = 0 /\ OfBatch' = OfBatch
  BY <1>1, <1>2 DEF Queued, OfBatch, InHand, flags
<1>4. Accounted' /\ Batched'
  BY <1>0, <1>1, <1>2, <1>3 DEF Accounted, Batched, counts
<1>5. CASE Shed(s)
  <2> DEFINE r == Released(queue)
  <2>1. /\ stopper[s] = "shed" /\ queue # {}
        /\ queue' = r.rest /\ arena' = r.arena /\ claim' = r.claim
        /\ UNCHANGED sender
        /\ stopper' = [stopper EXCEPT ![s] = IF r.claim = NoChunk THEN "shed"
                                             ELSE "reclaim"]
    BY <1>5 DEF Shed
  <2> HIDE DEF r
  <2>2. claim = NoChunk
    BY <1>0, <1>1, <2>1 DEF ClaimHeld
  <2>3. /\ Queues' /\ Holds(arena, Records)'
        /\ claim' \in Chunks \cup {NoChunk}
        /\ arena'.reclaiming = {claim'} \ {NoChunk}
        /\ \A q \in Senders : sender'[q] # "waiting"
    BY <1>2, <2>1, <2>2, ReleaseStep DEF r, counts, flags
  <2>4. claim' # NoChunk => stopper'[s] = "reclaim"
    BY <1>0, <2>1 DEF Types
  <2>5. ClaimHeld'
    BY <2>3, <2>4 DEF ClaimHeld
  <2>6. FrameTypes'
    BY <1>0, <1>2, <2>1 DEF FrameTypes, counts
  <2>7. SleepersAreWoken'
    BY <1>1, <1>2, <2>3 DEF SleepersAreWoken
  <2> QED BY <1>4, <2>3, <2>5, <2>6, <2>7 DEF KeptInv
<1>6. CASE ShedReclaimed(s)
  <2>1. Completed /\ UNCHANGED queue
    BY <1>6 DEF ShedReclaimed
  <2>2. /\ Queues' /\ Holds(arena, Records)'
        /\ claim' = NoChunk /\ arena'.reclaiming = {}
        /\ sender' \in [Senders -> {"idle", "waiting", "woken", "notify"}]
        /\ \A q \in Senders : sender'[q] # "waiting"
    BY <1>2, <2>1, CompletedStep DEF counts
  <2>3. FrameTypes' /\ ClaimHeld'
    BY <1>0, <1>2, <2>2 DEF FrameTypes, ClaimHeld, counts
  <2>4. SleepersAreWoken'
    BY <1>1, <1>2, <2>2 DEF SleepersAreWoken
  <2> QED BY <1>4, <2>2, <2>3, <2>4 DEF KeptInv
<1> QED BY <1>5, <1>6

(* Nothing is queued and nothing accounted for before the first Send.      *)
LEMMA InitKept == Init => KeptInv
<1> SUFFICES ASSUME Init PROVE KeptInv
  OBVIOUS
<1>1. queue = {} /\ batch = {} /\ Records = {} /\ IsFiniteSet({}) /\ Cardinality({}) = 0
  BY FS_EmptySet DEF Init, Records
<1>2. FrameTypes
  BY EndpointAssumption DEF Init, FrameTypes
<1>3. Queues /\ Batched
  BY <1>1 DEF Init, Queues, Batched
<1>4. Holds(arena, Records)
  <2>1. EmptyArena \in Arenas
    BY ArenaShape DEF EmptyArena, Arenas
  <2>2. \A c \in Chunks : InChunk({}, c) = {}
    BY DEF InChunk
  <2> QED BY <1>1, <2>1, <2>2 DEF Init, Holds, EmptyArena
<1>5. Accounted
  BY <1>1 DEF Init, Accounted, Queued, OfBatch, InHand
<1>6. ClaimHeld
  BY DEF Init, ClaimHeld, EmptyArena
<1>7. SleepersAreWoken
  BY DEF Init, SleepersAreWoken
<1> QED BY <1>2, <1>3, <1>4, <1>5, <1>6, <1>7 DEF KeptInv

(* Every step of every thread keeps the frames.                            *)
LEMMA NextKept == AllInv /\ [Next]_vars => KeptInv'
<1> SUFFICES ASSUME AllInv, [Next]_vars PROVE KeptInv'
  OBVIOUS
<1>t. Types
  BY DEF AllInv, IInv
<1>1. ASSUME NEW p \in Senders, Send(p) \/ Notify(p) PROVE KeptInv'
  BY <1>1, SendKept, WakeKept
<1>2. CASE SpuriousWakeup
  BY <1>2, WakeKept
<1>3. CASE Wait \/ Deadline \/ TakeBatch
  BY <1>3, SwapKept
<1>4. CASE BeginBatch \/ WriteFront
  BY <1>4, BatchKept
<1>5. CASE ReleaseWritten \/ ReleaseRest \/ WriterReclaimed
  BY <1>5, ReleaseKept
<1>6. CASE Close \/ SetFinalized
  BY <1>6, ThreadKept DEF Close, SetFinalized, held, counts
<1>7. CASE Start
  <2>1. writer = "off" /\ writer' = "top"
    BY <1>7 DEF Start, Spawned, AllInv, IInv, Types, ThreadMatchesPlace
  <2> QED BY <1>7, <2>1, ThreadKept DEF Start, held, counts
<1>8. ASSUME NEW s \in Stoppers, StopBegin(s) PROVE KeptInv'
  BY <1>8, StopBeginKept
<1>9. ASSUME NEW s \in Stoppers, Shed(s) \/ ShedReclaimed(s) PROVE KeptInv'
  BY <1>9, ShedKept
<1>10. ASSUME NEW s \in Stoppers,
              CloseInline(s) \/ FinalizedInline(s) \/ GivesUp(s) \/ Join(s)
       PROVE  KeptInv'
  <2>1. \A t \in Stoppers : stopper[t] = "reclaim" <=> stopper'[t] = "reclaim"
    BY <1>t, <1>10 DEF Types, CloseInline, FinalizedInline, GivesUp, Join
  <2>2. /\ UNCHANGED <<held, stop, inline, dropped, next, written, writer, back,
                       sender, len>>
    BY <1>10 DEF CloseInline, FinalizedInline, GivesUp, Join, flags, counts
  <2> QED BY <2>1, <2>2, ThreadKept DEF held
<1>11. CASE UNCHANGED vars
  BY <1>11, ThreadKept DEF vars, held, flags, counts, threads
<1> QED
  BY <1>1, <1>2, <1>3, <1>4, <1>5, <1>6, <1>7, <1>8, <1>9, <1>10, <1>11
  DEF Next, Writer, Stopper

(***************************************************************************)
(* A recording accounts for every frame, no payload in the arena is        *)
(* written over or wiped while it is queued, and no thread oversleeps, for *)
(* any policy, any number of senders, stoppers and chunks and whatever     *)
(* storage does (Send, WriterLoop, ReleaseFront, StopFor, PayloadArena).   *)
(***************************************************************************)
THEOREM FramesAreKept == Spec => []FramesKept
<1>1. Init => AllInv
  BY InitIInv, InitKept DEF AllInv
<1>2. AllInv /\ [Next]_vars => AllInv'
  <2>1. AllInv /\ [Next]_vars => IInv'
    BY NextIInv DEF AllInv
  <2> QED BY <2>1, NextKept DEF AllInv
<1>3. AllInv => FramesKept
  <2> SUFFICES ASSUME AllInv PROVE FramesKept
    OBVIOUS
  <2>0. /\ FrameTypes /\ Queues /\ Holds(arena, Records) /\ Batched /\ Accounted
        /\ ClaimHeld /\ SleepersAreWoken
    BY DEF AllInv, KeptInv
  <2>1. EveryFrameAccounted
    <3> SUFFICES ASSUME finalized PROVE next = written + dropped
      BY DEF EveryFrameAccounted
    <3>1. writer \in {"off", "exited"} /\ (inline \/ writer = "exited")
      BY DEF AllInv, IInv, ThreadMatchesPlace, InlineAlone
    <3>2. OfBatch = 0
      BY <3>1 DEF OfBatch, InHand
    <3>3. Queued = 0
      BY <2>0, <3>1, FS_EmptySet DEF Queued, Batched
    <3> QED BY <2>0, <3>2, <3>3 DEF Accounted, FrameTypes
  <2>2. RecordsIntact
    <3> SUFFICES ASSUME NEW e \in Records, e.chunk # NoChunk
        PROVE  /\ e.chunk \notin arena.reclaiming
               /\ e.offset + e.size <= ChunkBytes
               /\ \A g \in Records \ {e} : g.chunk = e.chunk =>
                    e.offset + e.size <= g.offset \/ g.offset + g.size <= e.offset
      BY DEF RecordsIntact
    <3>1. e.chunk \in Chunks /\ IsFiniteSet(Records)
      BY <2>0, FS_Union DEF Queues, Records, Entries
    <3>2. e.chunk \notin arena.reclaiming
      <4>1. arena.live[e.chunk] # 0
        BY <2>0, <3>1, InNone DEF Holds
      <4> QED BY <2>0, <4>1 DEF Holds
    <3>3. Fits(arena, e) /\ \A g \in Records \ {e} : Apart(e, g)
      BY <2>0 DEF Holds
    <3> QED BY <3>2, <3>3 DEF Fits, Apart
  <2> QED BY <2>0, <2>1, <2>2 DEF FramesKept
<1> QED BY <1>1, <1>2, <1>3, PTL DEF Spec

-----------------------------------------------------------------------------
(* McapWriter. *)

(***************************************************************************)
(* The shape of the writer.                                                *)
(***************************************************************************)
Fields ==
  {"cfg", "status", "closed", "open", "part", "bytes", "age", "lost", "failed",
   "refused", "ended", "reason", "point", "cand", "lo", "hi", "late", "staged",
   "primed", "ever", "max_video_ts", "attempts", "skips", "threw", "faults",
   "file", "meta", "starts", "kept", "taken", "closed_twice", "after_end",
   "owed", "overtook", "hole", "at_keyframe"}

IsWriter(v) == DOMAIN v = Fields
(* v becomes u, and but for the fields in Changed nothing changes. *)
Same(v, u, Changed) == \A f \in Fields \ Changed : u[f] = v[f]

Messages ==
  Frames \cup [chan : Cameras, key : BOOLEAN, point : {NoPoint}, stamp : Nat,
               size : 0 .. MaxFrame]

Typed(v) ==
  /\ IsWriter(v) /\ v.cfg \in Configs /\ FitsStage(v.cfg) /\ v.staged \in Seq(Messages)
  /\ v.bytes \in Nat /\ v.status \in {"Waiting", "Ready", "TimedOut"}
  /\ DOMAIN v.starts = Cameras /\ DOMAIN v.meta = {"reason", "point"}
  /\ v.cand \subseteq v.cfg.selected
  /\ v.primed \subseteq Cameras /\ v.ever \subseteq Cameras

(***************************************************************************)
(* The parts: each number below the current one is accounted for, and the  *)
(* current one is free while its file is open.  A writer that lost its     *)
(* part for good is refused or ended, and takes nothing more.              *)
(***************************************************************************)
Numbered(v) ==
  /\ v.part \in Nat
  /\ v.kept \cap v.taken = {}
  /\ 0 .. v.part - 1 \subseteq v.kept \cup v.taken
  /\ v.kept \cup v.taken \subseteq 0 .. v.part
  /\ ~v.closed_twice /\ ~v.after_end
  /\ v.attempts = 0 /\ v.skips = 0
  /\ v.open /\ ~v.closed => v.file = v.part /\ v.part \notin v.kept \cup v.taken
  /\ v.ended => ~v.open
  /\ ~v.open => storage_refused(v)

(* The numbers while the next part is being opened. *)
Opening(v) ==
  /\ v.part \in Nat
  /\ v.kept \cap v.taken = {} /\ v.kept \cup v.taken = 0 .. v.part - 1
  /\ ~v.closed_twice /\ ~v.after_end

(* Every selected camera has begun in the current part. *)
Started(v) == \A c \in v.cfg.selected \cap Cameras : v.starts[c] # NoFrame

(* What a part's metadata say of its first frames (PartsStartDecodable). *)
OwnStart(v) ==
  \A c \in Cameras : v.starts[c] # NoFrame =>
    \/ v.cfg.continuation /\ v.meta.reason = "forced"
    \/ v.starts[c].key /\ (v.cfg.continuation => v.starts[c].point = v.meta.point)

(* The first entry of a camera, after n of a stage, is its keyframe of the point. *)
LeadsFrom(s, n, point, c) ==
  \E i \in n + 1 .. Len(s) :
    /\ s[i].chan = c /\ s[i].key /\ s[i].point = point
    /\ \A j \in n + 1 .. i - 1 : s[j].chan # c

(***************************************************************************)
(* The stage holds what follows the keyframes of the candidate's cameras,  *)
(* and nothing of a camera that has not joined it.  This is what an        *)
(* aligned cut rests on: the new part takes the stage, so each camera      *)
(* begins in it at the point.                                              *)
(***************************************************************************)
StageSound(v) ==
  /\ v.cand = {} <=> v.staged = <<>>
  /\ \A i \in DOMAIN v.staged :
       /\ Belongs(v, v.staged[i])
       /\ Selected(v, v.staged[i]) => v.staged[i].chan \in v.cand
  /\ \A c \in v.cand \cap Cameras : LeadsFrom(v.staged, 0, v.point, c)
  /\ StagedBytes(v) <= v.cfg.max_staged

(***************************************************************************)
(* The start, with k records of the call still in hand: nothing is written *)
(* before the synchronized start, everything is owed and staged alike      *)
(* after it, and a part begins at the stage of a cut or is forced.         *)
(***************************************************************************)
StartSound(v, k) ==
  /\ v.status = "Waiting" => v.owed = 0 /\ v.bytes = 0 /\ \A c \in Cameras : v.starts[c] = NoFrame
  /\ v.status = "TimedOut" => v.staged = <<>>
  /\ v.status = "Ready" =>
       /\ v.owed = Len(v.staged) + k
       /\ v.cfg.selected \cap Cameras \subseteq v.primed
       /\ v.meta.reason = "forced" \/ Started(v)
       /\ v.cand # {} => v.bytes > 0
       /\ v.cfg.max_bytes > 0 /\ v.staged # <<>> => v.bytes < Ceiling(v) + MaxFrame

Bounded(v) ==
  v.cfg.max_bytes > 0 => v.bytes < Ceiling(v) + MaxFrame + v.cfg.max_staged

(* The continuation policy keeps these. *)
ContinuationInv(v) ==
  /\ ~v.overtook /\ ~v.hole /\ ~v.at_keyframe /\ Bounded(v)
  /\ v.cand = {} => v.staged = <<>>
  /\ Writable(v) => StageSound(v) /\ StartSound(v, 0)
  /\ v.closed /\ v.status = "Ready" /\ ~storage_refused(v) => v.staged = <<>> /\ v.owed = 0

(* The legacy policy: it stages nothing, and who is primed is in the part. *)
LegacyInv(v) ==
  /\ v.status = "Ready" /\ v.staged = <<>>
  /\ Writable(v) => \A c \in v.primed : v.starts[c] # NoFrame
  /\ v.cfg.max_bytes > 0 => v.bytes < Ceiling(v) + MaxFrame
  /\ v.at_keyframe => v.cfg.on_keyframe

WriterInv(v) ==
  /\ Typed(v) /\ Numbered(v) /\ OwnStart(v)
  /\ IF v.cfg.continuation THEN ContinuationInv(v) ELSE LegacyInv(v)

(***************************************************************************)
(* Co-phased cameras: since a cut at a keyframe, whoever is not primed yet *)
(* still sends its keyframe in this tick; and a keyframe of a tick is past *)
(* the guard for its siblings (WriteRecord's stamp comparison).            *)
(***************************************************************************)
GridFits(v, g) ==
  /\ ~v.hole
  /\ g \in [tick : Nat, key : BOOLEAN, left : SUBSET Cameras]
  /\ ~v.cfg.continuation /\ v.cfg.on_keyframe /\ Writable(v) =>
       /\ v.max_video_ts \in Int
       /\ v.at_keyframe => \A c \in v.ever \ v.primed : g.key /\ c \in g.left
       /\ g.key /\ g.left # Cameras =>
            \E s \in Skews : v.max_video_ts >= 2 * g.tick + s

(* The inductive invariant of the file writer. *)
FileInv == WriterInv(w) /\ (w.threw => w.closed) /\ GridFits(w, grid)

LEMMA SameTrans ==
  ASSUME NEW v, NEW u, NEW x, NEW A, NEW B, Same(v, u, A), Same(u, x, B)
  PROVE  Same(v, x, A \cup B)
BY DEF Same

LEMMA SameMore ==
  ASSUME NEW v, NEW u, NEW A, NEW B, Same(v, u, A), A \subseteq B
  PROVE  Same(v, u, B)
BY DEF Same

(***************************************************************************)
(* Storage.                                                                *)
(***************************************************************************)
NoteFields == {"failed", "lost", "refused", "faults"}

(* A storage step fails, or changes nothing; it takes back no refusal. *)
LEMMA StoredOutcome ==
  ASSUME NEW v, IsWriter(v), NEW lossy, NEW u \in Stored(v, lossy)
  PROVE  IsWriter(u) /\ Same(v, u, NoteFields) /\ (v.refused => u.refused)
<1>1. CASE u = v
  BY <1>1 DEF Same
<1>2. ASSUME NEW ends \in BOOLEAN, u = Note(v, lossy, ends)
      PROVE  IsWriter(u) /\ Same(v, u, NoteFields) /\ (v.refused => u.refused)
  BY <1>2, Zenon DEF Note, IsWriter, Same, Fields, NoteFields
<1> QED BY <1>1, <1>2 DEF Stored

(***************************************************************************)
(* Opening a part.                                                         *)
(***************************************************************************)
OpenFields ==
  NoteFields \cup {"primed", "max_video_ts", "bytes", "age", "open", "file",
                   "attempts", "skips", "after_end", "starts", "meta", "part",
                   "taken", "ended", "threw"}

KeepsPrimed(v, u) == u.primed = IF v.cfg.continuation THEN v.primed ELSE {}

(* u is v with a new part. *)
NewPart(v, u) ==
  /\ u.open /\ ~u.threw /\ ~u.ended /\ u.attempts = 0 /\ u.skips = 0
  /\ u.file = u.part /\ u.bytes = 0 /\ u.max_video_ts = -1
  /\ u.starts = [c \in Cameras |-> NoFrame]
  /\ u.meta = [reason |-> v.reason, point |-> v.point]
  /\ KeepsPrimed(v, u)

(* u is v after OpenPart gave up. *)
NoPartOpened(v, u) ==
  /\ ~u.open /\ u.threw /\ u.ended /\ u.attempts = 0 /\ u.skips = 0
  /\ u.bytes = 0 /\ u.starts = v.starts /\ u.meta = v.meta
  /\ KeepsPrimed(v, u)

(* u is v after n failed attempts, with at least one left. *)
StillTrying(v, u, n) ==
  /\ ~u.open /\ ~u.threw /\ ~u.refused /\ ~u.ended
  /\ u.attempts \in Nat /\ u.skips \in Nat /\ u.attempts + u.skips = n
  /\ u.attempts < MaxAttempts /\ u.skips <= MaxSkips
  /\ u.starts = v.starts /\ u.meta = v.meta
  /\ v.cfg.continuation => u.primed = v.primed

Openable(v) ==
  /\ IsWriter(v) /\ Opening(v) /\ ~v.open /\ ~v.refused /\ ~v.ended /\ ~v.threw
  /\ v.attempts = 0 /\ v.skips = 0

(* What every point of the loop keeps. *)
Along(v, u) == IsWriter(u) /\ Same(v, u, OpenFields) /\ Opening(u)

LEMMA BegunOutcome ==
  ASSUME NEW v, IsWriter(v), NEW u, u = Begun(v)
  PROVE  /\ IsWriter(u) /\ KeepsPrimed(v, u) /\ u.bytes = 0 /\ u.max_video_ts = -1
         /\ Same(v, u, {"primed", "max_video_ts", "bytes", "age", "failed", "lost"})
BY Zenon DEF Begun, Fields, IsWriter, KeepsPrimed, Same

LEMMA OpenedOutcome ==
  ASSUME NEW b, IsWriter(b), NEW u \in Opened(b)
  PROVE  /\ IsWriter(u) /\ u.open /\ u.file = b.part /\ u.attempts = 0 /\ u.skips = 0
         /\ u.after_end = (b.after_end \/ storage_refused(b))
         /\ u.starts = [c \in Cameras |-> NoFrame]
         /\ u.meta = [reason |-> b.reason, point |-> b.point]
         /\ Same(b, u, NoteFields \cup {"open", "file", "attempts", "skips",
                                        "after_end", "starts", "meta"})
<1> DEFINE r == [b EXCEPT !.open = TRUE, !.file = b.part, !.attempts = 0, !.skips = 0,
                   !.after_end = @ \/ storage_refused(b),
                   !.starts = [c \in Cameras |-> NoFrame],
                   !.meta = [reason |-> b.reason, point |-> b.point]]
<1>1. u \in Stored(r, TRUE)
  BY DEF Opened
<1>2. /\ IsWriter(r) /\ r.open = TRUE /\ r.file = b.part /\ r.attempts = 0 /\ r.skips = 0
      /\ r.after_end = (b.after_end \/ storage_refused(b))
      /\ r.starts = [c \in Cameras |-> NoFrame]
      /\ r.meta = [reason |-> b.reason, point |-> b.point]
      /\ Same(b, r, {"open", "file", "attempts", "skips", "after_end", "starts", "meta"})
  BY Zenon DEF Fields, IsWriter, Same
<1> HIDE DEF r
<1>3. IsWriter(u) /\ Same(r, u, NoteFields)
  BY <1>1, <1>2, StoredOutcome
<1>4. /\ u.open = r.open /\ u.file = r.file /\ u.attempts = r.attempts /\ u.skips = r.skips
      /\ u.after_end = r.after_end /\ u.starts = r.starts /\ u.meta = r.meta
  BY <1>3 DEF Same, Fields, NoteFields
<1>5. Same(b, u, NoteFields \cup {"open", "file", "attempts", "skips",
                                  "after_end", "starts", "meta"})
  BY <1>2, <1>3 DEF Same
<1> QED BY <1>2, <1>3, <1>4, <1>5

LEMMA EndOpeningOutcome ==
  ASSUME NEW b, IsWriter(b), NEW ends, NEW u, u = EndOpening(b, ends)
  PROVE  /\ IsWriter(u) /\ u.ended = TRUE /\ u.threw = TRUE /\ u.attempts = 0 /\ u.skips = 0
         /\ Same(b, u, {"refused", "failed", "ended", "threw", "attempts", "skips"})
BY Zenon DEF EndOpening, IsWriter, Same, Fields

(* One turn opens the part, gives up, or has one attempt less. *)
LEMMA TurnOutcome ==
  ASSUME NEW v, Openable(v), NEW n \in Nat, NEW y, Along(v, y), StillTrying(v, y, n),
         NEW u \in TryOpenPart(y)
  PROVE  Along(v, u) /\ (NewPart(v, u) \/ NoPartOpened(v, u) \/ StillTrying(v, u, n + 1))
<1> DEFINE b == Begun(y)
           missed == [b EXCEPT !.faults = @ - 1]
           tried == [missed EXCEPT !.attempts = @ + 1]
           skipped == [missed EXCEPT !.skips = @ + 1]
<1>1. /\ IsWriter(b) /\ KeepsPrimed(y, b) /\ b.bytes = 0 /\ b.max_video_ts = -1
      /\ Same(y, b, {"primed", "max_video_ts", "bytes", "age", "failed", "lost"})
  BY BegunOutcome DEF Along
<1> HIDE DEF b
<1>2. /\ ~b.open /\ ~b.threw /\ ~b.refused /\ ~b.ended /\ b.attempts = y.attempts
      /\ b.skips = y.skips /\ b.starts = y.starts /\ b.meta = y.meta /\ b.part = y.part
      /\ b.kept = y.kept /\ b.taken = y.taken /\ b.closed_twice = y.closed_twice
      /\ b.after_end = y.after_end /\ b.cfg = y.cfg /\ b.reason = y.reason
      /\ b.point = y.point
  BY <1>1 DEF Same, Fields, StillTrying
<1>3. y.cfg = v.cfg /\ y.reason = v.reason /\ y.point = v.point
  BY DEF Along, Same, Fields, OpenFields, NoteFields
<1>4. KeepsPrimed(v, b)
  BY <1>1, <1>3 DEF KeepsPrimed, StillTrying
<1>5. Same(v, b, OpenFields)
  BY <1>1 DEF Same, Along, OpenFields, NoteFields
<1>6. ASSUME u \in Opened(b) PROVE Along(v, u) /\ NewPart(v, u)
  <2>1. /\ IsWriter(u) /\ u.open /\ u.file = b.part /\ u.attempts = 0 /\ u.skips = 0
        /\ u.after_end = (b.after_end \/ storage_refused(b))
        /\ u.starts = [c \in Cameras |-> NoFrame]
        /\ u.meta = [reason |-> b.reason, point |-> b.point]
        /\ Same(b, u, NoteFields \cup {"open", "file", "attempts", "skips",
                                       "after_end", "starts", "meta"})
    BY <1>1, <1>6, OpenedOutcome
  <2>2. /\ u.threw = b.threw /\ u.ended = b.ended /\ u.part = b.part /\ u.bytes = b.bytes
        /\ u.max_video_ts = b.max_video_ts /\ u.primed = b.primed
        /\ u.kept = b.kept /\ u.taken = b.taken /\ u.closed_twice = b.closed_twice
    BY <2>1 DEF Same, Fields, NoteFields
  <2>3. NewPart(v, u)
    BY <1>1, <1>2, <1>3, <1>4, <2>1, <2>2, Zenon DEF NewPart, KeepsPrimed
  <2>4. ~u.after_end
    BY <1>2, <2>1 DEF Along, Opening, storage_refused
  <2>5. Opening(u)
    BY <1>2, <2>2, <2>4, Zenon DEF Along, Opening
  <2>6. Same(v, u, OpenFields)
    BY <1>5, <2>1 DEF Same, OpenFields
  <2> QED BY <2>1, <2>3, <2>5, <2>6 DEF Along
<1>7. /\ IsWriter(missed) /\ Same(b, missed, {"faults"})
      /\ IsWriter(tried) /\ tried.attempts = b.attempts + 1 /\ Same(b, tried, {"faults", "attempts"})
      /\ IsWriter(skipped) /\ skipped.skips = b.skips + 1 /\ Same(b, skipped, {"faults", "skips"})
  BY <1>1, Zenon DEF IsWriter, Same, Fields
<1> HIDE DEF missed, tried, skipped
(* Whatever the attempt cost, giving up leaves the numbers as they were.   *)
<1>8. ASSUME NEW x, IsWriter(x), Same(b, x, {"faults", "attempts", "skips"}), NEW ends,
             u = EndOpening(x, ends)
      PROVE  Along(v, u) /\ NoPartOpened(v, u)
  <2>1. /\ IsWriter(u) /\ u.ended = TRUE /\ u.threw = TRUE /\ u.attempts = 0 /\ u.skips = 0
        /\ Same(x, u, {"refused", "failed", "ended", "threw", "attempts", "skips"})
    BY <1>8, EndOpeningOutcome
  <2>2. Same(b, u, NoteFields \cup {"ended", "threw", "attempts", "skips"})
    BY <1>8, <2>1 DEF Same, NoteFields
  <2>3. /\ u.open = b.open /\ u.part = b.part /\ u.bytes = b.bytes /\ u.starts = b.starts
        /\ u.meta = b.meta /\ u.kept = b.kept /\ u.taken = b.taken /\ u.primed = b.primed
        /\ u.closed_twice = b.closed_twice /\ u.after_end = b.after_end
    BY <2>2 DEF Same, Fields, NoteFields
  <2>4. NoPartOpened(v, u)
    BY <1>1, <1>2, <1>4, <2>1, <2>3 DEF NoPartOpened, KeepsPrimed, StillTrying
  <2>5. Opening(u)
    BY <1>2, <2>3, Zenon DEF Along, Opening
  <2>6. Same(v, u, OpenFields)
    BY <1>5, <2>2 DEF Same, OpenFields
  <2> QED BY <2>1, <2>4, <2>5, <2>6 DEF Along
(* An attempt that may be repeated takes the next name or the same again.  *)
<1>9. ASSUME NEW x, IsWriter(x), Same(b, x, {"faults", "attempts", "skips"}),
             x.attempts \in Nat, x.skips \in Nat, x.attempts + x.skips = n + 1,
             NEW name_taken \in BOOLEAN, u = Retried(x, name_taken)
      PROVE  Along(v, u) /\ (NoPartOpened(v, u) \/ StillTrying(v, u, n + 1))
  <2>1. CASE ~OpenMayRetry(x, name_taken)
    BY <1>8, <1>9, <2>1 DEF Retried
  <2>2. CASE OpenMayRetry(x, name_taken)
    <3>1. u = [x EXCEPT !.part = NextName(x, name_taken),
                        !.taken = IF name_taken THEN @ \cup {x.part} ELSE @]
      BY <1>9, <2>2 DEF Retried
    <3>2. /\ IsWriter(u) /\ u.part = NextName(x, name_taken)
          /\ u.taken = (IF name_taken THEN x.taken \cup {x.part} ELSE x.taken)
          /\ Same(x, u, {"part", "taken"})
      BY <1>9, <3>1, Zenon DEF IsWriter, Same, Fields
    <3>3. /\ u.attempts = x.attempts /\ u.skips = x.skips
          /\ u.open = b.open /\ u.threw = b.threw /\ u.refused = b.refused
          /\ u.ended = b.ended /\ u.starts = b.starts /\ u.meta = b.meta
          /\ u.primed = b.primed /\ u.kept = b.kept /\ x.part = b.part /\ x.taken = b.taken
          /\ u.closed_twice = b.closed_twice /\ u.after_end = b.after_end
      BY <1>9, <3>2 DEF Same, Fields
    <3>4. StillTrying(v, u, n + 1)
      BY <1>2, <1>4, <1>9, <2>2, <3>3 DEF StillTrying, OpenMayRetry, KeepsPrimed
    <3>5. Opening(u)
      <4>1. y.part \in Nat /\ y.kept \cap y.taken = {} /\ y.kept \cup y.taken = 0 .. y.part - 1
        BY DEF Along, Opening
      <4>2. CASE name_taken
        <5>1. u.part = y.part + 1 /\ u.taken = y.taken \cup {y.part} /\ u.kept = y.kept
          BY <1>2, <3>2, <3>3, <4>2 DEF NextName
        <5>2. 0 .. u.part - 1 = (0 .. y.part - 1) \cup {y.part} /\ y.part \notin 0 .. y.part - 1
          BY <4>1, <5>1
        <5>3. u.kept \cap u.taken = {} /\ u.kept \cup u.taken = 0 .. u.part - 1
          BY <4>1, <5>1, <5>2, Zenon
        <5> QED BY <1>2, <3>3, <4>1, <5>1, <5>3 DEF Opening, Along
      <4>3. CASE ~name_taken
        BY <1>2, <3>2, <3>3, <4>1, <4>3 DEF NextName, Opening, Along
      <4> QED BY <4>2, <4>3
    <3>6. Same(v, u, OpenFields)
      BY <1>5, <1>9, <3>2 DEF Same, OpenFields, NoteFields
    <3> QED BY <3>2, <3>4, <3>5, <3>6 DEF Along
  <2> QED BY <2>1, <2>2
<1>10. /\ tried.attempts \in Nat /\ tried.skips \in Nat /\ tried.attempts + tried.skips = n + 1
       /\ skipped.attempts \in Nat /\ skipped.skips \in Nat
       /\ skipped.attempts + skipped.skips = n + 1
  <2>1. tried.skips = b.skips /\ skipped.attempts = b.attempts
    BY <1>7 DEF Same, Fields
  <2> QED BY <1>2, <1>7, <2>1 DEF StillTrying
<1>11. \/ u \in Opened(b) \/ u = Retried(tried, FALSE) \/ u = Retried(tried, TRUE)
       \/ u = Retried(skipped, TRUE) \/ u = EndOpening(missed, TRUE)
  BY Zenon DEF TryOpenPart, b, missed, tried, skipped
<1>12. /\ Same(b, tried, {"faults", "attempts", "skips"})
       /\ Same(b, skipped, {"faults", "attempts", "skips"})
       /\ Same(b, missed, {"faults", "attempts", "skips"})
  BY <1>7 DEF Same
<1> QED BY <1>6, <1>7, <1>8, <1>9, <1>10, <1>11, <1>12, Zenon

(***************************************************************************)
(* The recursion behind OpenPart, up to a number of turns.                 *)
(***************************************************************************)
TurnsOf(v, top, f) ==
  f = [turns \in 0 .. top |-> IF turns = 0 THEN {v} ELSE NextTurn(f[turns - 1])]

(* It has a solution: the least number of turns without one would have one *)
(* made from the solution for one turn less.                               *)
LEMMA TurnsExist == ASSUME NEW v, NEW top \in Nat PROVE \E f : TurnsOf(v, top, f)
<1> DEFINE Bad == {n \in Nat : ~ \E f : TurnsOf(v, n, f)}
<1>1. ASSUME NEW n \in Nat, NEW f, TurnsOf(v, n, f) PROVE \E g : TurnsOf(v, n + 1, g)
  <2> DEFINE g == [k \in 0 .. n + 1 |-> IF k = 0 THEN {v} ELSE NextTurn(f[k - 1])]
  <2>1. \A k \in 0 .. n : g[k] = f[k]
    <3>1. f = [k \in 0 .. n |-> IF k = 0 THEN {v} ELSE NextTurn(f[k - 1])]
      BY <1>1 DEF TurnsOf
    <3>2. \A k \in 0 .. n : f[k] = IF k = 0 THEN {v} ELSE NextTurn(f[k - 1])
      BY <3>1, Zenon
    <3>3. \A k \in 0 .. n : k \in 0 .. n + 1
      OBVIOUS
    <3> QED BY <3>2, <3>3, Zenon
  <2>2. \A k \in 0 .. n + 1 : k # 0 => k - 1 \in 0 .. n
    OBVIOUS
  <2>3. \A k \in 0 .. n + 1 : g[k] = IF k = 0 THEN {v} ELSE NextTurn(g[k - 1])
    BY <2>1, <2>2
  <2>4. TurnsOf(v, n + 1, g)
    BY <2>3 DEF TurnsOf
  <2> QED BY <2>4
<1>2. TurnsOf(v, 0, [k \in 0 .. 0 |-> {v}])
  BY DEF TurnsOf
<1>3. Bad = {}
  <2> SUFFICES ASSUME Bad # {} PROVE FALSE
    OBVIOUS
  <2>1. PICK n \in Bad : \A k \in Bad : n <= k
    BY LeastNat
  <2>2. n # 0
    BY <1>2, <2>1
  <2>3. n - 1 \in Nat /\ n - 1 \notin Bad /\ (n - 1) + 1 = n
    BY <2>1, <2>2
  <2> QED BY <1>1, <2>1, <2>3
<1> QED BY <1>3

LEMMA TurnsEquation ==
  ASSUME NEW v PROVE
  \E f : /\ OpenPart(v) = f[MaxAttempts + MaxSkips] /\ f[0] = {v}
         /\ \A n \in 1 .. MaxAttempts + MaxSkips : f[n] = NextTurn(f[n - 1])
<1> DEFINE top == MaxAttempts + MaxSkips
           f == CHOOSE g : TurnsOf(v, top, g)
<1>1. top \in Nat
  BY PartsAssumption
<1>2. TurnsOf(v, top, f)
  BY <1>1, TurnsExist
<1>3. OpenPart(v) = f[top]
  BY DEF OpenPart, TurnsOf
<1> HIDE DEF f
<1>4. f[0] = {v} /\ \A n \in 1 .. top : f[n] = NextTurn(f[n - 1])
  <2>1. f = [k \in 0 .. top |-> IF k = 0 THEN {v} ELSE NextTurn(f[k - 1])]
    BY <1>2 DEF TurnsOf
  <2>2. \A k \in 0 .. top : f[k] = IF k = 0 THEN {v} ELSE NextTurn(f[k - 1])
    BY <2>1, Zenon
  <2>3. 0 \in 0 .. top /\ \A n \in 1 .. top : n \in 0 .. top /\ n # 0
    BY <1>1
  <2> QED BY <2>2, <2>3
<1> QED BY <1>3, <1>4

(* OpenPart leaves a new part, or has given up.                            *)
LEMMA OpenPartOutcome ==
  ASSUME NEW v, Openable(v), NEW u \in OpenPart(v)
  PROVE  Along(v, u) /\ (NewPart(v, u) \/ NoPartOpened(v, u))
<1> DEFINE top == MaxAttempts + MaxSkips
           Fine(n, x) == Along(v, x) /\ (NewPart(v, x) \/ NoPartOpened(v, x)
                                           \/ StillTrying(v, x, n))
<1>1. PICK f : /\ OpenPart(v) = f[top] /\ f[0] = {v}
               /\ \A n \in 1 .. top : f[n] = NextTurn(f[n - 1])
  BY TurnsEquation
<1>2. top \in Nat /\ MaxAttempts \in Nat \ {0} /\ MaxSkips \in Nat
  BY PartsAssumption
<1>3. \A x \in f[0] : Fine(0, x)
  BY <1>1, <1>2 DEF Openable, Along, StillTrying, Same
<1>4. ASSUME NEW n \in 1 .. top, \A x \in f[n - 1] : Fine(n - 1, x), NEW x \in f[n]
      PROVE  Fine(n, x)
  <2>1. PICK y \in f[n - 1] : x \in IF y.threw THEN {y}
                                    ELSE IF y.open THEN {y} ELSE TryOpenPart(y)
    BY <1>1 DEF NextTurn, Then
  <2>2. Fine(n - 1, y)
    BY <1>4
  <2>3. CASE NewPart(v, y) \/ NoPartOpened(v, y)
    BY <2>1, <2>2, <2>3 DEF NewPart, NoPartOpened
  <2>4. CASE StillTrying(v, y, n - 1)
    <3>1. x \in TryOpenPart(y)
      BY <2>1, <2>4 DEF StillTrying
    <3>2. n - 1 \in Nat /\ (n - 1) + 1 = n
      OBVIOUS
    <3> QED BY <2>2, <2>4, <3>1, <3>2, TurnOutcome
  <2> QED BY <2>2, <2>3, <2>4
<1> HIDE DEF Fine
<1> DEFINE Bad == {n \in 0 .. top : ~ \A x \in f[n] : Fine(n, x)}
<1>5. Bad = {}
  <2> SUFFICES ASSUME Bad # {} PROVE FALSE
    OBVIOUS
  <2>0. Bad \in SUBSET Nat
    BY <1>2
  <2>1. PICK n \in Bad : \A k \in Bad : n <= k
    BY <2>0, LeastNat
  <2>2. n # 0
    BY <1>3, <2>1
  <2>3. n \in 1 .. top /\ n - 1 \in 0 .. top /\ n - 1 \notin Bad
    <3>1. n \in 0 .. top
      BY <2>1
    <3>2. n \in 1 .. top /\ n - 1 \in 0 .. top /\ ~(n <= n - 1)
      BY <1>2, <2>2, <3>1
    <3> QED BY <2>1, <3>2
  <2> QED BY <1>4, <2>1, <2>3
<1>6. Fine(top, u)
  BY <1>1, <1>2, <1>5
<1>7. ~StillTrying(v, u, top)
  BY <1>2 DEF StillTrying
<1> QED BY <1>6, <1>7 DEF Fine

(***************************************************************************)
(* Closing a part, and cutting.                                            *)
(***************************************************************************)
(* The current part has a file, and its number is not used yet.            *)
Current(v) == Opening(v) /\ v.file = v.part

LEMMA CurrentPart == ASSUME NEW v, Numbered(v), v.open, ~v.closed PROVE Current(v)
<1>1. /\ v.part \in Nat /\ v.kept \cup v.taken \subseteq 0 .. v.part
      /\ 0 .. v.part - 1 \subseteq v.kept \cup v.taken /\ v.part \notin v.kept \cup v.taken
  BY DEF Numbered
<1>2. \A k \in 0 .. v.part : k # v.part => k \in 0 .. v.part - 1
  BY <1>1
<1>3. v.kept \cup v.taken = 0 .. v.part - 1
  BY <1>1, <1>2
<1> QED BY <1>3 DEF Numbered, Current, Opening

CloseFields == NoteFields \cup {"file", "closed_twice", "kept"}

LEMMA FileClosedOutcome ==
  ASSUME NEW v, IsWriter(v), NEW u, u = FileClosed(v)
  PROVE  /\ IsWriter(u) /\ u.closed_twice = (v.closed_twice \/ v.file # v.part)
         /\ Same(v, u, {"file", "closed_twice"})
BY Zenon DEF FileClosed, IsWriter, Same, Fields

(* A part is kept under its number, or is empty and leaves none.           *)
LEMMA ClosedOutcome ==
  ASSUME NEW v, IsWriter(v), Current(v), NEW u \in CloseCurrentPart(v)
  PROVE  /\ IsWriter(u) /\ Same(v, u, CloseFields) /\ (v.refused => u.refused)
         /\ ~u.closed_twice /\ u.kept \cap u.taken = {}
         /\ 0 .. u.part - 1 \subseteq u.kept \cup u.taken
         /\ u.kept \cup u.taken \subseteq 0 .. u.part
         /\ ~DropsPart(v) => u.kept \cup u.taken = 0 .. u.part
<1>1. /\ v.part \in Nat /\ v.kept \cap v.taken = {} /\ v.kept \cup v.taken = 0 .. v.part - 1
      /\ v.file = v.part /\ ~v.closed_twice
  BY DEF Current, Opening
<1>2. /\ 0 .. v.part - 1 \subseteq 0 .. v.part /\ v.part \notin 0 .. v.part - 1
      /\ (0 .. v.part - 1) \cup {v.part} = 0 .. v.part
  BY <1>1
<1>3. CASE DropsPart(v)
  <2>1. PICK x \in Stored(v, TRUE) : u = FileClosed(x)
    BY <1>3 DEF CloseCurrentPart
  <2>2. IsWriter(x) /\ Same(v, x, NoteFields) /\ (v.refused => x.refused)
    BY StoredOutcome
  <2>3. /\ IsWriter(u) /\ u.closed_twice = (x.closed_twice \/ x.file # x.part)
        /\ Same(x, u, {"file", "closed_twice"})
    BY <2>1, <2>2, FileClosedOutcome
  <2>4. /\ x.closed_twice = v.closed_twice /\ x.file = v.file /\ x.part = v.part
        /\ u.kept = v.kept /\ u.taken = v.taken /\ u.part = v.part /\ u.refused = x.refused
    BY <2>2, <2>3 DEF Same, Fields, NoteFields
  <2>5. Same(v, u, CloseFields)
    BY <2>2, <2>3 DEF Same, CloseFields
  <2> QED BY <1>1, <1>2, <1>3, <2>2, <2>3, <2>4, <2>5
<1>4. CASE ~DropsPart(v)
  <2>0. PICK y \in Stored(v, TRUE) : \E x \in Stored(y, FALSE) :
          u = [FileClosed(x) EXCEPT !.kept = @ \cup {x.part}]
    BY <1>4, Zenon DEF CloseCurrentPart
  <2>1. PICK x \in Stored(y, FALSE) :
          u = [FileClosed(x) EXCEPT !.kept = @ \cup {x.part}]
    BY <2>0
  <2>2. IsWriter(y) /\ Same(v, y, NoteFields) /\ (v.refused => y.refused)
    BY StoredOutcome
  <2>3. IsWriter(x) /\ Same(y, x, NoteFields) /\ (y.refused => x.refused)
    BY <2>2, StoredOutcome
  <2> DEFINE z == FileClosed(x)
  <2>4. /\ IsWriter(z) /\ z.closed_twice = (x.closed_twice \/ x.file # x.part)
        /\ Same(x, z, {"file", "closed_twice"})
    BY <2>3, FileClosedOutcome
  <2>5. u = [z EXCEPT !.kept = @ \cup {x.part}]
    BY <2>1
  <2> HIDE DEF z
  <2>6. IsWriter(u) /\ u.kept = z.kept \cup {x.part} /\ Same(z, u, {"kept"})
    BY <2>4, <2>5, Zenon DEF IsWriter, Same, Fields
  <2>7. /\ x.closed_twice = v.closed_twice /\ x.file = v.file /\ x.part = v.part
        /\ z.kept = v.kept /\ u.taken = v.taken /\ u.part = v.part /\ u.refused = x.refused
        /\ u.closed_twice = z.closed_twice
    BY <2>2, <2>3, <2>4, <2>6 DEF Same, Fields, NoteFields
  <2>8. Same(v, u, CloseFields)
    BY <2>2, <2>3, <2>4, <2>6 DEF Same, CloseFields
  <2>9. u.kept \cup u.taken = 0 .. u.part /\ u.kept \cap u.taken = {}
    BY <1>1, <1>2, <2>6, <2>7, Zenon
  <2>10. ~u.closed_twice
    BY <1>1, <2>4, <2>7
  <2> QED BY <1>2, <2>2, <2>3, <2>6, <2>7, <2>8, <2>9, <2>10
<1> QED BY <1>3, <1>4

RollFields == OpenFields \cup {"kept", "closed_twice"}

(* v was cut to u: a new part, or none, and then the writer takes no more. *)
Rolled(v, u) ==
  /\ IsWriter(u) /\ Same(v, u, RollFields) /\ Numbered(u) /\ (u.threw => ~u.open)
  /\ \/ NewPart(v, u) /\ v.open /\ ~storage_refused(v)
     \/ /\ ~u.open /\ u.starts = v.starts /\ u.meta = v.meta
        /\ u.bytes = v.bytes \/ u.bytes = 0
        /\ u.primed = v.primed \/ KeepsPrimed(v, u)

LEMMA RollOutcome ==
  ASSUME NEW v, IsWriter(v), Numbered(v), ~v.closed, ~v.threw,
         v.open => ~DropsPart(v), NEW u \in Roll(v)
  PROVE  Rolled(v, u)
<1>1. CASE ~v.open
  BY <1>1 DEF Roll, Rolled, Same
<1>2. CASE v.open
  <2>1. PICK x \in CloseCurrentPart(v) :
          u \in IF x.threw THEN {x}
                ELSE IF WriterReset(x).refused THEN {WriterReset(x)}
                     ELSE OpenPart([WriterReset(x) EXCEPT !.part = @ + 1])
    BY <1>2 DEF Roll, Then
  <2>2. /\ IsWriter(x) /\ Same(v, x, CloseFields) /\ ~x.closed_twice
        /\ v.refused => x.refused
        /\ x.kept \cap x.taken = {} /\ x.kept \cup x.taken = 0 .. x.part
    BY <1>2, CurrentPart, ClosedOutcome
  <2> DEFINE y == WriterReset(x)
             z == [y EXCEPT !.part = @ + 1]
  <2>3. IsWriter(y) /\ y.open = FALSE /\ y.refused = x.refused /\ Same(x, y, {"open"})
    BY <2>2, Zenon DEF WriterReset, IsWriter, Same, Fields
  <2>4. /\ x.threw = v.threw /\ x.part = v.part /\ x.attempts = v.attempts
        /\ x.skips = v.skips /\ x.after_end = v.after_end /\ x.ended = v.ended
        /\ x.bytes = v.bytes /\ x.starts = v.starts /\ x.meta = v.meta
        /\ x.primed = v.primed /\ x.cfg = v.cfg /\ x.reason = v.reason /\ x.point = v.point
    BY <2>2 DEF Same, Fields, CloseFields, NoteFields
  <2>5. u \in IF y.refused THEN {y} ELSE OpenPart(z)
    BY <2>1, <2>4
  <2> HIDE DEF y
  <2>6. IsWriter(z) /\ z.part = y.part + 1 /\ Same(y, z, {"part"})
    BY <2>3, Zenon DEF IsWriter, Same, Fields
  <2> HIDE DEF z
  <2>7. /\ y.threw = x.threw /\ y.part = x.part /\ y.attempts = x.attempts
        /\ y.skips = x.skips /\ y.after_end = x.after_end /\ y.ended = x.ended
        /\ y.bytes = x.bytes /\ y.starts = x.starts /\ y.meta = x.meta
        /\ y.primed = x.primed /\ y.cfg = x.cfg /\ y.reason = x.reason /\ y.point = x.point
        /\ y.kept = x.kept /\ y.taken = x.taken /\ y.closed_twice = x.closed_twice
    BY <2>3 DEF Same, Fields
  <2>8. /\ z.threw = y.threw /\ z.attempts = y.attempts
        /\ z.skips = y.skips /\ z.after_end = y.after_end /\ z.ended = y.ended
        /\ z.bytes = y.bytes /\ z.starts = y.starts /\ z.meta = y.meta
        /\ z.primed = y.primed /\ z.cfg = y.cfg /\ z.reason = y.reason /\ z.point = y.point
        /\ z.kept = y.kept /\ z.taken = y.taken /\ z.closed_twice = y.closed_twice
        /\ z.open = y.open /\ z.refused = y.refused
    BY <2>6 DEF Same, Fields
  <2>9. Same(v, y, RollFields)
    BY <2>2, <2>3 DEF Same, RollFields, OpenFields, CloseFields, NoteFields
  <2>10. v.part \in Nat /\ ~v.after_end /\ v.attempts = 0 /\ v.skips = 0 /\ ~v.ended
    BY <1>2 DEF Numbered
  <2>11. CASE y.refused
    <3>1. u = y
      BY <2>5, <2>11
    <3>2. 0 .. v.part - 1 \subseteq 0 .. v.part
      BY <2>10
    <3>3. Numbered(y)
      BY <2>2, <2>3, <2>4, <2>7, <2>10, <2>11, <3>2 DEF Numbered, storage_refused
    <3> QED BY <2>3, <2>4, <2>7, <2>9, <3>1, <3>3 DEF Rolled
  <2>12. CASE ~y.refused
    <3>1. u \in OpenPart(z)
      BY <2>5, <2>12
    <3>2. 0 .. z.part - 1 = 0 .. x.part /\ z.part \in Nat
      BY <2>4, <2>6, <2>7, <2>10
    <3>3. Openable(z)
      BY <2>2, <2>3, <2>4, <2>6, <2>7, <2>8, <2>10, <2>12, <3>2 DEF Openable, Opening
    <3>4. Along(z, u) /\ (NewPart(z, u) \/ NoPartOpened(z, u))
      BY <3>1, <3>3, OpenPartOutcome
    <3>5. Same(v, u, RollFields)
      <4>1. Same(z, u, OpenFields)
        BY <3>4 DEF Along
      <4> QED BY <2>6, <2>9, <4>1 DEF Same, RollFields, OpenFields
    <3>6. NewPart(v, u) \/ (NoPartOpened(z, u) /\ ~u.open /\ u.starts = v.starts
              /\ u.meta = v.meta /\ u.bytes = 0 /\ KeepsPrimed(v, u))
      BY <2>4, <2>7, <2>8, <3>4 DEF NewPart, NoPartOpened, KeepsPrimed
    <3>7. Opening(u)
      BY <3>4 DEF Along
    <3>8. Numbered(u)
      <4>1. u.part \in Nat /\ u.kept \cap u.taken = {} /\ u.kept \cup u.taken = 0 .. u.part - 1
            /\ ~u.closed_twice /\ ~u.after_end
        BY <3>7 DEF Opening
      <4>2. 0 .. u.part - 1 \subseteq 0 .. u.part /\ u.part \notin 0 .. u.part - 1
        BY <4>1
      <4>3. CASE NewPart(v, u)
        BY <4>1, <4>2, <4>3 DEF NewPart, Numbered
      <4>4. CASE NoPartOpened(z, u)
        BY <4>1, <4>2, <4>4 DEF NoPartOpened, Numbered, storage_refused
      <4> QED BY <3>6, <4>3, <4>4
    <3>9. ~storage_refused(v)
      BY <2>2, <2>3, <2>10, <2>12 DEF storage_refused
    <3> QED BY <1>2, <3>4, <3>5, <3>6, <3>8, <3>9 DEF Rolled, Along, NewPart
  <2> QED BY <2>11, <2>12
<1> QED BY <1>1, <1>2

LEMMA RolledTyped ==
  ASSUME NEW v, Typed(v), NEW u, Rolled(v, u) PROVE Typed(u)
<1>1. /\ u.cfg = v.cfg /\ u.staged = v.staged /\ u.status = v.status
      /\ u.cand = v.cand /\ u.ever = v.ever
  BY DEF Rolled, Same, Fields, RollFields, OpenFields, NoteFields
<1>2. u.bytes \in Nat /\ DOMAIN u.starts = Cameras /\ u.primed \subseteq Cameras
  BY DEF Rolled, Typed, NewPart, KeepsPrimed
<1>3. DOMAIN u.meta = {"reason", "point"}
  BY DEF Rolled, Typed, NewPart
<1> QED BY <1>1, <1>2, <1>3 DEF Typed, Rolled

(***************************************************************************)
(* A record goes to storage.                                               *)
(***************************************************************************)
LEMMA MessageFacts ==
  ASSUME NEW m \in Messages
  PROVE  m.key \in BOOLEAN /\ m.size \in Nat /\ m.size <= MaxFrame /\ MaxFrame \in Nat
<1>1. m.key \in BOOLEAN /\ m.size \in 0 .. MaxFrame
  BY RecordsAssumption DEF Messages
<1> QED BY <1>1, RecordsAssumption

WriteFields ==
  NoteFields \cup {"after_end", "bytes", "owed", "max_video_ts", "starts"}

(* m went from v to u, and is in the part. *)
Wrote(v, m, u) ==
  /\ ~u.refused /\ u.bytes = v.bytes + m.size
  /\ u.owed = IF v.status = "Ready" /\ v.cfg.continuation THEN v.owed - 1 ELSE v.owed
  /\ u.max_video_ts = IF IsVideo(m) /\ ~v.cfg.continuation /\ m.stamp > v.max_video_ts
                      THEN m.stamp ELSE v.max_video_ts
  /\ u.starts = IF IsVideo(m) /\ v.starts[m.chan] = NoFrame
                THEN [v.starts EXCEPT ![m.chan] = [key |-> m.key, point |-> m.point]]
                ELSE v.starts

LEMMA AppendedOutcome ==
  ASSUME NEW v, IsWriter(v), NEW m, NEW u \in Appended(v, m)
  PROVE  /\ IsWriter(u) /\ u.after_end = (v.after_end \/ storage_refused(v))
         /\ \/ u.refused /\ Same(v, u, NoteFields \cup {"after_end"})
            \/ Wrote(v, m, u) /\ Same(v, u, WriteFields)
<1> DEFINE r == [v EXCEPT !.after_end = @ \/ storage_refused(v)]
<1>1. /\ IsWriter(r) /\ r.after_end = (v.after_end \/ storage_refused(v))
      /\ Same(v, r, {"after_end"})
  BY Zenon DEF IsWriter, Same, Fields
<1>2. PICK x \in Stored(r, TRUE) :
        u = IF x.refused THEN x
            ELSE [x EXCEPT
                    !.bytes = @ + m.size,
                    !.owed = IF x.status = "Ready" /\ x.cfg.continuation THEN @ - 1 ELSE @,
                    !.max_video_ts = IF IsVideo(m) /\ ~x.cfg.continuation /\ m.stamp > @
                                     THEN m.stamp ELSE @,
                    !.starts = IF IsVideo(m) /\ x.starts[m.chan] = NoFrame
                               THEN [@ EXCEPT ![m.chan] = [key |-> m.key, point |-> m.point]]
                               ELSE @]
  BY Zenon DEF Appended
<1> HIDE DEF r
<1>3. IsWriter(x) /\ Same(r, x, NoteFields)
  BY <1>1, StoredOutcome
<1>4. /\ x.after_end = r.after_end /\ x.status = v.status /\ x.cfg = v.cfg
      /\ x.bytes = v.bytes /\ x.owed = v.owed /\ x.max_video_ts = v.max_video_ts
      /\ x.starts = v.starts
  BY <1>1, <1>3 DEF Same, Fields, NoteFields
<1>5. Same(v, x, NoteFields \cup {"after_end"})
  BY <1>1, <1>3 DEF Same
<1>6. CASE x.refused
  BY <1>1, <1>2, <1>3, <1>4, <1>5, <1>6
<1>7. CASE ~x.refused
  <2>1. /\ IsWriter(u) /\ Same(x, u, {"bytes", "owed", "max_video_ts", "starts"})
        /\ u.bytes = x.bytes + m.size
        /\ u.owed = (IF x.status = "Ready" /\ x.cfg.continuation THEN x.owed - 1 ELSE x.owed)
        /\ u.max_video_ts = (IF IsVideo(m) /\ ~x.cfg.continuation /\ m.stamp > x.max_video_ts
                             THEN m.stamp ELSE x.max_video_ts)
        /\ u.starts = (IF IsVideo(m) /\ x.starts[m.chan] = NoFrame
                       THEN [x.starts EXCEPT ![m.chan] = [key |-> m.key, point |-> m.point]]
                       ELSE x.starts)
    BY <1>2, <1>3, <1>7, Zenon DEF IsWriter, Same, Fields
  <2>2. u.refused = x.refused /\ u.after_end = x.after_end
    BY <2>1 DEF Same, Fields
  <2>3. Same(v, u, WriteFields)
    BY <1>5, <2>1 DEF Same, WriteFields
  <2>4. Wrote(v, m, u)
    BY <1>4, <1>7, <2>1, <2>2 DEF Wrote
  <2> QED BY <1>1, <1>4, <2>1, <2>2, <2>3, <2>4
<1> QED BY <1>6, <1>7

(***************************************************************************)
(* The continuation policy, within a call: its records go to the part as   *)
(* they come, and nothing it staged is overtaken.                          *)
(***************************************************************************)
Going(v) ==
  /\ Typed(v) /\ Numbered(v) /\ v.cfg.continuation /\ ~v.closed
  /\ ~v.overtook /\ ~v.hole /\ ~v.at_keyframe /\ (v.threw => ~v.open)

LEMMA RolledGoing ==
  ASSUME NEW v, Going(v), NEW u, Rolled(v, u) PROVE Going(u)
<1>1. /\ u.cfg = v.cfg /\ u.closed = v.closed /\ u.overtook = v.overtook
      /\ u.hole = v.hole /\ u.at_keyframe = v.at_keyframe
  BY DEF Rolled, Same, Fields, RollFields, OpenFields, NoteFields
<1>2. Typed(u)
  BY RolledTyped DEF Going
<1> QED BY <1>1, <1>2 DEF Going, Rolled

RecordFields == WriteFields \cup {"primed", "ever", "hole"}

(* m was taken from v to u: written, refused, or dropped at the gate.      *)
Taken(v, m, u) ==
  /\ Going(u) /\ Same(v, u, RecordFields) /\ v.primed \subseteq u.primed
  /\ \/ /\ Writable(v) /\ Writable(u) /\ Wrote(v, m, u)
        /\ IsVideo(m) => m.chan \in u.primed /\ (m.key \/ m.chan \in v.primed)
     \/ ~Writable(u) /\ u.bytes = v.bytes /\ u.starts = v.starts
     \/ Same(v, u, {"hole"}) /\ IsVideo(m) /\ ~m.key /\ m.chan \notin v.primed

LEMMA ContinuationTakes ==
  ASSUME NEW v, Going(v), NEW m \in Messages, Belongs(v, m),
         NEW u \in WriteRecord(v, m)
  PROVE  Taken(v, m, u)
<1>1. CASE ~Writable(v)
  BY <1>1 DEF WriteRecord, Taken, Same
<1>2. CASE Writable(v)
  <2>1. LegacyRoll(v, m) = {v}
    BY DEF LegacyRoll, Going
  <2>3. ~v.refused /\ ~v.ended /\ v.open /\ ~v.closed /\ ~v.threw
    BY <1>2 DEF Writable, storage_refused, Going
  <2>2. u \in WarmedUp(v, m)
    BY <1>2, <2>1, <2>3 DEF WriteRecord, Then
  (* An append keeps what Going says, whatever it primes.                  *)
  <2>4. ASSUME NEW x, Going(x), Same(v, x, {"primed", "ever"}), v.primed \subseteq x.primed,
               IsVideo(m) => m.chan \in x.primed /\ (m.key \/ m.chan \in v.primed),
               u \in Appended(x, m)
        PROVE  Taken(v, m, u)
    <3>1. /\ IsWriter(u) /\ u.after_end = (x.after_end \/ storage_refused(x))
          /\ \/ u.refused /\ Same(x, u, NoteFields \cup {"after_end"})
             \/ Wrote(x, m, u) /\ Same(x, u, WriteFields)
      BY <2>4, AppendedOutcome DEF Going, Typed
    <3>2. Same(x, u, WriteFields)
      BY <3>1 DEF Same, WriteFields
    <3>3. Same(v, u, RecordFields)
      BY <2>4, <3>2 DEF Same, RecordFields
    <3>4. /\ x.after_end = v.after_end /\ x.refused = v.refused /\ x.ended = v.ended
          /\ x.bytes = v.bytes /\ x.starts = v.starts /\ x.owed = v.owed
          /\ x.status = v.status /\ x.cfg = v.cfg /\ x.max_video_ts = v.max_video_ts
      BY <2>4 DEF Same, Fields
    <3>5. /\ u.primed = x.primed /\ u.ever = x.ever /\ u.cfg = v.cfg /\ u.staged = v.staged
          /\ u.status = v.status /\ u.cand = v.cand /\ u.meta = v.meta /\ u.part = v.part /\ u.kept = v.kept
          /\ u.taken = v.taken /\ u.closed_twice = v.closed_twice
          /\ u.attempts = v.attempts /\ u.skips = v.skips /\ u.open = v.open
          /\ u.closed = v.closed /\ u.file = v.file /\ u.ended = v.ended
          /\ u.threw = v.threw /\ u.overtook = v.overtook /\ u.at_keyframe = v.at_keyframe /\ u.hole = x.hole
      BY <3>2, <3>3 DEF Same, Fields, RecordFields, WriteFields, NoteFields
    <3>6. ~u.after_end
      BY <2>3, <3>1, <3>4 DEF storage_refused, Going, Numbered
    <3>7. Numbered(u)
      BY <2>3, <3>5, <3>6 DEF Going, Numbered
    <3>8. CASE u.refused /\ Same(x, u, NoteFields \cup {"after_end"})
      <4>1. u.bytes = v.bytes /\ u.starts = v.starts
        BY <3>4, <3>8 DEF Same, Fields, NoteFields
      <4>2. Going(u)
        BY <2>4, <3>1, <3>5, <3>7, <4>1 DEF Going, Typed
      <4>3. ~Writable(u)
        BY <3>8 DEF Writable, storage_refused
      <4> QED BY <2>4, <3>3, <3>5, <4>1, <4>2, <4>3 DEF Taken
    <3>9. CASE Wrote(x, m, u)
      <4>1. Wrote(v, m, u)
        BY <3>4, <3>9 DEF Wrote
      <4>2. u.bytes \in Nat
        BY <3>9, <3>4, MessageFacts DEF Wrote, Going, Typed
      <4>3. DOMAIN u.starts = Cameras
        BY <4>1 DEF Wrote, Going, Typed
      <4>4. Going(u)
        BY <2>4, <3>1, <3>5, <3>7, <4>2, <4>3 DEF Going, Typed
      <4>5. Writable(u)
        BY <2>3, <3>5, <3>9 DEF Writable, storage_refused, Wrote
      <4> QED BY <1>2, <2>4, <3>3, <3>5, <4>1, <4>4, <4>5 DEF Taken
    <3> QED BY <3>1, <3>8, <3>9
  <2>5. CASE ~Gated(v, m)
    <3>1. u \in Appended(v, m)
      BY <2>2, <2>5 DEF WarmedUp
    <3>2. IsVideo(m) => m.chan \in v.primed
      BY <2>5 DEF Gated, Belongs, Going
    <3> QED BY <2>4, <3>1, <3>2 DEF Same
  <2>6. CASE Gated(v, m) /\ ~m.key
    <3>1. u = [v EXCEPT !.hole = @ \/ (m.chan \in v.ever /\ v.at_keyframe)]
      BY <2>2, <2>6 DEF WarmedUp
    <3>2. IsWriter(u) /\ ~u.hole /\ Same(v, u, {"hole"})
      BY <3>1, Zenon DEF IsWriter, Same, Fields, Going, Typed
    <3>3. /\ u.primed = v.primed /\ u.ever = v.ever /\ u.cfg = v.cfg /\ u.staged = v.staged
          /\ u.status = v.status /\ u.cand = v.cand /\ u.meta = v.meta /\ u.part = v.part /\ u.kept = v.kept
          /\ u.taken = v.taken /\ u.closed_twice = v.closed_twice
          /\ u.attempts = v.attempts /\ u.skips = v.skips /\ u.open = v.open
          /\ u.closed = v.closed /\ u.file = v.file /\ u.ended = v.ended
          /\ u.threw = v.threw /\ u.overtook = v.overtook /\ u.at_keyframe = v.at_keyframe
          /\ u.after_end = v.after_end /\ u.refused = v.refused /\ u.bytes = v.bytes
          /\ u.starts = v.starts
      BY <3>2 DEF Same, Fields
    <3>4. Numbered(u)
      BY <3>3 DEF Going, Numbered, storage_refused
    <3>5. Going(u)
      BY <3>2, <3>3, <3>4 DEF Going, Typed
    <3>6. Same(v, u, RecordFields)
      BY <3>2 DEF Same, RecordFields
    <3> QED BY <2>6, <3>2, <3>3, <3>5, <3>6 DEF Taken, Gated
  <2>7. CASE Gated(v, m) /\ m.key
    <3> DEFINE x == [v EXCEPT !.primed = @ \cup {m.chan}, !.ever = @ \cup {m.chan}]
    <3>1. u \in Appended(x, m)
      BY <2>2, <2>7 DEF WarmedUp
    <3>2. /\ IsWriter(x) /\ x.primed = v.primed \cup {m.chan} /\ x.ever = v.ever \cup {m.chan}
          /\ Same(v, x, {"primed", "ever"})
      BY Zenon DEF IsWriter, Same, Fields, Going, Typed
    <3> HIDE DEF x
    <3>3. m.chan \in Cameras
      BY <2>7 DEF Gated, IsVideo
    <3>4. /\ x.cfg = v.cfg /\ x.staged = v.staged
          /\ x.status = v.status /\ x.cand = v.cand /\ x.meta = v.meta /\ x.part = v.part /\ x.kept = v.kept
          /\ x.taken = v.taken /\ x.closed_twice = v.closed_twice
          /\ x.attempts = v.attempts /\ x.skips = v.skips /\ x.open = v.open
          /\ x.closed = v.closed /\ x.file = v.file /\ x.ended = v.ended
          /\ x.threw = v.threw /\ x.overtook = v.overtook /\ x.at_keyframe = v.at_keyframe
          /\ x.after_end = v.after_end /\ x.refused = v.refused /\ x.bytes = v.bytes
          /\ x.starts = v.starts /\ x.hole = v.hole
      BY <3>2 DEF Same, Fields
    <3>5. Numbered(x)
      BY <3>4 DEF Going, Numbered, storage_refused
    <3>6. Going(x)
      BY <3>2, <3>3, <3>4, <3>5 DEF Going, Typed
    <3> QED BY <2>4, <2>7, <3>1, <3>2, <3>6
  <2> QED BY <2>5, <2>6, <2>7
<1> QED BY <1>1, <1>2

(***************************************************************************)
(* Cuts of the continuation policy.                                        *)
(***************************************************************************)
LEMMA CeilingFacts ==
  ASSUME NEW v, Typed(v)
  PROVE  /\ v.cfg.max_bytes \in Nat /\ Ceiling(v) \in Nat
         /\ v.cfg.max_bytes <= Ceiling(v) /\ v.cfg.max_staged \in Nat
<1>1. v.cfg.max_bytes \in Nat /\ v.cfg.max_staged \in Nat
  BY ConfigsAssumption DEF Typed
<1> QED BY <1>1 DEF Ceiling

LEMMA ForcedHasBytes ==
  ASSUME NEW v, Typed(v), ForcedCutDue(v) PROVE v.bytes > 0
BY CeilingFacts DEF ForcedCutDue, MustCut, Typed

LEMMA DueHasBytes == ASSUME NEW v, ShouldRoll(v) PROVE v.bytes > 0
BY DEF ShouldRoll

CutFields == RollFields \cup {"reason"}

(* y was cut to u for this reason, or lost its part for good.              *)
CutTo(y, reason, u) ==
  \/ /\ Writable(y) /\ u.open /\ ~u.threw /\ u.bytes = 0
     /\ u.starts = [c \in Cameras |-> NoFrame]
     /\ u.meta = [reason |-> reason, point |-> y.point]
  \/ ~u.open /\ u.starts = y.starts /\ u.meta = y.meta
     /\ (u.bytes = y.bytes \/ u.bytes = 0)

LEMMA RollAsOutcome ==
  ASSUME NEW y, Going(y), ~y.threw, y.open => y.bytes > 0, NEW reason,
         NEW u \in RollAs(y, reason)
  PROVE  /\ Going(u) /\ Same(y, u, CutFields) /\ u.primed = y.primed
         /\ CutTo(y, reason, u)
<1> DEFINE r == [y EXCEPT !.reason = reason]
<1>1. IsWriter(r) /\ r.reason = reason /\ Same(y, r, {"reason"})
  BY Zenon DEF IsWriter, Same, Fields, Going, Typed
<1>2. u \in Roll(r)
  BY DEF RollAs
<1> HIDE DEF r
<1>3. /\ r.cfg = y.cfg /\ r.staged = y.staged /\ r.bytes = y.bytes /\ r.status = y.status
      /\ r.starts = y.starts /\ r.meta = y.meta /\ r.cand = y.cand /\ r.primed = y.primed
      /\ r.ever = y.ever /\ r.part = y.part /\ r.kept = y.kept /\ r.taken = y.taken
      /\ r.closed_twice = y.closed_twice /\ r.after_end = y.after_end
      /\ r.attempts = y.attempts /\ r.skips = y.skips /\ r.open = y.open
      /\ r.closed = y.closed /\ r.file = y.file /\ r.ended = y.ended /\ r.refused = y.refused
      /\ r.overtook = y.overtook /\ r.hole = y.hole /\ r.at_keyframe = y.at_keyframe
      /\ r.threw = y.threw /\ r.point = y.point
  BY <1>1 DEF Same, Fields
<1>4. Numbered(r)
  BY <1>3 DEF Going, Numbered, storage_refused
<1>5. Going(r)
  BY <1>1, <1>3, <1>4 DEF Going, Typed
<1>6. r.open => ~DropsPart(r)
  BY <1>3 DEF DropsPart, Going, Typed
<1>7. Rolled(r, u)
  BY <1>1, <1>2, <1>3, <1>4, <1>6, RollOutcome DEF Going
<1>8. Going(u)
  BY <1>5, <1>7, RolledGoing
<1>9. Same(y, u, CutFields)
  BY <1>1, <1>7 DEF Same, Rolled, CutFields
<1>10. u.primed = y.primed
  BY <1>3, <1>7 DEF Rolled, NewPart, KeepsPrimed, Going
<1>11. CutTo(y, reason, u)
  BY <1>1, <1>3, <1>7 DEF Rolled, NewPart, CutTo, Going, Writable, storage_refused
<1> QED BY <1>8, <1>9, <1>10, <1>11

LEMMA ForcedOutcome ==
  ASSUME NEW y, Going(y), ~y.threw, NEW u \in ForceRollIfDue(y)
  PROVE  /\ Going(u) /\ Same(y, u, CutFields) /\ u.primed = y.primed
         /\ \/ u = y /\ ~ForcedCutDue(y)
            \/ CutTo(y, "forced", u)
<1>1. CASE ForcedCutDue(y)
  BY <1>1, ForcedHasBytes, RollAsOutcome DEF ForceRollIfDue, Going
<1>2. CASE ~ForcedCutDue(y)
  BY <1>2 DEF ForceRollIfDue, Same
<1> QED BY <1>1, <1>2

(***************************************************************************)
(* What is staged, in bytes.                                               *)
(***************************************************************************)
(* f[n] is the size of the first n entries of s.                           *)
Sizes(s, f) == f[0] = 0 /\ \A n \in 1 .. Len(s) : f[n] = f[n - 1] + s[n].size

SizesOf(s, top, f) ==
  f = [n \in 0 .. top |-> IF n = 0 THEN 0 ELSE f[n - 1] + s[n].size]

LEMMA SizesExist == ASSUME NEW s, NEW top \in Nat PROVE \E f : SizesOf(s, top, f)
<1> DEFINE Bad == {n \in Nat : ~ \E f : SizesOf(s, n, f)}
<1>1. ASSUME NEW n \in Nat, NEW f, SizesOf(s, n, f) PROVE \E g : SizesOf(s, n + 1, g)
  <2> DEFINE g == [k \in 0 .. n + 1 |-> IF k = 0 THEN 0 ELSE f[k - 1] + s[k].size]
  <2>1. \A k \in 0 .. n : g[k] = f[k]
    <3>1. f = [k \in 0 .. n |-> IF k = 0 THEN 0 ELSE f[k - 1] + s[k].size]
      BY <1>1 DEF SizesOf
    <3>2. \A k \in 0 .. n : f[k] = IF k = 0 THEN 0 ELSE f[k - 1] + s[k].size
      BY <3>1, Zenon
    <3>3. \A k \in 0 .. n : k \in 0 .. n + 1
      OBVIOUS
    <3> QED BY <3>2, <3>3, Zenon
  <2>2. \A k \in 0 .. n + 1 : k # 0 => k - 1 \in 0 .. n
    OBVIOUS
  <2>3. \A k \in 0 .. n + 1 : g[k] = IF k = 0 THEN 0 ELSE g[k - 1] + s[k].size
    BY <2>1, <2>2
  <2>4. SizesOf(s, n + 1, g)
    BY <2>3 DEF SizesOf
  <2> QED BY <2>4
<1>2. SizesOf(s, 0, [k \in 0 .. 0 |-> 0])
  BY DEF SizesOf
<1>3. Bad = {}
  <2> SUFFICES ASSUME Bad # {} PROVE FALSE
    OBVIOUS
  <2>1. PICK n \in Bad : \A k \in Bad : n <= k
    BY LeastNat
  <2>2. n # 0
    BY <1>2, <2>1
  <2>3. n - 1 \in Nat /\ n - 1 \notin Bad /\ (n - 1) + 1 = n
    BY <2>1, <2>2
  <2> QED BY <1>1, <2>1, <2>3
<1> QED BY <1>3

LEMMA StagedSizes ==
  ASSUME NEW v, v.staged \in Seq(Messages)
  PROVE  \E f : Sizes(v.staged, f) /\ StagedBytes(v) = f[Len(v.staged)]
<1> DEFINE f == CHOOSE g : SizesOf(v.staged, Len(v.staged), g)
<1>1. Len(v.staged) \in Nat
  OBVIOUS
<1>2. SizesOf(v.staged, Len(v.staged), f)
  BY <1>1, SizesExist
<1>3. StagedBytes(v) = f[Len(v.staged)]
  BY DEF StagedBytes, SizesOf
<1> HIDE DEF f
<1>4. Sizes(v.staged, f)
  <2>1. f = [k \in 0 .. Len(v.staged) |-> IF k = 0 THEN 0 ELSE f[k - 1] + v.staged[k].size]
    BY <1>2 DEF SizesOf
  <2>2. \A k \in 0 .. Len(v.staged) : f[k] = IF k = 0 THEN 0 ELSE f[k - 1] + v.staged[k].size
    BY <2>1, Zenon
  <2>3. 0 \in 0 .. Len(v.staged) /\ \A n \in 1 .. Len(v.staged) : n \in 0 .. Len(v.staged) /\ n # 0
    BY <1>1
  <2> QED BY <2>2, <2>3 DEF Sizes
<1> QED BY <1>3, <1>4

LEMMA SizesMonotone ==
  ASSUME NEW s \in Seq(Messages), NEW f, Sizes(s, f), NEW n \in 0 .. Len(s)
  PROVE  f[n] \in Nat /\ f[n] <= f[Len(s)] /\ f[Len(s)] \in Nat
<1> DEFINE Bad == {k \in 0 .. Len(s) : f[k] \notin Nat}
<1>0. Len(s) \in Nat
  OBVIOUS
<1>1. \A k \in 1 .. Len(s) : f[k] = f[k - 1] + s[k].size /\ s[k].size \in Nat
  <2>1. \A k \in 1 .. Len(s) : s[k] \in Messages
    OBVIOUS
  <2> QED BY <2>1, MessageFacts DEF Sizes
<1>2. Bad = {}
  <2> SUFFICES ASSUME Bad # {} PROVE FALSE
    OBVIOUS
  <2>0. Bad \in SUBSET Nat
    BY <1>0
  <2>1. PICK k \in Bad : \A j \in Bad : k <= j
    BY <2>0, LeastNat
  <2>2. k # 0
    BY <2>1 DEF Sizes
  <2>3. k \in 1 .. Len(s) /\ k - 1 \in 0 .. Len(s) /\ ~(k <= k - 1)
    BY <1>0, <2>1, <2>2
  <2>4. f[k - 1] \in Nat
    BY <2>1, <2>3
  <2> QED BY <1>1, <2>1, <2>3, <2>4
<1> DEFINE Low == {k \in 0 .. Len(s) : ~(f[Len(s) - k] <= f[Len(s)])}
<1>3. Low = {}
  <2> SUFFICES ASSUME Low # {} PROVE FALSE
    OBVIOUS
  <2>0. Low \in SUBSET Nat
    BY <1>0
  <2>1. PICK k \in Low : \A j \in Low : k <= j
    BY <2>0, LeastNat
  <2>2. k # 0
    BY <1>0, <1>2, <2>1
  <2>3. /\ k - 1 \in 0 .. Len(s) /\ ~(k <= k - 1) /\ Len(s) - k \in 0 .. Len(s)
        /\ Len(s) - (k - 1) \in 1 .. Len(s) /\ (Len(s) - (k - 1)) - 1 = Len(s) - k
    BY <1>0, <2>1, <2>2
  <2>4. f[Len(s) - (k - 1)] <= f[Len(s)]
    BY <2>1, <2>3
  <2>5. f[Len(s) - (k - 1)] = f[Len(s) - k] + s[Len(s) - (k - 1)].size
        /\ s[Len(s) - (k - 1)].size \in Nat
    BY <1>1, <2>3, Zenon
  <2>6. f[Len(s) - k] \in Nat /\ f[Len(s) - (k - 1)] \in Nat /\ f[Len(s)] \in Nat
    <3>1. \A j \in 0 .. Len(s) : f[j] \in Nat
      BY <1>2
    <3>2. \A j \in 1 .. Len(s) : j \in 0 .. Len(s)
      BY <1>0
    <3>3. Len(s) \in 0 .. Len(s)
      BY <1>0
    <3> QED BY <2>3, <3>1, <3>2, <3>3
  <2>7. f[Len(s) - k] <= f[Len(s)]
    BY <2>4, <2>5, <2>6
  <2> QED BY <2>1, <2>7
<1>4. n \in 0 .. Len(s) /\ Len(s) \in 0 .. Len(s) /\ Len(s) - n \in 0 .. Len(s) /\ Len(s) - (Len(s) - n) = n
  BY <1>0
<1> QED BY <1>2, <1>3, <1>4

(* What is staged grows by the record that is staged.                      *)
LEMMA SizesAgree ==
  ASSUME NEW s \in Seq(Messages), NEW m \in Messages, NEW f, Sizes(s, f),
         NEW g, Sizes(Append(s, m), g)
  PROVE  g[Len(s) + 1] = f[Len(s)] + m.size
<1> DEFINE Bad == {k \in 0 .. Len(s) : f[k] # g[k]}
<1>0. Len(s) \in Nat /\ Len(Append(s, m)) = Len(s) + 1
  OBVIOUS
<1>1. /\ \A k \in 1 .. Len(s) : f[k] = f[k - 1] + s[k].size
      /\ \A k \in 1 .. Len(s) + 1 : g[k] = g[k - 1] + Append(s, m)[k].size
      /\ f[0] = g[0]
  BY <1>0 DEF Sizes
<1>2. \A k \in 1 .. Len(s) : Append(s, m)[k] = s[k]
  OBVIOUS
<1>3. Append(s, m)[Len(s) + 1] = m
  OBVIOUS
<1>4. Bad = {}
  <2> SUFFICES ASSUME Bad # {} PROVE FALSE
    OBVIOUS
  <2>0. Bad \in SUBSET Nat
    BY <1>0
  <2>1. PICK k \in Bad : \A j \in Bad : k <= j
    BY <2>0, LeastNat
  <2>2. k # 0
    BY <1>1, <2>1
  <2>3. k \in 1 .. Len(s) /\ k \in 1 .. Len(s) + 1 /\ k - 1 \in 0 .. Len(s) /\ ~(k <= k - 1)
    BY <1>0, <2>1, <2>2
  <2>4. f[k - 1] = g[k - 1]
    BY <2>1, <2>3
  <2> QED BY <1>1, <1>2, <2>1, <2>3, <2>4
<1>5. Len(s) \in 0 .. Len(s) /\ Len(s) + 1 \in 1 .. Len(s) + 1 /\ (Len(s) + 1) - 1 = Len(s)
  BY <1>0
<1>6. g[Len(s) + 1] = g[Len(s)] + m.size
  BY <1>1, <1>3, <1>5
<1>7. g[Len(s)] = f[Len(s)]
  BY <1>4, <1>5
<1> QED BY <1>6, <1>7

LEMMA StagedGrows ==
  ASSUME NEW v, v.staged \in Seq(Messages), NEW m \in Messages, NEW u,
         u.staged = Append(v.staged, m)
  PROVE  StagedBytes(v) \in Nat /\ StagedBytes(u) = StagedBytes(v) + m.size
<1>1. PICK f : Sizes(v.staged, f) /\ StagedBytes(v) = f[Len(v.staged)]
  BY StagedSizes
<1>2. u.staged \in Seq(Messages) /\ Len(u.staged) = Len(v.staged) + 1 /\ Len(v.staged) \in 0 .. Len(v.staged)
  OBVIOUS
<1>3. PICK g : Sizes(u.staged, g) /\ StagedBytes(u) = g[Len(u.staged)]
  BY <1>2, StagedSizes
<1>4. g[Len(v.staged) + 1] = f[Len(v.staged)] + m.size
  BY <1>1, <1>3, SizesAgree
<1> QED BY <1>1, <1>2, <1>3, <1>4, SizesMonotone

LEMMA NothingStaged == ASSUME NEW v, v.staged = <<>> PROVE StagedBytes(v) = 0
<1>0. v.staged \in Seq(Messages)
  OBVIOUS
<1>1. PICK f : Sizes(v.staged, f) /\ StagedBytes(v) = f[Len(v.staged)]
  BY <1>0, StagedSizes
<1> QED BY <1>1 DEF Sizes

(***************************************************************************)
(* FlushStaged's loop.                                                     *)
(***************************************************************************)
(* A writer within a call, with k records of it in hand.                   *)
Sound(v, k) ==
  /\ Going(v) /\ OwnStart(v) /\ Bounded(v) /\ (v.cand = {} => v.staged = <<>>)
  /\ Writable(v) => StageSound(v) /\ StartSound(v, k)

LoopFields == CutFields \cup RecordFields \cup {"staged"}

(* Camera c has no frame in the new part yet, but its keyframe comes.      *)
ToCome(v, rotate, n, c) == rotate /\ LeadsFrom(v.staged, n, v.point, c)

(* What is true of u, which takes more, when n entries of v are flushed.   *)
HalfFlushed(v, rotate, allow, f, n, u) ==
  /\ Writable(v)
  /\ u.owed = IF v.status = "Ready" THEN v.owed - n ELSE v.owed
  /\ \A c \in v.cfg.selected \cap Cameras : c \in u.primed \/ ToCome(v, rotate, n, c)
  /\ \/ u.meta.reason = "forced"
     \/ /\ rotate => u.meta.point = v.point
        /\ \A c \in v.cfg.selected \cap Cameras :
             u.starts[c] # NoFrame \/ ToCome(v, rotate, n, c)
  /\ IF rotate THEN u.bytes <= f[n]
     ELSE IF allow THEN v.cfg.max_bytes > 0 => u.bytes < Ceiling(v) + MaxFrame
     ELSE u.bytes <= v.bytes + f[n]

Flushing(v, rotate, allow, f, n, u) ==
  /\ Going(u) /\ OwnStart(u) /\ Bounded(u) /\ Same(v, u, LoopFields)
  /\ u.threw => rotate \/ allow
  /\ u.threw \/ Len(u.staged) = Len(v.staged) - n
  /\ Writable(u) => HalfFlushed(v, rotate, allow, f, n, u)

(* The stage that a flush starts from.                                     *)
Flushable(v, rotate, f) ==
  /\ Going(v) /\ Bounded(v) /\ Sizes(v.staged, f)
  /\ Writable(v) =>
       /\ \A i \in DOMAIN v.staged : Belongs(v, v.staged[i])
       /\ v.owed \in Int /\ (v.status = "Ready" \/ rotate)
       /\ f[Len(v.staged)] <= v.cfg.max_staged
       /\ ~rotate /\ v.cfg.max_bytes > 0 => v.bytes < Ceiling(v) + MaxFrame

(* A cut leaves the writer bounded, and the starts of its part as claimed. *)
LEMMA CutKeeps ==
  ASSUME NEW y, Going(y), OwnStart(y), Bounded(y), NEW u, Going(u),
         Same(y, u, CutFields), NEW reason, CutTo(y, reason, u)
  PROVE  OwnStart(u) /\ Bounded(u) /\ (u.open => u.bytes = 0 /\ u.meta.reason = reason)
<1>1. u.cfg = y.cfg
  BY DEF Same, Fields, CutFields, RollFields, OpenFields, NoteFields
<1>2. y.cfg.max_bytes \in Nat /\ Ceiling(y) \in Nat /\ y.cfg.max_bytes <= Ceiling(y)
      /\ y.cfg.max_staged \in Nat
  BY CeilingFacts DEF Going
<1>3. Ceiling(u) = Ceiling(y)
  BY <1>1 DEF Ceiling
<1>4. MaxFrame \in Nat
  BY RecordsAssumption
<1>5. Bounded(u)
  BY <1>1, <1>2, <1>3, <1>4 DEF Bounded, CutTo
<1>6. OwnStart(u)
  <2>1. CASE u.open
    <3>1. u.starts = [c \in Cameras |-> NoFrame]
      BY <2>1 DEF CutTo
    <3> QED BY <3>1 DEF OwnStart
  <2>2. CASE ~u.open
    BY <1>1, <2>2 DEF CutTo, OwnStart
  <2> QED BY <2>1, <2>2
<1> QED BY <1>5, <1>6 DEF CutTo

LEMMA ForcedFlushing ==
  ASSUME NEW v, NEW rotate \in BOOLEAN, NEW allow \in BOOLEAN, NEW f,
         Flushable(v, rotate, f), v.staged \in Seq(Messages),
         NEW n \in 0 .. Len(v.staged), NEW y,
         Flushing(v, rotate, allow, f, n, y), ~y.threw,
         NEW u \in IF allow /\ (~rotate \/ MustCut(y)) THEN ForceRollIfDue(y) ELSE {y}
  PROVE  /\ Flushing(v, rotate, allow, f, n, u)
         /\ Writable(u) /\ ~rotate /\ allow /\ v.cfg.max_bytes > 0 => u.bytes < Ceiling(v)
<1>0. Going(y) /\ OwnStart(y) /\ Bounded(y) /\ Same(v, y, LoopFields) /\ y.cfg = v.cfg
      /\ Len(y.staged) = Len(v.staged) - n
  BY DEF Flushing, Same, Fields, LoopFields, CutFields, RecordFields, WriteFields,
         RollFields, OpenFields, NoteFields
<1>1. f[n] \in Nat
  BY SizesMonotone DEF Flushable
<1>2. CASE u = y
  <2>1. Flushing(v, rotate, allow, f, n, u)
    BY <1>2
  <2>2. ASSUME ~rotate, allow, v.cfg.max_bytes > 0 PROVE u.bytes < Ceiling(v) \/ ~Writable(u)
    <3>1. ~ForcedCutDue(y) \/ (ForcedCutDue(y) /\ u \in RollAs(y, "forced"))
      BY <2>2, Zenon DEF ForceRollIfDue
    <3>2. CASE ~ForcedCutDue(y)
      <4>1. ~(y.bytes >= Ceiling(y)) /\ Ceiling(y) = Ceiling(v)
        BY <1>0, <2>2, <3>2 DEF ForcedCutDue, Ceiling
      <4> QED BY <1>0, <1>2, <4>1, CeilingFacts DEF Going, Typed
    <3>3. CASE ForcedCutDue(y) /\ u \in RollAs(y, "forced")
      <4>1. CutTo(y, "forced", u)
        BY <1>0, <3>3, ForcedHasBytes, RollAsOutcome DEF Going
      <4>2. y.bytes > 0
        BY <1>0, <3>3, ForcedHasBytes DEF Going
      <4> QED BY <1>2, <4>1, <4>2 DEF CutTo, Writable
    <3> QED BY <3>1, <3>2, <3>3
  <2> QED BY <2>1, <2>2
<1>3. CASE u # y
  <2>1. u \in ForceRollIfDue(y)
    BY <1>3
  <2>2. Going(u) /\ Same(y, u, CutFields) /\ u.primed = y.primed /\ CutTo(y, "forced", u)
    BY <1>0, <1>3, <2>1, ForcedOutcome
  <2>3. /\ OwnStart(u) /\ Bounded(u) /\ (u.open => u.bytes = 0 /\ u.meta.reason = "forced")
    BY <1>0, <2>2, CutKeeps
  <2>4. Same(v, u, LoopFields)
    BY <1>0, <2>2 DEF Same, LoopFields
  <2>5. u.staged = y.staged /\ u.owed = y.owed
    BY <2>2 DEF Same, Fields, CutFields, RollFields, OpenFields, NoteFields
  <2>6. ASSUME Writable(u)
        PROVE  HalfFlushed(v, rotate, allow, f, n, u) /\ u.bytes = 0
    <3>1. u.open /\ u.bytes = 0 /\ u.meta.reason = "forced" /\ Writable(y)
      BY <2>2, <2>3, <2>6 DEF Writable, CutTo
    <3>2. HalfFlushed(v, rotate, allow, f, n, y)
      BY <3>1 DEF Flushing
    <3>3. v.cfg.max_bytes \in Nat /\ Ceiling(v) \in Nat /\ v.cfg.max_bytes <= Ceiling(v) /\ v.bytes \in Nat
      BY CeilingFacts DEF Flushable, Going, Typed
    <3>4. MaxFrame \in Nat
      BY RecordsAssumption
    <3> QED BY <1>1, <2>2, <2>5, <3>1, <3>2, <3>3, <3>4 DEF HalfFlushed
  <2>7. v.cfg.max_bytes \in Nat /\ Ceiling(v) \in Nat /\ v.cfg.max_bytes <= Ceiling(v)
    BY CeilingFacts DEF Flushable, Going
  <2> QED BY <1>0, <2>2, <2>3, <2>4, <2>5, <2>6, <2>7 DEF Flushing
<1> QED BY <1>2, <1>3

(* The first entry is of another camera, or is the keyframe itself.        *)
LEMMA LeadsStep ==
  ASSUME NEW s \in Seq(Messages), NEW n \in 1 .. Len(s), NEW point, NEW c,
         LeadsFrom(s, n - 1, point, c)
  PROVE  IF s[n].chan = c THEN s[n].key /\ s[n].point = point
         ELSE LeadsFrom(s, n, point, c)
<1>0. n \in Nat /\ Len(s) \in Nat /\ (n - 1) + 1 = n
  OBVIOUS
<1>1. PICK i \in n .. Len(s) : /\ s[i].chan = c /\ s[i].key /\ s[i].point = point
                               /\ \A j \in n .. i - 1 : s[j].chan # c
  BY <1>0 DEF LeadsFrom
<1>2. CASE s[n].chan = c
  <2>1. ~(n \in n .. i - 1)
    BY <1>1, <1>2
  <2>2. i = n
    BY <1>0, <1>1, <2>1
  <2> QED BY <1>1, <1>2, <2>2
<1>3. CASE s[n].chan # c
  <2>1. i # n
    BY <1>1, <1>3
  <2>2. i \in n + 1 .. Len(s) /\ \A j \in n + 1 .. i - 1 : j \in n .. i - 1
    BY <1>0, <1>1, <2>1
  <2> QED BY <1>1, <1>3, <2>2 DEF LeadsFrom
<1> QED BY <1>2, <1>3

LEMMA AtMost == \A a, b, c \in Nat : a <= b /\ b <= c => a <= c
OBVIOUS

LEMMA AddsTo ==
  ASSUME NEW a \in Nat, NEW size \in Nat, NEW top \in Nat, NEW old \in Nat, NEW new \in Nat,
         a <= old, new = old + size, new <= top
  PROVE  a + size <= top
OBVIOUS

LEMMA OneMore ==
  \A a, b, s, t, k \in Nat :
    /\ a < b /\ s <= t => a + s < b + t + k
    /\ a < b /\ s <= t => a + s < b + t
    /\ a <= b => a + s <= b + s
OBVIOUS

LEMMA AddsBeyond ==
  ASSUME NEW a \in Nat, NEW size \in Nat, NEW b \in Nat, NEW top \in Nat,
         NEW old \in Nat, NEW new \in Nat, a <= b + old, new = old + size, new <= top
  PROVE  a + size <= b + top
OBVIOUS

LEMMA RecordFlushing ==
  ASSUME NEW v, NEW rotate \in BOOLEAN, NEW allow \in BOOLEAN, NEW f,
         Flushable(v, rotate, f), v.staged \in Seq(Messages),
         NEW n \in 1 .. Len(v.staged), NEW x,
         Flushing(v, rotate, allow, f, n - 1, x), ~x.threw,
         Writable(x) /\ ~rotate /\ allow /\ v.cfg.max_bytes > 0 => x.bytes < Ceiling(v),
         NEW z \in WriteRecord(x, v.staged[n]), NEW u, u = [z EXCEPT !.staged = Tail(@)]
  PROVE  Flushing(v, rotate, allow, f, n, u)
<1> DEFINE m == v.staged[n]
<1>0. /\ Going(x) /\ OwnStart(x) /\ Bounded(x) /\ Same(v, x, LoopFields)
      /\ x.cfg = v.cfg /\ x.status = v.status
      /\ Len(x.staged) = Len(v.staged) - (n - 1)
  BY DEF Flushing, Same, Fields, LoopFields, CutFields, RecordFields, WriteFields,
         RollFields, OpenFields, NoteFields
<1>1. m \in Messages
  OBVIOUS
<1>2. n - 1 \in 0 .. Len(v.staged) /\ n \in 0 .. Len(v.staged) /\ n \in DOMAIN v.staged
  OBVIOUS
<1>3. /\ f[n - 1] \in Nat /\ f[n] \in Nat /\ f[n] <= f[Len(v.staged)]
      /\ f[Len(v.staged)] \in Nat
  BY <1>2, SizesMonotone DEF Flushable
<1>4. f[n] = f[n - 1] + m.size
  BY DEF Flushable, Sizes
<1>5. /\ m.key \in BOOLEAN /\ m.size \in Nat /\ m.size <= MaxFrame /\ MaxFrame \in Nat
  BY <1>1, MessageFacts
<1>6. /\ v.cfg.max_bytes \in Nat /\ Ceiling(v) \in Nat /\ v.cfg.max_bytes <= Ceiling(v)
      /\ v.cfg.max_staged \in Nat /\ v.bytes \in Nat /\ x.bytes \in Nat
  BY <1>0, CeilingFacts DEF Flushable, Going, Typed
<1>7. Ceiling(x) = Ceiling(v)
  BY <1>0 DEF Ceiling
<1>8. x.staged \in Seq(Messages) /\ x.staged # <<>>
  BY <1>0, <1>2 DEF Going, Typed
<1> HIDE DEF m
(* The entry taken off leaves everything else alone.                       *)
<1>9. ASSUME Going(z), OwnStart(z), Bounded(z), Same(x, z, RecordFields),
             Writable(z) => HalfFlushed(v, rotate, allow, f, n, z)
      PROVE  Flushing(v, rotate, allow, f, n, u)
  <2>1. IsWriter(u) /\ u.staged = Tail(z.staged) /\ Same(z, u, {"staged"})
    BY <1>9, Zenon DEF Going, Typed, IsWriter, Same, Fields
  <2>2. z.staged = x.staged
    BY <1>9 DEF Same, Fields, RecordFields, WriteFields, NoteFields
  <2>3. u.staged \in Seq(Messages) /\ Len(u.staged) = Len(v.staged) - n
    BY <1>0, <1>8, <2>1, <2>2
  <2>4. /\ u.cfg = z.cfg /\ u.bytes = z.bytes /\ u.status = z.status
        /\ u.starts = z.starts /\ u.meta = z.meta /\ u.cand = z.cand /\ u.primed = z.primed
        /\ u.ever = z.ever /\ u.part = z.part /\ u.kept = z.kept /\ u.taken = z.taken
        /\ u.closed_twice = z.closed_twice /\ u.after_end = z.after_end
        /\ u.attempts = z.attempts /\ u.skips = z.skips /\ u.open = z.open
        /\ u.closed = z.closed /\ u.file = z.file /\ u.ended = z.ended /\ u.refused = z.refused
        /\ u.overtook = z.overtook /\ u.hole = z.hole /\ u.at_keyframe = z.at_keyframe
        /\ u.threw = z.threw /\ u.owed = z.owed
    BY <2>1 DEF Same, Fields
  <2>5. Typed(u)
    BY <1>9, <2>1, <2>3, <2>4 DEF Going, Typed
  <2>6. Numbered(u)
    BY <1>9, <2>4 DEF Going, Numbered, storage_refused
  <2>7. Going(u)
    BY <1>9, <2>4, <2>5, <2>6 DEF Going
  <2>8. OwnStart(u) /\ Bounded(u)
    BY <1>9, <2>4 DEF OwnStart, Bounded, Ceiling
  <2>9. Same(v, u, LoopFields)
    BY <1>0, <1>9, <2>1 DEF Same, LoopFields
  <2>10. Writable(u) => HalfFlushed(v, rotate, allow, f, n, u)
    BY <1>9, <2>4 DEF Writable, storage_refused, HalfFlushed
  <2>11. ~u.threw
    BY <1>9, <2>4 DEF Same, Fields, RecordFields, WriteFields, NoteFields
  <2> QED BY <2>3, <2>7, <2>8, <2>9, <2>10, <2>11 DEF Flushing
<1>10. CASE ~Writable(x)
  <2>1. z = x
    BY <1>10 DEF WriteRecord
  <2> QED BY <1>0, <1>9, <1>10, <2>1 DEF Same
<1>11. CASE Writable(x)
  <2>1. HalfFlushed(v, rotate, allow, f, n - 1, x)
    BY <1>11 DEF Flushing
  <2>2. Writable(v) /\ (v.status = "Ready" \/ rotate) /\ Belongs(v, m) /\ Belongs(x, m)
    BY <1>0, <1>2, <2>1 DEF HalfFlushed, Flushable, Belongs, Selected, m
  <2>3. Taken(x, m, z)
    BY <1>0, <1>1, <2>2, ContinuationTakes DEF m
  <2>4. z.meta = x.meta /\ z.cfg = x.cfg
    BY <2>3 DEF Taken, Same, Fields, RecordFields, WriteFields, NoteFields
  <2>5. \A c \in v.cfg.selected \cap Cameras : ToCome(v, rotate, n - 1, c) =>
          IF m.chan = c THEN rotate /\ m.key /\ m.point = v.point ELSE ToCome(v, rotate, n, c)
    BY LeadsStep DEF ToCome, m
  <2>6. IsVideo(m) => m.chan \in v.cfg.selected \cap Cameras
    BY <2>2 DEF Belongs, Selected, IsVideo
  <2>7. CASE ~Writable(z) /\ z.bytes = x.bytes /\ z.starts = x.starts
    <3>1. OwnStart(z) /\ Bounded(z)
      BY <1>0, <2>4, <2>7 DEF OwnStart, Bounded, Ceiling
    <3> QED BY <1>9, <2>3, <2>7, <3>1 DEF Taken
  <2>8. CASE Same(x, z, {"hole"}) /\ IsVideo(m) /\ ~m.key /\ m.chan \notin x.primed
    BY <2>1, <2>5, <2>6, <2>8 DEF HalfFlushed
  <2>9. CASE /\ Writable(z) /\ Wrote(x, m, z)
             /\ IsVideo(m) => m.chan \in z.primed /\ (m.key \/ m.chan \in x.primed)
    <3>1. z.bytes = x.bytes + m.size /\ x.primed \subseteq z.primed
      BY <2>3, <2>9 DEF Wrote, Taken
    <3>2. Bounded(z)
      <4>1. v.cfg.max_bytes > 0 => x.bytes + m.size < Ceiling(v) + MaxFrame + v.cfg.max_staged
        <5>1. /\ f[Len(v.staged)] <= v.cfg.max_staged
              /\ ~rotate /\ v.cfg.max_bytes > 0 => v.bytes < Ceiling(v) + MaxFrame
          BY <2>2 DEF Flushable
        <5>0. /\ rotate => x.bytes <= f[n - 1]
              /\ ~rotate /\ ~allow => x.bytes <= v.bytes + f[n - 1]
          BY <2>1 DEF HalfFlushed
        <5> SUFFICES ASSUME v.cfg.max_bytes > 0
                        PROVE  x.bytes + m.size < Ceiling(v) + MaxFrame + v.cfg.max_staged
          OBVIOUS
        <5>5. Ceiling(v) > 0
          BY <1>6
        <5>6. f[n] <= v.cfg.max_staged
          BY <1>3, <1>6, <5>1, AtMost, Zenon
        <5>2. CASE rotate
          <6>1. x.bytes + m.size <= v.cfg.max_staged
            BY <1>3, <1>4, <1>5, <1>6, <5>0, <5>2, <5>6, AddsTo, Zenon
          <6> QED BY <1>5, <1>6, <5>5, <6>1
        <5>3. CASE ~rotate /\ allow
          <6>1. x.bytes < Ceiling(v)
            BY <1>11, <5>3, Zenon
          <6> QED BY <1>5, <1>6, <6>1, OneMore, Zenon
        <5>4. CASE ~rotate /\ ~allow
          <6>1. x.bytes + m.size <= v.bytes + v.cfg.max_staged
            BY <1>3, <1>4, <1>5, <1>6, <5>0, <5>4, <5>6, AddsBeyond, Zenon
          <6>2. v.bytes < Ceiling(v) + MaxFrame
            BY <5>1, <5>4
          <6>3. v.bytes + v.cfg.max_staged < Ceiling(v) + MaxFrame + v.cfg.max_staged
            <7>1. \A a, c, t, k \in Nat : a < c + t => a + k < c + t + k
              OBVIOUS
            <7> QED BY <1>5, <1>6, <6>2, <7>1, Zenon
          <6>4. \A a, b, c \in Nat : a <= b /\ b < c => a < c
            OBVIOUS
          <6>5. /\ x.bytes + m.size \in Nat /\ v.bytes + v.cfg.max_staged \in Nat
                /\ Ceiling(v) + MaxFrame + v.cfg.max_staged \in Nat
            <7>1. \A a, b, c \in Nat : a + b \in Nat /\ a + b + c \in Nat
              OBVIOUS
            <7> QED BY <1>5, <1>6, <7>1, Zenon
          <6> QED BY <6>1, <6>3, <6>4, <6>5, Zenon
        <5> QED BY <5>2, <5>3, <5>4
      <4> QED BY <1>0, <1>7, <2>4, <3>1, <4>1 DEF Bounded, Ceiling
    <3>3. z.starts = IF IsVideo(m) /\ x.starts[m.chan] = NoFrame
                     THEN [x.starts EXCEPT ![m.chan] = [key |-> m.key, point |-> m.point]]
                     ELSE x.starts
      BY <2>9 DEF Wrote
    <3>4. DOMAIN x.starts = Cameras
      BY <1>0 DEF Going, Typed
    <3>5. \A c \in Cameras : c # m.chan => z.starts[c] = x.starts[c]
      BY <3>3, <3>4
    <3>6. m.chan \in Cameras => \/ z.starts[m.chan] = x.starts[m.chan] /\ x.starts[m.chan] # NoFrame
                                \/ x.starts[m.chan] = NoFrame
                                   /\ z.starts[m.chan] = [key |-> m.key, point |-> m.point]
      BY <3>3, <3>4 DEF IsVideo
    <3>7. m.key => [key |-> m.key, point |-> m.point] # NoFrame
      BY DEF NoFrame
    <3>8. ASSUME z.meta.reason # "forced"
          PROVE  /\ OwnStart(z) /\ (rotate => z.meta.point = v.point)
                 /\ \A c \in v.cfg.selected \cap Cameras :
                      z.starts[c] # NoFrame \/ ToCome(v, rotate, n, c)
      <4>1. /\ rotate => x.meta.point = v.point
            /\ \A c \in v.cfg.selected \cap Cameras :
                 x.starts[c] # NoFrame \/ ToCome(v, rotate, n - 1, c)
        BY <2>1, <2>4, <3>8 DEF HalfFlushed
      <4>2. \A c \in v.cfg.selected \cap Cameras :
              z.starts[c] # NoFrame \/ ToCome(v, rotate, n, c)
        BY <2>5, <2>6, <3>3, <3>5, <3>6, <3>7, <4>1 DEF IsVideo
      <4>3. OwnStart(z)
        <5> SUFFICES ASSUME NEW c \in Cameras, z.starts[c] # NoFrame
                     PROVE  z.starts[c].key /\ (z.cfg.continuation => z.starts[c].point = z.meta.point)
          BY DEF OwnStart
        <5>1. CASE z.starts[c] = x.starts[c]
          BY <1>0, <2>4, <3>8, <5>1 DEF OwnStart
        <5>2. CASE z.starts[c] # x.starts[c]
          <6>1. c = m.chan /\ x.starts[c] = NoFrame /\ z.starts[c] = [key |-> m.key, point |-> m.point]
            BY <3>5, <3>6, <5>2
          <6>2. IsVideo(m)
            BY <6>1 DEF IsVideo
          <6>3. rotate /\ m.key /\ m.point = v.point
            BY <2>5, <2>6, <4>1, <6>1, <6>2
          <6> QED BY <2>4, <4>1, <6>1, <6>3
        <5> QED BY <5>1, <5>2
      <4> QED BY <2>4, <4>1, <4>2, <4>3
    <3>10. OwnStart(z) /\ (\/ z.meta.reason = "forced"
                           \/ /\ rotate => z.meta.point = v.point
                              /\ \A c \in v.cfg.selected \cap Cameras :
                                   z.starts[c] # NoFrame \/ ToCome(v, rotate, n, c))
      BY <1>0, <2>4, <3>8 DEF OwnStart, Going
    <3>11. \A c \in v.cfg.selected \cap Cameras : c \in z.primed \/ ToCome(v, rotate, n, c)
      BY <2>1, <2>5, <2>6, <2>9, <3>1 DEF HalfFlushed, IsVideo
    <3>12. z.owed = IF v.status = "Ready" THEN v.owed - n ELSE v.owed
      <4>1. v.owed \in Int
        BY <2>2 DEF Flushable
      <4>2. x.owed = (IF v.status = "Ready" THEN v.owed - (n - 1) ELSE v.owed)
        BY <2>1 DEF HalfFlushed
      <4>3. z.owed = (IF v.status = "Ready" THEN x.owed - 1 ELSE x.owed)
        BY <1>0, <2>9 DEF Wrote, Going
      <4> QED BY <4>1, <4>2, <4>3
    <3>13. IF rotate THEN z.bytes <= f[n]
           ELSE IF allow THEN v.cfg.max_bytes > 0 => z.bytes < Ceiling(v) + MaxFrame
           ELSE z.bytes <= v.bytes + f[n]
      <4>1. IF rotate THEN x.bytes <= f[n - 1]
            ELSE IF allow THEN v.cfg.max_bytes > 0 => x.bytes < Ceiling(v)
            ELSE x.bytes <= v.bytes + f[n - 1]
        BY <1>11, <2>1 DEF HalfFlushed
      <4>2. z.bytes = x.bytes + m.size
        BY <3>1
      <4>3. CASE rotate
        <5>1. z.bytes <= f[n - 1] + m.size
          <6>1. x.bytes + m.size <= f[n - 1] + m.size
            BY <1>3, <1>5, <1>6, <4>1, <4>3, OneMore, Zenon
          <6> QED BY <4>2, <6>1, Zenon
        <5> QED BY <1>4, <4>3, <5>1
      <4>4. CASE ~rotate /\ allow
        <5>1. v.cfg.max_bytes > 0 => z.bytes < Ceiling(v) + MaxFrame
          <6>1. v.cfg.max_bytes > 0 => x.bytes + m.size < Ceiling(v) + MaxFrame
            BY <1>5, <1>6, <4>1, <4>4, OneMore, Zenon
          <6> QED BY <4>2, <6>1, Zenon
        <5> QED BY <4>4, <5>1
      <4>5. CASE ~rotate /\ ~allow
        <5>1. x.bytes <= v.bytes + f[n - 1]
          BY <4>1, <4>5
        <5>2. \A a, b, c, d \in Nat : a <= b + c => a + d <= b + (c + d)
          OBVIOUS
        <5>3. z.bytes <= v.bytes + (f[n - 1] + m.size)
          BY <1>3, <1>5, <1>6, <4>2, <5>1, <5>2, Zenon
        <5> QED BY <1>4, <4>5, <5>3
      <4> QED BY <4>3, <4>4, <4>5
    <3>14. HalfFlushed(v, rotate, allow, f, n, z)
      BY <2>2, <3>10, <3>11, <3>12, <3>13 DEF HalfFlushed
    <3> QED BY <1>9, <2>3, <3>2, <3>10, <3>14 DEF Taken
  <2> QED BY <1>11, <2>3, <2>7, <2>8, <2>9 DEF Taken
<1> QED BY <1>10, <1>11

(* One turn of the loop. *)
LEMMA FrontFlushing ==
  ASSUME NEW v, NEW rotate \in BOOLEAN, NEW allow \in BOOLEAN, NEW f,
         Flushable(v, rotate, f), v.staged \in Seq(Messages),
         NEW n \in 1 .. Len(v.staged), NEW y,
         Flushing(v, rotate, allow, f, n - 1, y),
         NEW u \in IF y.threw THEN {y} ELSE FlushFront(y, v.staged[n], rotate, allow)
  PROVE  Flushing(v, rotate, allow, f, n, u)
<1>0. n - 1 \in 0 .. Len(v.staged)
  OBVIOUS
(* A writer that threw takes no more, however much of the stage is left.   *)
<1>1. ASSUME NEW x, Flushing(v, rotate, allow, f, n - 1, x), x.threw
      PROVE  Flushing(v, rotate, allow, f, n, x)
  BY <1>1 DEF Flushing, Going, Writable
<1>2. CASE y.threw
  BY <1>1, <1>2
<1>3. CASE ~y.threw
  <2>1. PICK x \in IF allow /\ (~rotate \/ MustCut(y)) THEN ForceRollIfDue(y) ELSE {y} :
          u \in IF x.threw THEN {x}
                ELSE {[z EXCEPT !.staged = Tail(@)] : z \in WriteRecord(x, v.staged[n])}
    BY <1>3 DEF FlushFront, Then
  <2>2. /\ Flushing(v, rotate, allow, f, n - 1, x)
        /\ Writable(x) /\ ~rotate /\ allow /\ v.cfg.max_bytes > 0 => x.bytes < Ceiling(v)
    BY <1>0, <1>3, ForcedFlushing
  <2>3. CASE x.threw
    BY <1>1, <2>1, <2>2, <2>3
  <2>4. CASE ~x.threw
    <3>1. PICK z \in WriteRecord(x, v.staged[n]) : u = [z EXCEPT !.staged = Tail(@)]
      BY <2>1, <2>4
    <3> QED BY <2>2, <2>4, <3>1, RecordFlushing
  <2> QED BY <2>3, <2>4
<1> QED BY <1>2, <1>3

(* Before the loop: the cut, or the start's metadata.                      *)
LEMMA CutFlushing ==
  ASSUME NEW v, NEW rotate \in BOOLEAN, NEW allow \in BOOLEAN, NEW f,
         Flushable(v, rotate, f), v.staged \in Seq(Messages), OwnStart(v), ~v.threw,
         Writable(v) => StageSound(v) /\ \E k \in Nat : StartSound(v, k),
         rotate => /\ v.cand = v.cfg.selected /\ v.staged # <<>>
                   /\ Writable(v) \/ (v.status # "Waiting" /\ (v.open => v.bytes > 0)),
         NEW u \in FlushCut(v, rotate)
  PROVE  Flushing(v, rotate, allow, f, 0, u)
<1>0. /\ Going(v) /\ Bounded(v) /\ Len(v.staged) \in Nat /\ v.bytes \in Nat /\ f[0] = 0
  BY DEF Flushable, Sizes, Going, Typed
<1>1. CASE ~rotate
  <2>1. u = v
    BY <1>1 DEF FlushCut
  <2>2. ASSUME Writable(v) PROVE HalfFlushed(v, rotate, allow, f, 0, v)
    <3>1. /\ v.status = "Ready" /\ v.owed \in Int
          /\ v.cfg.max_bytes > 0 => v.bytes < Ceiling(v) + MaxFrame
      BY <1>1, <2>2 DEF Flushable
    <3>2. /\ v.cfg.selected \cap Cameras \subseteq v.primed
          /\ v.meta.reason = "forced" \/ Started(v)
      BY <2>2, <3>1 DEF StartSound
    <3> QED BY <1>0, <1>1, <2>2, <3>1, <3>2 DEF HalfFlushed, Started
  <2>3. Same(v, v, LoopFields)
    BY DEF Same
  <2> QED BY <1>0, <2>1, <2>2, <2>3 DEF Flushing
<1>2. CASE rotate
  <2>1. /\ Writable(v) => StageSound(v) /\ v.owed \in Int
        /\ v.cand = v.cfg.selected /\ v.staged # <<>>
    BY <1>2 DEF Flushable
  <2>2. Writable(v) => \E k \in Nat : StartSound(v, k)
    OBVIOUS
  <2>3. Writable(v) => \A c \in v.cfg.selected \cap Cameras : ToCome(v, rotate, 0, c)
    BY <1>2, <2>1 DEF StageSound, ToCome
  <2>4. CASE v.status = "Waiting"
    <3>0. Writable(v)
      BY <1>2, <2>4
    <3>1. u = [v EXCEPT !.meta.point = v.point]
      BY <1>2, <2>4 DEF FlushCut
    <3>2. IsWriter(u) /\ u.meta = [v.meta EXCEPT !.point = v.point] /\ Same(v, u, {"meta"})
      BY <1>0, <3>1, Zenon DEF Going, Typed, IsWriter, Same, Fields
    <3>3. /\ u.cfg = v.cfg /\ u.bytes = v.bytes /\ u.status = v.status
          /\ u.starts = v.starts /\ u.cand = v.cand /\ u.primed = v.primed
          /\ u.ever = v.ever /\ u.part = v.part /\ u.kept = v.kept /\ u.taken = v.taken
          /\ u.closed_twice = v.closed_twice /\ u.after_end = v.after_end
          /\ u.attempts = v.attempts /\ u.skips = v.skips /\ u.open = v.open
          /\ u.closed = v.closed /\ u.file = v.file /\ u.ended = v.ended /\ u.refused = v.refused
          /\ u.overtook = v.overtook /\ u.hole = v.hole /\ u.at_keyframe = v.at_keyframe
          /\ u.threw = v.threw /\ u.owed = v.owed /\ u.staged = v.staged
      BY <3>2 DEF Same, Fields
    <3>4. DOMAIN v.meta = {"reason", "point"}
      BY <1>0 DEF Going, Typed
    <3>5. u.meta.point = v.point /\ DOMAIN u.meta = {"reason", "point"}
      BY <3>2, <3>4
    <3>6. Going(u)
      <4>1. Typed(u)
        BY <1>0, <3>2, <3>3, <3>5 DEF Going, Typed
      <4>2. Numbered(u)
        BY <1>0, <3>3 DEF Going, Numbered, storage_refused
      <4> QED BY <1>0, <3>3, <4>1, <4>2 DEF Going
    <3>7. /\ v.bytes = 0 /\ \A c \in Cameras : v.starts[c] = NoFrame
      BY <2>2, <2>4, <3>0 DEF StartSound
    <3>8. OwnStart(u) /\ Bounded(u)
      BY <1>0, <3>3, <3>7 DEF OwnStart, Bounded, Ceiling
    <3>9. Same(v, u, LoopFields)
      BY <3>2 DEF Same, LoopFields, CutFields, RollFields, OpenFields
    <3>10. HalfFlushed(v, rotate, allow, f, 0, u)
      <4>1. u.owed = IF v.status = "Ready" THEN v.owed - 0 ELSE v.owed
        BY <2>1, <3>0, <3>3
      <4>2. u.bytes <= f[0]
        BY <1>0, <3>3, <3>7
      <4> QED BY <1>2, <2>3, <3>0, <3>5, <4>1, <4>2, Zenon DEF HalfFlushed
    <3> QED BY <1>0, <3>3, <3>6, <3>8, <3>9, <3>10 DEF Flushing
  <2>5. CASE v.status # "Waiting"
    <3>1. Writable(v) => v.status = "Ready"
      BY <1>0, <2>1, <2>2, <2>5 DEF StartSound, Going, Typed
    <3>2. v.open => v.bytes > 0
      <4>1. CASE Writable(v)
        BY <2>1, <2>2, <3>1, <4>1 DEF StartSound, StageSound
      <4>2. CASE ~Writable(v)
        BY <1>2, <4>2
      <4> QED BY <4>1, <4>2
    <3>3. u \in RollAs(v, "aligned")
      BY <1>2, <2>5 DEF FlushCut
    <3>4. /\ Going(u) /\ Same(v, u, CutFields) /\ u.primed = v.primed
          /\ CutTo(v, "aligned", u)
      BY <1>0, <3>2, <3>3, RollAsOutcome
    <3>5. OwnStart(u) /\ Bounded(u) /\ (u.open => u.bytes = 0 /\ u.meta.reason = "aligned")
      BY <1>0, <3>4, CutKeeps
    <3>6. u.staged = v.staged /\ u.owed = v.owed
      BY <3>4 DEF Same, Fields, CutFields, RollFields, OpenFields, NoteFields
    <3>7. Same(v, u, LoopFields)
      BY <3>4 DEF Same, LoopFields
    <3>8. u.open => u.meta.point = v.point /\ Writable(v)
      BY <3>4 DEF CutTo
    <3>9. Writable(u) => HalfFlushed(v, rotate, allow, f, 0, u)
      <4>1. Writable(v) => u.owed = IF v.status = "Ready" THEN v.owed - 0 ELSE v.owed
        BY <2>1, <3>6
      <4>2. Writable(u) => u.bytes <= f[0]
        BY <1>0, <3>5 DEF Writable
      <4>3. Writable(u) => u.open
        BY DEF Writable
      <4> QED BY <1>2, <2>3, <3>8, <4>1, <4>2, <4>3, Zenon DEF HalfFlushed
    <3>10. (u.threw => rotate \/ allow) /\ Len(u.staged) = Len(v.staged) - 0
      BY <1>0, <1>2, <3>6
    <3> QED BY <1>0, <3>4, <3>5, <3>7, <3>9, <3>10, Zenon DEF Flushing
  <2> QED BY <2>4, <2>5
<1> QED BY <1>1, <1>2

(***************************************************************************)
(* The recursion behind FlushStaged, up to a number of entries.            *)
(***************************************************************************)
LoopOf(v, rotate, allow, top, f) ==
  f = [n \in 0 .. top |->
         IF n = 0 THEN FlushCut(v, rotate)
         ELSE Then(f[n - 1], LAMBDA u : FlushFront(u, v.staged[n], rotate, allow))]

LEMMA LoopExists ==
  ASSUME NEW v, NEW rotate, NEW allow, NEW top \in Nat
  PROVE  \E f : LoopOf(v, rotate, allow, top, f)
<1> DEFINE Turn(n, before) ==
             IF n = 0 THEN FlushCut(v, rotate)
             ELSE Then(before, LAMBDA u : FlushFront(u, v.staged[n], rotate, allow))
           Solves(n, f) == f = [k \in 0 .. n |-> Turn(k, f[k - 1])]
           Bad == {n \in Nat : ~ \E f : Solves(n, f)}
<1>0. \A n, f : Solves(n, f) <=> LoopOf(v, rotate, allow, n, f)
  BY Zenon DEF LoopOf
<1> HIDE DEF Turn
<1>1. ASSUME NEW n \in Nat, NEW f, Solves(n, f) PROVE \E g : Solves(n + 1, g)
  <2> DEFINE g == [k \in 0 .. n + 1 |-> Turn(k, f[k - 1])]
  <2>1. \A k \in 0 .. n : g[k] = f[k]
    <3>1. \A k \in 0 .. n : f[k] = Turn(k, f[k - 1])
      BY <1>1, Zenon
    <3>2. \A k \in 0 .. n : k \in 0 .. n + 1
      OBVIOUS
    <3> QED BY <3>1, <3>2, Zenon
  <2>2. \A k \in 0 .. n + 1 : k # 0 => k - 1 \in 0 .. n
    OBVIOUS
  <2>3. \A k \in 0 .. n + 1 : g[k] = Turn(k, g[k - 1])
    <3> SUFFICES ASSUME NEW k \in 0 .. n + 1 PROVE Turn(k, f[k - 1]) = Turn(k, g[k - 1])
      BY Zenon
    <3>1. CASE k = 0
      BY <3>1 DEF Turn
    <3>2. CASE k # 0
      BY <2>1, <2>2, <3>2, Zenon
    <3> QED BY <3>1, <3>2
  <2>4. Solves(n + 1, g)
    BY <2>3, Zenon
  <2> QED BY <2>4
<1>2. \E f : Solves(0, f)
  <2> DEFINE f == [k \in 0 .. 0 |-> Turn(0, {})]
  <2>1. \A k \in 0 .. 0 : Turn(k, f[k - 1]) = Turn(0, {})
    BY DEF Turn
  <2>2. Solves(0, f)
    BY <2>1, Zenon
  <2> QED BY <2>2
<1> HIDE DEF Solves
<1>3. Bad = {}
  <2> SUFFICES ASSUME Bad # {} PROVE FALSE
    OBVIOUS
  <2>1. PICK n \in Bad : \A k \in Bad : n <= k
    BY LeastNat
  <2>2. n # 0
    BY <1>2, <2>1
  <2>3. n - 1 \in Nat /\ n - 1 \notin Bad /\ (n - 1) + 1 = n
    BY <2>1, <2>2
  <2> QED BY <1>1, <2>1, <2>3
<1> QED BY <1>0, <1>3

(* f[n] holds the outcomes when n entries are flushed.                     *)
LoopRuns(v, rotate, allow, f) ==
  /\ Flushed(v, rotate, allow) = f[Len(v.staged)]
  /\ f[0] = FlushCut(v, rotate)
  /\ \A n \in 1 .. Len(v.staged) :
       f[n] = UNION {IF y.threw THEN {y} ELSE FlushFront(y, v.staged[n], rotate, allow) :
                       y \in f[n - 1]}

LEMMA LoopEquation ==
  ASSUME NEW v, NEW rotate, NEW allow, Len(v.staged) \in Nat
  PROVE  \E f : LoopRuns(v, rotate, allow, f)
<1> DEFINE top == Len(v.staged)
           f == CHOOSE g : LoopOf(v, rotate, allow, top, g)
<1>1. LoopOf(v, rotate, allow, top, f)
  BY LoopExists
<1>2. Flushed(v, rotate, allow) = f[top]
  BY DEF Flushed, LoopOf
<1> HIDE DEF f
<1>3. \A n \in 0 .. top :
        f[n] = IF n = 0 THEN FlushCut(v, rotate)
               ELSE Then(f[n - 1], LAMBDA u : FlushFront(u, v.staged[n], rotate, allow))
  BY <1>1, Zenon DEF LoopOf
<1>4. 0 \in 0 .. top /\ \A n \in 1 .. top : n \in 0 .. top /\ n # 0
  OBVIOUS
<1>5. f[0] = FlushCut(v, rotate)
  BY <1>3, <1>4
<1>6. \A n \in 1 .. top :
        f[n] = UNION {IF y.threw THEN {y}
                      ELSE FlushFront(y, v.staged[n], rotate, allow) : y \in f[n - 1]}
  BY <1>3, <1>4, Zenon DEF Then
<1> QED BY <1>2, <1>5, <1>6, Zenon DEF LoopRuns

LEMMA FlushedOutcome ==
  ASSUME NEW v, NEW rotate \in BOOLEAN, NEW allow \in BOOLEAN, NEW f,
         Flushable(v, rotate, f), v.staged \in Seq(Messages), OwnStart(v), ~v.threw,
         Writable(v) => StageSound(v) /\ \E k \in Nat : StartSound(v, k),
         rotate => /\ v.cand = v.cfg.selected /\ v.staged # <<>>
                   /\ Writable(v) \/ (v.status # "Waiting" /\ (v.open => v.bytes > 0)),
         NEW u \in Flushed(v, rotate, allow)
  PROVE  Flushing(v, rotate, allow, f, Len(v.staged), u)
<1> DEFINE top == Len(v.staged)
           Fine(n, x) == Flushing(v, rotate, allow, f, n, x)
<1>0. top \in Nat
  OBVIOUS
<1>1. PICK loop : LoopRuns(v, rotate, allow, loop)
  BY <1>0, LoopEquation
<1>2. \A x \in loop[0] : Fine(0, x)
  BY <1>1, CutFlushing DEF LoopRuns
<1>3. ASSUME NEW n \in 1 .. top, \A x \in loop[n - 1] : Fine(n - 1, x), NEW x \in loop[n]
      PROVE  Fine(n, x)
  <2>1. PICK y \in loop[n - 1] :
          x \in IF y.threw THEN {y} ELSE FlushFront(y, v.staged[n], rotate, allow)
    BY <1>1 DEF LoopRuns
  <2> QED BY <1>3, <2>1, FrontFlushing
<1> HIDE DEF Fine
<1> DEFINE Bad == {n \in 0 .. top : ~ \A x \in loop[n] : Fine(n, x)}
<1>4. Bad = {}
  <2> SUFFICES ASSUME Bad # {} PROVE FALSE
    OBVIOUS
  <2>0. Bad \in SUBSET Nat
    BY <1>0
  <2>1. PICK n \in Bad : \A k \in Bad : n <= k
    BY <2>0, LeastNat
  <2>2. n # 0
    BY <1>2, <2>1
  <2>3. n \in 1 .. top /\ n - 1 \in 0 .. top /\ n - 1 \notin Bad
    <3>1. n \in 0 .. top
      BY <2>1
    <3>2. n \in 1 .. top /\ n - 1 \in 0 .. top /\ ~(n <= n - 1)
      BY <1>0, <2>2, <3>1
    <3> QED BY <2>1, <3>2
  <2> QED BY <1>3, <2>1, <2>3
<1> QED BY <1>0, <1>1, <1>4 DEF Fine, LoopRuns

FlushFields == LoopFields \cup {"cand", "late", "status"}

(* FlushStaged leaves an empty stage, unless the writer takes no more.     *)
LEMMA FlushOutcome ==
  ASSUME NEW v, NEW k \in Nat, Sound(v, k), ~v.threw,
         NEW rotate \in BOOLEAN, NEW allow \in BOOLEAN,
         rotate => /\ v.cand = v.cfg.selected /\ v.staged # <<>> /\ k = 0
                   /\ Writable(v) \/ (v.status # "Waiting" /\ (v.open => v.bytes > 0)),
         ~rotate /\ Writable(v) => v.status # "Waiting",
         NEW u \in FlushStaged(v, rotate, allow)
  PROVE  /\ Sound(u, k) /\ u.cfg = v.cfg
         /\ u.threw \/ (u.staged = <<>> /\ (v.cand = {} \/ v.staged # <<>> => u.cand = {}))
         /\ u.threw => rotate \/ allow
         /\ ~rotate => u.status = v.status
         /\ Writable(u) => /\ Writable(v) /\ u.cand = {}
                           /\ u.status = (IF rotate THEN "Ready" ELSE v.status)
<1>0. Going(v) /\ OwnStart(v) /\ Bounded(v) /\ v.staged \in Seq(Messages)
  BY DEF Sound, Going, Typed
<1>1. CASE v.staged = <<>>
  <2>1. u = v /\ ~rotate
    BY <1>1 DEF FlushStaged
  <2> QED BY <1>1, <2>1 DEF Sound, StageSound
<1>2. CASE v.staged # <<>>
  <2>1. PICK f : Sizes(v.staged, f) /\ StagedBytes(v) = f[Len(v.staged)]
    BY <1>0, StagedSizes
  <2>2. ASSUME Writable(v)
        PROVE  /\ StageSound(v) /\ StartSound(v, k) /\ v.owed \in Int
               /\ v.status = "Ready" \/ (rotate /\ v.status = "Waiting" /\ v.owed = 0)
               /\ v.status = "Ready" => v.owed = Len(v.staged) + k
    <3>1. StageSound(v) /\ StartSound(v, k)
      BY <2>2 DEF Sound
    <3>2. Len(v.staged) + k \in Int
      BY <1>0
    <3> QED BY <1>0, <1>2, <2>2, <3>1, <3>2 DEF StartSound, Going, Typed
  <2>3. Flushable(v, rotate, f)
    BY <1>0, <1>2, <2>1, <2>2 DEF Flushable, StageSound, StartSound
  <2>4. PICK x \in Flushed(v, rotate, allow) :
          u \in IF x.threw THEN {x}
                ELSE {[x EXCEPT !.cand = {}, !.late = FALSE,
                                !.status = IF v.status = "Waiting" /\ rotate THEN "Ready"
                                           ELSE @]}
    BY <1>2 DEF FlushStaged, Then
  <2>5. Flushing(v, rotate, allow, f, Len(v.staged), x)
    BY <1>0, <2>2, <2>3, FlushedOutcome
  <2>6. /\ Going(x) /\ OwnStart(x) /\ Bounded(x) /\ x.cfg = v.cfg
        /\ x.status = v.status
    BY <2>5 DEF Flushing, Same, Fields, LoopFields, CutFields, RecordFields, WriteFields,
                RollFields, OpenFields, NoteFields
  <2>7. CASE x.threw
    <3>1. u = x /\ ~Writable(u) /\ (rotate \/ allow)
      BY <2>4, <2>5, <2>6, <2>7 DEF Going, Writable, Flushing
    <3>2. x.cand = v.cand /\ v.cand # {}
      BY <1>2, <2>5 DEF Sound, Flushing, Same, Fields, LoopFields, CutFields, RecordFields,
                        WriteFields, RollFields, OpenFields, NoteFields
    <3> QED BY <2>6, <2>7, <3>1, <3>2 DEF Sound
  <2>8. CASE ~x.threw
    <3>1. u = [x EXCEPT !.cand = {}, !.late = FALSE,
                        !.status = IF v.status = "Waiting" /\ rotate THEN "Ready" ELSE @]
      BY <2>4, <2>8
    <3>2. /\ IsWriter(u) /\ u.cand = {}
          /\ u.status = (IF v.status = "Waiting" /\ rotate THEN "Ready" ELSE v.status)
          /\ Same(x, u, {"cand", "late", "status"})
      BY <2>6, <3>1, Zenon DEF Going, Typed, IsWriter, Same, Fields
    <3>3. /\ u.cfg = x.cfg /\ u.bytes = x.bytes /\ u.meta = x.meta
          /\ u.starts = x.starts /\ u.primed = x.primed /\ u.staged = x.staged
          /\ u.ever = x.ever /\ u.part = x.part /\ u.kept = x.kept /\ u.taken = x.taken
          /\ u.closed_twice = x.closed_twice /\ u.after_end = x.after_end
          /\ u.attempts = x.attempts /\ u.skips = x.skips /\ u.open = x.open
          /\ u.closed = x.closed /\ u.file = x.file /\ u.ended = x.ended /\ u.refused = x.refused
          /\ u.overtook = x.overtook /\ u.hole = x.hole /\ u.at_keyframe = x.at_keyframe
          /\ u.threw = x.threw /\ u.owed = x.owed
      BY <3>2 DEF Same, Fields
    <3>4. Going(u)
      <4>1. Typed(u)
        BY <2>6, <3>2, <3>3 DEF Going, Typed
      <4>2. Numbered(u)
        BY <2>6, <3>3 DEF Going, Numbered, storage_refused
      <4> QED BY <2>6, <3>3, <4>1, <4>2 DEF Going
    <3>5. OwnStart(u) /\ Bounded(u)
      BY <2>6, <3>3 DEF OwnStart, Bounded, Ceiling
    <3>6. x.staged \in Seq(Messages) /\ Len(x.staged) = 0
      <4>1. Len(x.staged) = Len(v.staged) - Len(v.staged) /\ Len(v.staged) \in Nat
        BY <1>0, <2>5, <2>8 DEF Flushing
      <4> QED BY <2>6, <4>1 DEF Going, Typed
    <3>7. u.staged = <<>>
      BY <3>3, <3>6
    <3>8. ASSUME Writable(u)
          PROVE  /\ Writable(v) /\ u.status = "Ready" /\ StageSound(u) /\ StartSound(u, k)
                 /\ rotate \/ v.status = "Ready"
      <4>1. HalfFlushed(v, rotate, allow, f, Len(v.staged), x)
        BY <2>5, <3>3, <3>8 DEF Flushing, Writable, storage_refused
      <4>2. \A c : ~ToCome(v, rotate, Len(v.staged), c)
        <5>1. Len(v.staged) \in Nat
          BY <1>0
        <5>2. Len(v.staged) + 1 .. Len(v.staged) = {}
          BY <5>1
        <5> QED BY <5>2 DEF ToCome, LeadsFrom
      <4>3. /\ Writable(v) /\ v.cfg.selected \cap Cameras \subseteq x.primed
            /\ x.meta.reason = "forced" \/ Started(x)
        BY <2>6, <4>1, <4>2, Zenon DEF HalfFlushed, Started
      <4>4. u.status = "Ready" /\ (rotate \/ v.status = "Ready")
        BY <2>2, <3>2, <4>3
      <4>5. StagedBytes(u) = 0 /\ v.cfg.max_staged \in Nat
        BY <1>0, <3>7, NothingStaged, CeilingFacts DEF Going
      <4>6. StageSound(u)
        BY <2>6, <3>2, <3>3, <3>7, <4>5 DEF StageSound
      <4>7. u.owed = Len(u.staged) + k
        <5>1. x.owed = IF v.status = "Ready" THEN v.owed - Len(v.staged) ELSE v.owed
          BY <4>1 DEF HalfFlushed
        <5>2. Len(v.staged) \in Nat /\ Len(u.staged) = 0
          BY <1>0, <3>7
        <5>3. CASE v.status = "Ready"
          BY <2>2, <3>3, <4>3, <5>1, <5>2, <5>3
        <5>4. CASE v.status # "Ready"
          BY <2>2, <3>3, <4>3, <5>1, <5>2, <5>4
        <5> QED BY <5>3, <5>4
      <4>8. StartSound(u, k)
        BY <2>6, <3>2, <3>3, <3>7, <4>3, <4>4, <4>7 DEF StartSound, Started
      <4> QED BY <4>3, <4>4, <4>6, <4>8
    <3>9. ~u.threw
      BY <2>8, <3>3
    <3> QED BY <2>6, <3>2, <3>3, <3>4, <3>5, <3>7, <3>8, <3>9 DEF Sound
  <2> QED BY <2>7, <2>8
<1> QED BY <1>1, <1>2

(***************************************************************************)
(* The steps of WriteContinuation.                                         *)
(***************************************************************************)
LooseFields == {"reason", "point", "cand", "lo", "hi", "late", "status", "staged",
                "owed", "age", "overtook"}

(* What is not about the stage stays sound whatever becomes of the stage.  *)
Alike(v, u) ==
  /\ u.cfg = v.cfg /\ u.bytes = v.bytes /\ u.meta = v.meta /\ u.starts = v.starts
  /\ u.primed = v.primed /\ u.threw = v.threw /\ (Writable(u) <=> Writable(v))

LEMMA LooseGoing ==
  ASSUME NEW v, Going(v), OwnStart(v), Bounded(v), NEW u, IsWriter(u),
         Same(v, u, LooseFields), ~u.overtook, u.staged \in Seq(Messages),
         u.cand \subseteq v.cfg.selected, u.status \in {"Waiting", "Ready", "TimedOut"}
  PROVE  Going(u) /\ OwnStart(u) /\ Bounded(u) /\ Alike(v, u)
<1>1. /\ u.cfg = v.cfg /\ u.bytes = v.bytes /\ u.meta = v.meta
      /\ u.starts = v.starts /\ u.primed = v.primed
      /\ u.ever = v.ever /\ u.part = v.part /\ u.kept = v.kept /\ u.taken = v.taken
      /\ u.closed_twice = v.closed_twice /\ u.after_end = v.after_end
      /\ u.attempts = v.attempts /\ u.skips = v.skips /\ u.open = v.open
      /\ u.closed = v.closed /\ u.file = v.file /\ u.ended = v.ended /\ u.refused = v.refused
      /\ u.hole = v.hole /\ u.at_keyframe = v.at_keyframe /\ u.threw = v.threw
  BY DEF Same, Fields, LooseFields
<1>2. Typed(u)
  BY <1>1 DEF Going, Typed
<1>3. Numbered(u)
  BY <1>1 DEF Going, Numbered, storage_refused
<1>4. OwnStart(u) /\ Bounded(u)
  BY <1>1 DEF OwnStart, Bounded, Ceiling
<1> QED BY <1>1, <1>2, <1>3, <1>4 DEF Going, Alike, Writable, storage_refused

LEMMA SameStage ==
  ASSUME NEW v, NEW u, u.staged = v.staged, u.cand = v.cand, u.point = v.point,
         u.cfg = v.cfg, StageSound(v)
  PROVE  StageSound(u)
<1>1. StagedBytes(u) = StagedBytes(v)
  BY Zenon DEF StagedBytes
<1> HIDE DEF StagedBytes
<1> QED BY <1>1 DEF StageSound, Belongs, Selected

Roomy(v) == v.cfg.max_bytes > 0 => v.bytes < Ceiling(v)

NotStaged(v, m) == \A i \in DOMAIN v.staged : v.staged[i].chan # m.chan

LEMMA DirectOutcome ==
  ASSUME NEW v, NEW k \in Nat, Sound(v, k + 1), NEW m \in Messages, Belongs(v, m),
         NotStaged(v, m), Writable(v) => v.status = "Ready" /\ Roomy(v),
         NEW u \in WriteDirectly(v, m)
  PROVE  Sound(u, k)
<1> DEFINE r == [v EXCEPT !.overtook = @ \/ \E i \in DOMAIN v.staged : v.staged[i].chan = m.chan]
<1>0. Going(v) /\ OwnStart(v) /\ Bounded(v) /\ (v.cand = {} => v.staged = <<>>)
  BY DEF Sound
<1>1. IsWriter(r) /\ ~r.overtook /\ Same(v, r, {"overtook"})
  BY <1>0, Zenon DEF Going, Typed, NotStaged, IsWriter, Same, Fields
<1>2. u \in WriteRecord(r, m)
  BY DEF WriteDirectly
<1> HIDE DEF r
<1>3. r.staged = v.staged /\ r.cand = v.cand /\ r.status = v.status /\ r.owed = v.owed
      /\ r.point = v.point /\ r.cfg = v.cfg
  BY <1>1 DEF Same, Fields
<1>4. Going(r) /\ OwnStart(r) /\ Bounded(r) /\ Alike(v, r)
  <2>1. Same(v, r, LooseFields)
    BY <1>1 DEF Same, LooseFields
  <2> QED BY <1>0, <1>1, <1>3, <2>1, LooseGoing DEF Going, Typed
<1>5. Belongs(r, m)
  BY <1>3 DEF Belongs, Selected
<1>6. Taken(r, m, u)
  BY <1>2, <1>4, <1>5, ContinuationTakes
<1>7. /\ Going(u) /\ u.cfg = v.cfg /\ u.meta = v.meta /\ u.staged = v.staged /\ u.cand = v.cand
      /\ u.status = v.status /\ u.point = v.point /\ v.primed \subseteq u.primed
  BY <1>3, <1>4, <1>6 DEF Taken, Alike, Same, Fields, RecordFields, WriteFields, NoteFields
<1>8. DOMAIN v.starts = Cameras /\ v.bytes \in Nat
  BY <1>0 DEF Going, Typed
<1>9. CASE ~Writable(u) /\ u.bytes = r.bytes /\ u.starts = r.starts
  <2>1. OwnStart(u) /\ Bounded(u)
    BY <1>0, <1>4, <1>7, <1>9 DEF OwnStart, Bounded, Ceiling, Alike
  <2> QED BY <1>0, <1>7, <1>9, <2>1 DEF Sound
<1>10. CASE Same(r, u, {"hole"}) /\ IsVideo(m) /\ ~m.key /\ m.chan \notin r.primed
  <2>1. /\ u.bytes = r.bytes /\ u.starts = r.starts /\ (Writable(u) <=> Writable(r))
    BY <1>10 DEF Same, Fields, Writable, storage_refused
  <2>2. OwnStart(u) /\ Bounded(u)
    BY <1>0, <1>4, <1>7, <2>1 DEF OwnStart, Bounded, Ceiling, Alike
  <2>3. ~Writable(u)
    <3> SUFFICES ASSUME Writable(v) PROVE FALSE
      BY <1>4, <2>1 DEF Alike
    <3>1. v.cfg.selected \cap Cameras \subseteq v.primed
      BY DEF Sound, StartSound
    <3> QED BY <1>4, <1>10, <3>1 DEF Alike, Belongs, Selected, IsVideo
  <2> QED BY <1>0, <1>7, <2>2, <2>3 DEF Sound
<1>11. CASE Writable(r) /\ Writable(u) /\ Wrote(r, m, u)
  <2>1. /\ Writable(v) /\ v.status = "Ready" /\ Roomy(v) /\ StageSound(v) /\ StartSound(v, k + 1)
    BY <1>4, <1>11 DEF Alike, Sound
  <2>2. /\ u.bytes = v.bytes + m.size /\ u.owed = v.owed - 1
        /\ u.starts = IF IsVideo(m) /\ v.starts[m.chan] = NoFrame
                      THEN [v.starts EXCEPT ![m.chan] = [key |-> m.key, point |-> m.point]]
                      ELSE v.starts
    BY <1>0, <1>3, <1>4, <1>11, <2>1 DEF Wrote, Alike, Going
  <2>3. m.size \in Nat /\ m.size <= MaxFrame /\ MaxFrame \in Nat
    BY MessageFacts
  <2>4. /\ v.cfg.max_bytes \in Nat /\ Ceiling(v) \in Nat /\ v.cfg.max_bytes <= Ceiling(v)
        /\ v.cfg.max_staged \in Nat /\ Ceiling(u) = Ceiling(v)
    BY <1>0, <1>7, CeilingFacts DEF Going, Ceiling
  <2>5. v.cfg.max_bytes > 0 => u.bytes < Ceiling(v) + MaxFrame
    BY <1>8, <2>1, <2>2, <2>3, <2>4 DEF Roomy
  <2>6. Bounded(u)
    <3>1. u.bytes \in Nat
      BY <1>7 DEF Going, Typed
    <3> QED BY <1>7, <2>3, <2>4, <2>5, <3>1 DEF Bounded
  <2>7. \/ v.meta.reason = "forced" 
        \/ u.starts = v.starts /\ Started(v)
    <3>1. v.meta.reason = "forced" \/ Started(v)
      BY <2>1 DEF StartSound
    <3>2. IsVideo(m) => m.chan \in v.cfg.selected \cap Cameras
      BY DEF Belongs, Selected, IsVideo
    <3> QED BY <2>2, <3>1, <3>2 DEF Started
  <2>8. OwnStart(u)
    BY <1>0, <1>7, <2>7 DEF OwnStart, Going
  <2>9. StageSound(u)
    BY <1>7, <2>1, SameStage
  <2>10. StartSound(u, k)
    <3>1. u.owed = Len(u.staged) + k
      <4>0. v.staged \in Seq(Messages)
        BY <1>0 DEF Going, Typed
      <4>1. v.owed = Len(v.staged) + (k + 1)
        BY <2>1, Zenon DEF StartSound
      <4>2. Len(v.staged) \in Nat
        BY <4>0
      <4>5. u.owed = v.owed - 1
        BY <2>2
      <4>3. u.owed = (Len(v.staged) + (k + 1)) - 1
        BY <4>5, <4>1, Zenon
      <4>4. (Len(v.staged) + (k + 1)) - 1 = Len(v.staged) + k
        <5>1. \A a, b \in Nat : (a + (b + 1)) - 1 = a + b
          OBVIOUS
        <5> QED BY <4>2, <5>1, Zenon
      <4> QED BY <1>7, <4>3, <4>4, Zenon
    <3>2. u.cand # {} => u.bytes > 0
      BY <1>7, <1>8, <2>1, <2>2, <2>3 DEF StartSound
    <3>3. u.meta.reason = "forced" \/ Started(u)
      BY <1>7, <2>7 DEF Started
    <3>4. u.cfg.selected \cap Cameras \subseteq u.primed
      BY <1>7, <2>1 DEF StartSound
    <3> QED BY <1>7, <2>1, <2>4, <2>5, <3>1, <3>2, <3>3, <3>4 DEF StartSound
  <2> QED BY <1>0, <1>7, <2>6, <2>8, <2>9, <2>10 DEF Sound
<1> QED BY <1>6, <1>9, <1>10, <1>11 DEF Taken

(* A writer that takes no more, or has not started, owes no record.        *)
LEMMA SoundOwing ==
  ASSUME NEW v, NEW k, Sound(v, k), Writable(v) => v.status # "Ready", NEW j
  PROVE  Sound(v, j)
BY DEF Sound, StartSound

(* u is v cut, with an empty stage, and has room for a record.             *)
HasRoomAgain(v, k, u) ==
  /\ Sound(u, k) /\ u.cfg = v.cfg /\ u.staged = <<>> /\ u.cand = {}
  /\ Writable(u) => Writable(v) /\ u.status = v.status /\ Roomy(u)

LEMMA CutSound ==
  ASSUME NEW v, NEW k, Sound(v, k), ~v.threw, v.cand = {},
         Writable(v) => v.status = "Ready", NEW u,
         \/ u \in ForceRollIfDue(v)
         \/ u \in RollAs(v, "forced") /\ (v.open => v.bytes > 0)
  PROVE  HasRoomAgain(v, k, u)
<1>0. /\ Going(v) /\ OwnStart(v) /\ Bounded(v) /\ v.staged = <<>>
      /\ v.cfg.max_bytes \in Nat /\ Ceiling(v) \in Nat /\ v.cfg.max_bytes <= Ceiling(v)
      /\ v.bytes \in Nat
  BY CeilingFacts DEF Sound, Going, Typed
<1>1. CASE u = v /\ ~ForcedCutDue(v)
  <2>1. Roomy(u)
    BY <1>0, <1>1 DEF Roomy, ForcedCutDue
  <2> QED BY <1>0, <1>1, <2>1 DEF HasRoomAgain
<1>2. CASE Going(u) /\ Same(v, u, CutFields) /\ u.primed = v.primed /\ CutTo(v, "forced", u)
  <2>1. OwnStart(u) /\ Bounded(u) /\ (u.open => u.bytes = 0 /\ u.meta.reason = "forced")
    BY <1>0, <1>2, CutKeeps
  <2>2. /\ u.cfg = v.cfg /\ u.status = v.status /\ u.staged = v.staged /\ u.cand = v.cand
        /\ u.point = v.point /\ u.owed = v.owed
    BY <1>2 DEF Same, Fields, CutFields, RollFields, OpenFields, NoteFields
  <2>3. ASSUME Writable(u) PROVE Writable(v) /\ Roomy(u) /\ StageSound(u) /\ StartSound(u, k)
    <3>1. u.open /\ Writable(v)
      BY <1>2, <2>3 DEF Writable, CutTo
    <3>2. StageSound(u)
      BY <2>2, <3>1, SameStage DEF Sound
    <3>3. StartSound(v, k) /\ v.status = "Ready"
      BY <3>1 DEF Sound
    <3>4. Roomy(u)
      BY <1>0, <2>1, <2>2, <3>1 DEF Roomy, Ceiling
    <3>5. StartSound(u, k)
      BY <1>0, <1>2, <2>1, <2>2, <3>1, <3>3 DEF StartSound
    <3> QED BY <3>1, <3>2, <3>4, <3>5
  <2> QED BY <1>0, <1>2, <2>1, <2>2, <2>3 DEF Sound, HasRoomAgain
<1>3. CASE u \in ForceRollIfDue(v)
  BY <1>0, <1>1, <1>2, <1>3, ForcedOutcome
<1>4. CASE u \in RollAs(v, "forced") /\ (v.open => v.bytes > 0)
  BY <1>0, <1>2, <1>4, RollAsOutcome
<1> QED BY <1>3, <1>4

(* A staged cut is given up: flushed into the old part, which may be cut.  *)
LEMMA GivenUp ==
  ASSUME NEW v, NEW k \in Nat, Sound(v, k), ~v.threw, v.cand = {} \/ v.staged # <<>>,
         Writable(v) => v.status = "Ready",
         NEW u \in Then(FlushStaged(v, FALSE, TRUE), ForceRollIfDue)
  PROVE  Sound(u, k) /\ (u.threw \/ HasRoomAgain(v, k, u))
<1>1. PICK x \in FlushStaged(v, FALSE, TRUE) :
        u \in IF x.threw THEN {x} ELSE ForceRollIfDue(x)
  BY DEF Then
<1>2. /\ Sound(x, k) /\ x.cfg = v.cfg
      /\ x.threw \/ (x.staged = <<>> /\ x.cand = {})
      /\ Writable(x) => Writable(v) /\ x.status = v.status
  <2>1. FALSE \in BOOLEAN /\ TRUE \in BOOLEAN
    OBVIOUS
  <2>2. /\ Sound(x, k) /\ x.cfg = v.cfg
        /\ x.threw \/ (x.staged = <<>> /\ (v.cand = {} \/ v.staged # <<>> => x.cand = {}))
        /\ x.status = v.status /\ (Writable(x) => Writable(v))
    BY <2>1, FlushOutcome
  <2> QED BY <2>2
<1>3. CASE x.threw
  BY <1>1, <1>2, <1>3
<1>4. CASE ~x.threw
  <2>1. HasRoomAgain(x, k, u)
    BY <1>1, <1>2, <1>4, CutSound
  <2> QED BY <1>2, <2>1 DEF HasRoomAgain
<1> QED BY <1>3, <1>4

LEMMA UnheldOutcome ==
  ASSUME NEW v, Sound(v, 1), v.cand = {}, NEW m \in Messages, Belongs(v, m),
         Writable(v) => v.status = "Waiting" \/ (v.status = "Ready" /\ Roomy(v)),
         NEW u \in Unheld(v, m)
  PROVE  Sound(u, 0)
<1>1. CASE v.status = "Waiting"
  BY <1>1, SoundOwing DEF Unheld
<1>2. CASE v.status # "Waiting"
  <2>1. NotStaged(v, m)
    BY DEF Sound, NotStaged
  <2>2. Sound(v, 0 + 1) /\ 0 \in Nat
    OBVIOUS
  <2> QED BY <1>2, <2>1, <2>2, DirectOutcome DEF Unheld
<1> QED BY <1>1, <1>2

(* The record that ends a cut follows what was staged for it.              *)
LEMMA WrittenAfter ==
  ASSUME NEW v, Sound(v, 1), ~v.threw, v.cand = {} \/ v.staged # <<>>,
         NEW m \in Messages, Belongs(v, m), Writable(v) => v.status = "Ready",
         NEW u \in Then(Then(FlushStaged(v, FALSE, TRUE), ForceRollIfDue),
                        LAMBDA y : WriteDirectly(y, m))
  PROVE  Sound(u, 0)
<1>1. PICK x \in Then(FlushStaged(v, FALSE, TRUE), ForceRollIfDue) :
        u \in IF x.threw THEN {x} ELSE WriteDirectly(x, m)
  BY Zenon DEF Then
<1>2. Sound(x, 1) /\ (x.threw \/ HasRoomAgain(v, 1, x))
  BY GivenUp
<1>3. CASE x.threw
  <2>1. ~Writable(x)
    BY <1>2, <1>3 DEF Sound, Going, Writable
  <2> QED BY <1>1, <1>2, <1>3, <2>1, SoundOwing
<1>4. CASE ~x.threw
  <2>1. HasRoomAgain(v, 1, x)
    BY <1>2, <1>4
  <2>2. NotStaged(x, m) /\ Belongs(x, m)
    BY <2>1 DEF HasRoomAgain, NotStaged, Belongs, Selected
  <2>3. Sound(x, 0 + 1) /\ 0 \in Nat
    BY <1>2
  <2> QED BY <1>1, <1>4, <2>1, <2>2, <2>3, DirectOutcome DEF HasRoomAgain
<1> QED BY <1>3, <1>4

LEMMA FailStartOutcome ==
  ASSUME NEW v, NEW k, Sound(v, k), NEW u, u = FailStart(v), NEW j
  PROVE  Sound(u, j) /\ u.threw = v.threw /\ u.cfg = v.cfg /\ u.status = "TimedOut" /\ u.cand = {}
<1>0. Going(v) /\ OwnStart(v) /\ Bounded(v) /\ v.cfg.max_staged \in Nat
  BY CeilingFacts DEF Sound, Going
<1>1. /\ IsWriter(u) /\ u.staged = <<>> /\ u.cand = {} /\ u.status = "TimedOut"
      /\ u.overtook = v.overtook
      /\ Same(v, u, {"staged", "cand", "owed", "status", "late"})
  BY <1>0, Zenon DEF FailStart, Unstaged, Going, Typed, IsWriter, Same, Fields
<1>2. Same(v, u, LooseFields) /\ u.staged \in Seq(Messages)
  BY <1>1 DEF Same, LooseFields
<1>3. Going(u) /\ OwnStart(u) /\ Bounded(u) /\ Alike(v, u)
  BY <1>0, <1>1, <1>2, LooseGoing DEF Going
<1>4. StagedBytes(u) <= u.cfg.max_staged
  <2>1. StagedBytes(u) = 0
    BY <1>1, NothingStaged
  <2> QED BY <1>0, <1>3, <2>1 DEF Alike
<1>5. StageSound(u)
  BY <1>1, <1>4 DEF StageSound
<1> QED BY <1>1, <1>3, <1>5 DEF Sound, StartSound, Alike

LEMMA OverflowOutcome ==
  ASSUME NEW v, Sound(v, 1), ~v.threw, v.staged # <<>>, NEW m \in Messages, Belongs(v, m),
         NEW u \in StageOverflow(v, m)
  PROVE  Sound(u, 0)
<1>1. CASE v.status = "Waiting"
  BY <1>1, FailStartOutcome DEF StageOverflow
<1>2. CASE v.status # "Waiting"
  <2>1. Writable(v) => v.status = "Ready"
    BY <1>2 DEF Sound, StartSound, Going, Typed
  <2>2. u \in Then(Then(FlushStaged(v, FALSE, TRUE), ForceRollIfDue),
                   LAMBDA y : WriteDirectly(y, m))
    BY <1>2, Zenon DEF StageOverflow
  <2> QED BY <2>1, <2>2, WrittenAfter
<1> QED BY <1>1, <1>2

LEMMA PrecedingOutcome ==
  ASSUME NEW v, Sound(v, 1), ~v.threw, Writable(v), NEW m \in Messages,
         Belongs(v, m), Outsider(v, m), NEW u \in Preceding(v, m)
  PROVE  Sound(u, 0)
<1>1. CASE v.status = "Waiting"
  BY <1>1, SoundOwing DEF Preceding
<1>2. CASE v.status # "Waiting"
  <2>1. StageSound(v) /\ StartSound(v, 1) /\ v.cand # {} /\ v.staged # <<>>
    BY DEF Sound, StageSound, Outsider
  <2>2. v.status = "Ready"
    BY <1>2, <2>1 DEF Sound, StartSound, Going, Typed
  <2>3. CASE ForcedCutDue(v)
    <3>1. u \in Then(Then(FlushStaged(v, FALSE, TRUE), ForceRollIfDue),
                     LAMBDA y : WriteDirectly(y, m))
      BY <1>2, <2>3, Zenon DEF Preceding
    <3> QED BY <2>1, <2>2, <3>1, WrittenAfter
  <2>4. CASE ~ForcedCutDue(v)
    <3>1. u \in WriteDirectly(v, m)
      BY <1>2, <2>4 DEF Preceding, Then
    <3>2. Roomy(v)
      <4>1. Ceiling(v) \in Nat /\ v.bytes \in Nat
        BY CeilingFacts DEF Sound, Going, Typed
      <4> QED BY <2>4, <4>1 DEF ForcedCutDue, Roomy
    <3>3. NotStaged(v, m)
      BY <2>1 DEF StageSound, NotStaged, Outsider, Selected
    <3>4. Sound(v, 0 + 1) /\ 0 \in Nat
      OBVIOUS
    <3> QED BY <2>2, <3>1, <3>2, <3>3, <3>4, DirectOutcome
  <2> QED BY <2>3, <2>4
<1> QED BY <1>1, <1>2

LEMMA LeadsMore ==
  ASSUME NEW s \in Seq(Messages), NEW m \in Messages, NEW point, NEW c,
         LeadsFrom(s, 0, point, c)
  PROVE  LeadsFrom(Append(s, m), 0, point, c)
<1>0. Len(s) \in Nat /\ Len(Append(s, m)) = Len(s) + 1
  OBVIOUS
<1>1. PICK i \in 1 .. Len(s) : /\ s[i].chan = c /\ s[i].key /\ s[i].point = point
                               /\ \A j \in 1 .. i - 1 : s[j].chan # c
  BY DEF LeadsFrom
<1>2. \A j \in 1 .. Len(s) : Append(s, m)[j] = s[j]
  OBVIOUS
<1>3. i \in 1 .. Len(s) + 1 /\ \A j \in 1 .. i - 1 : j \in 1 .. Len(s)
  BY <1>0
<1> QED BY <1>0, <1>1, <1>2, <1>3 DEF LeadsFrom

LEMMA LeadsNow ==
  ASSUME NEW s \in Seq(Messages), NEW m \in Messages, m.key,
         \A i \in DOMAIN s : s[i].chan # m.chan
  PROVE  LeadsFrom(Append(s, m), 0, m.point, m.chan)
<1>0. Len(s) \in Nat /\ Len(Append(s, m)) = Len(s) + 1 /\ DOMAIN s = 1 .. Len(s)
  OBVIOUS
<1>1. Append(s, m)[Len(s) + 1] = m
  OBVIOUS
<1>2. \A j \in 1 .. Len(s) : Append(s, m)[j] = s[j]
  OBVIOUS
<1>3. Len(s) + 1 \in 1 .. Len(s) + 1 /\ (Len(s) + 1) - 1 = Len(s)
  BY <1>0
<1>4. \A j \in 1 .. (Len(s) + 1) - 1 : Append(s, m)[j].chan # m.chan
  BY <1>0, <1>2, <1>3
<1> QED BY <1>0, <1>1, <1>3, <1>4 DEF LeadsFrom

(* m can be staged: for a candidate there is, or the one it begins.        *)
Joinable(v, m, idr) ==
  /\ Going(v) /\ OwnStart(v) /\ Bounded(v) /\ v.cand # {}
  /\ v.staged = <<>> => m.size <= v.cfg.max_staged
  /\ v.staged # <<>> => Sound(v, 1)
  /\ Writable(v) \/ (v.status # "Waiting" /\ (v.open => v.bytes > 0))
  /\ idr => m.key /\ Selected(v, m)
  /\ Writable(v) =>
       /\ \A i \in DOMAIN v.staged :
            /\ Belongs(v, v.staged[i])
            /\ Selected(v, v.staged[i]) => v.staged[i].chan \in v.cand
       /\ \A c \in v.cand \cap Cameras :
            \/ LeadsFrom(v.staged, 0, v.point, c)
            \/ v.staged = <<>> /\ c = m.chan /\ m.key /\ m.point = v.point
       /\ Selected(v, m) => m.chan \in v.cand \/ (idr /\ m.point = v.point)
       /\ StartSound(v, 1) /\ v.status # "TimedOut"
       /\ v.status = "Ready" /\ v.cfg.max_bytes > 0 => v.bytes < Ceiling(v) + MaxFrame

(* Stage's joined. *)
JoinedTo(v, m, idr) ==
  LET longer == [v EXCEPT !.staged = Append(@, m)]
  IN  IF idr /\ m.point = v.point /\ m.chan \notin v.cand THEN JoinCandidate(longer, m) ELSE longer

LEMMA JoinedOutcome ==
  ASSUME NEW v, NEW m \in Messages, Belongs(v, m), NEW idr \in BOOLEAN, Joinable(v, m, idr),
         HasRoom(v, m), NEW u, u = JoinedTo(v, m, idr)
  PROVE  Sound(u, 0) /\ u.staged # <<>> /\ u.status = v.status /\ u.open = v.open /\ Alike(v, u)
<1> DEFINE joins == idr /\ m.point = v.point /\ m.chan \notin v.cand
<1>0. /\ Going(v) /\ OwnStart(v) /\ Bounded(v) /\ v.staged \in Seq(Messages)
      /\ v.cand \subseteq v.cfg.selected /\ v.cand # {}
  BY DEF Joinable, Going, Typed
<1>1. /\ IsWriter(u) /\ u.staged = Append(v.staged, m)
      /\ u.cand = (IF joins THEN v.cand \cup {m.chan} ELSE v.cand)
      /\ Same(v, u, {"staged", "cand", "lo", "hi"})
  <2> DEFINE longer == [v EXCEPT !.staged = Append(@, m)]
  <2>1. /\ IsWriter(longer) /\ longer.staged = Append(v.staged, m) /\ longer.cand = v.cand
        /\ Same(v, longer, {"staged"})
    BY <1>0, Zenon DEF Going, Typed, IsWriter, Same, Fields
  <2>2. u = IF joins THEN JoinCandidate(longer, m) ELSE longer
    BY DEF JoinedTo
  <2> HIDE DEF longer
  <2>3. CASE joins
    <3>1. u = JoinCandidate(longer, m)
      BY <2>2, <2>3
    <3>2. /\ IsWriter(u) /\ u.cand = longer.cand \cup {m.chan}
          /\ Same(longer, u, {"cand", "lo", "hi"})
      BY <2>1, <3>1, Zenon DEF JoinCandidate, IsWriter, Same, Fields
    <3>3. u.staged = longer.staged
      BY <3>2 DEF Same, Fields
    <3> QED BY <2>1, <2>3, <3>2, <3>3 DEF Same
  <2>4. CASE ~joins
    BY <2>1, <2>2, <2>4 DEF Same
  <2> QED BY <2>3, <2>4
<1> HIDE DEF joins
<1>2. u.point = v.point /\ u.status = v.status /\ u.owed = v.owed /\ u.open = v.open
      /\ u.overtook = v.overtook
  BY <1>1 DEF Same, Fields
<1>3. u.staged \in Seq(Messages) /\ u.staged # <<>> /\ Len(u.staged) = Len(v.staged) + 1
      /\ Len(v.staged) \in Nat
  BY <1>0, <1>1
<1>4. u.cand \subseteq v.cfg.selected /\ v.cand \subseteq u.cand
  BY <1>0, <1>1 DEF Joinable, Selected, joins
<1>5. Going(u) /\ OwnStart(u) /\ Bounded(u) /\ Alike(v, u)
  <2>1. Same(v, u, LooseFields)
    BY <1>1 DEF Same, LooseFields
  <2> QED BY <1>0, <1>1, <1>2, <1>3, <1>4, <2>1, LooseGoing DEF Going, Typed
<1>6. ASSUME Writable(v) PROVE StageSound(u) /\ StartSound(u, 0)
  <2>1. /\ \A i \in DOMAIN v.staged :
             /\ Belongs(v, v.staged[i])
             /\ Selected(v, v.staged[i]) => v.staged[i].chan \in v.cand
        /\ \A c \in v.cand \cap Cameras :
             \/ LeadsFrom(v.staged, 0, v.point, c)
             \/ v.staged = <<>> /\ c = m.chan /\ m.key /\ m.point = v.point
        /\ Selected(v, m) => m.chan \in v.cand \/ (idr /\ m.point = v.point)
        /\ StartSound(v, 1) /\ v.status # "TimedOut"
        /\ v.status = "Ready" /\ v.cfg.max_bytes > 0 => v.bytes < Ceiling(v) + MaxFrame
    BY <1>6 DEF Joinable
  <2>2. \A i \in DOMAIN u.staged : 
          (i \in DOMAIN v.staged /\ u.staged[i] = v.staged[i]) \/ u.staged[i] = m
    BY <1>0, <1>1
  <2>3. \A i \in DOMAIN u.staged :
          /\ Belongs(u, u.staged[i])
          /\ Selected(u, u.staged[i]) => u.staged[i].chan \in u.cand
    <3>1. Belongs(u, m) /\ (Selected(u, m) => m.chan \in u.cand)
      BY <1>1, <1>5, <2>1 DEF Belongs, Selected, joins, Alike
    <3>2. \A i \in DOMAIN v.staged :
            /\ Belongs(u, v.staged[i])
            /\ Selected(u, v.staged[i]) => v.staged[i].chan \in u.cand
      BY <1>4, <1>5, <2>1 DEF Belongs, Selected, Alike
    <3> QED BY <2>2, <3>1, <3>2
  <2>4. ASSUME NEW c \in u.cand \cap Cameras PROVE LeadsFrom(u.staged, 0, u.point, c)
    <3>1. CASE LeadsFrom(v.staged, 0, v.point, c)
      BY <1>0, <1>1, <1>2, <3>1, LeadsMore
    <3>2. CASE v.staged = <<>> /\ c = m.chan /\ m.key /\ m.point = v.point
      <4>1. \A i \in DOMAIN v.staged : v.staged[i].chan # m.chan
        BY <3>2
      <4> QED BY <1>0, <1>1, <1>2, <3>2, <4>1, LeadsNow
    <3>3. CASE c \notin v.cand
      <4>1. joins /\ c = m.chan
        BY <1>1, <3>3
      <4>2. m.key /\ Selected(v, m) /\ m.point = v.point
        BY <4>1 DEF Joinable, joins
      <4>3. \A i \in DOMAIN v.staged : v.staged[i].chan # m.chan
        BY <2>1, <3>3, <4>1, <4>2 DEF Selected
      <4> QED BY <1>0, <1>1, <1>2, <4>1, <4>2, <4>3, LeadsNow
    <3> QED BY <2>1, <3>1, <3>2, <3>3
  <2>5. StagedBytes(u) <= u.cfg.max_staged
    <3>1. StagedBytes(u) = StagedBytes(v) + m.size
      BY <1>0, <1>1, StagedGrows
    <3> QED BY <1>5, <3>1 DEF HasRoom, Alike
  <2>6. StageSound(u)
    BY <1>0, <1>3, <1>4, <2>3, <2>4, <2>5 DEF StageSound
  <2>7. v.status = "Ready" => u.owed = Len(u.staged) + 0
    <3>1. v.status = "Ready" => v.owed = Len(v.staged) + 1
      BY <2>1 DEF StartSound
    <3>2. Len(u.staged) + 0 = Len(v.staged) + 1
      BY <1>3
    <3> QED BY <1>2, <3>1, <3>2
  <2>8. StartSound(u, 0)
    <3>1. Ceiling(u) = Ceiling(v)
      BY <1>5 DEF Alike, Ceiling
    <3> QED BY <1>0, <1>2, <1>5, <2>1, <2>7, <3>1 DEF StartSound, Started, Alike
  <2> QED BY <2>6, <2>8
<1> QED BY <1>0, <1>2, <1>3, <1>4, <1>5, <1>6 DEF Sound, Alike

LEMMA StageOutcome ==
  ASSUME NEW v, NEW m \in Messages, Belongs(v, m), NEW idr \in BOOLEAN, Joinable(v, m, idr),
         ~v.threw, NEW u \in Stage(v, m, idr)
  PROVE  Sound(u, 0)
<1> DEFINE joined == JoinedTo(v, m, idr)
<1>0. Going(v) /\ v.cfg.max_staged \in Nat /\ m.size \in Nat
  BY CeilingFacts, MessageFacts DEF Joinable, Going
<1>1. u \in IF ~HasRoom(v, m) THEN StageOverflow(v, m)
            ELSE IF joined.cand = v.cfg.selected THEN FlushStaged(joined, TRUE, TRUE)
            ELSE IF StageFillsPart(joined) THEN FlushStaged(joined, FALSE, TRUE)
            ELSE {joined}
  BY Zenon DEF Stage, JoinedTo
<1>2. CASE ~HasRoom(v, m)
  <2>1. v.staged # <<>>
    <3>1. v.staged = <<>> => StagedBytes(v) = 0
      BY NothingStaged
    <3> QED BY <1>0, <1>2, <3>1 DEF HasRoom, Joinable
  <2>2. Sound(v, 1)
    BY <2>1 DEF Joinable
  <2> QED BY <1>1, <1>2, <2>1, <2>2, OverflowOutcome
<1>3. CASE HasRoom(v, m)
  <2>1. /\ Sound(joined, 0) /\ joined.staged # <<>> /\ joined.status = v.status
        /\ joined.open = v.open /\ Alike(v, joined)
    BY <1>3, JoinedOutcome
  <2> HIDE DEF joined
  <2>2. ~joined.threw /\ 0 \in Nat
    BY <2>1 DEF Alike
  <2>3. CASE joined.cand = v.cfg.selected
    <3>1. u \in FlushStaged(joined, TRUE, TRUE)
      BY <1>1, <1>3, <2>3
    <3>2. /\ joined.cand = joined.cfg.selected
          /\ Writable(joined) \/ (joined.status # "Waiting" /\ (joined.open => joined.bytes > 0))
      BY <2>1, <2>3 DEF Alike, Joinable
    <3> QED BY <2>1, <2>2, <3>1, <3>2, FlushOutcome
  <2>4. CASE joined.cand # v.cfg.selected /\ StageFillsPart(joined)
    <3>1. u \in FlushStaged(joined, FALSE, TRUE)
      BY <1>1, <1>3, <2>4
    <3>2. joined.status # "Waiting"
      BY <2>4 DEF StageFillsPart
    <3> QED BY <2>1, <2>2, <3>1, <3>2, FlushOutcome
  <2>5. CASE joined.cand # v.cfg.selected /\ ~StageFillsPart(joined)
    BY <1>1, <1>3, <2>1, <2>5
  <2> QED BY <2>3, <2>4, <2>5
<1> QED BY <1>2, <1>3

(* A keyframe of a sync point.                                             *)
Points(v, m, idr) == idr => m.key /\ Selected(v, m) /\ m.point # NoPoint

LEMMA BegunJoinable ==
  ASSUME NEW v, Sound(v, 1), v.cand = {}, NEW m \in Messages, Belongs(v, m), Points(v, m, TRUE),
         Writable(v) \/ (v.status # "Waiting" /\ (v.open => v.bytes > 0)),
         Writable(v) => v.status = "Waiting" \/ (v.status = "Ready" /\ Roomy(v) /\ v.bytes > 0),
         NEW u, u = BeginCandidate(v, m)
  PROVE  Joinable(u, m, TRUE) /\ Belongs(u, m) /\ u.threw = v.threw
<1>0. Going(v) /\ OwnStart(v) /\ Bounded(v) /\ v.staged = <<>>
  BY DEF Sound
<1>1. /\ IsWriter(u) /\ u.point = m.point /\ u.cand = {m.chan}
      /\ Same(v, u, {"point", "lo", "hi", "cand", "late"})
  BY <1>0, Zenon DEF BeginCandidate, Going, Typed, IsWriter, Same, Fields
<1>2. /\ u.staged = v.staged /\ u.status = v.status /\ u.owed = v.owed /\ u.open = v.open
      /\ u.overtook = v.overtook
  BY <1>1 DEF Same, Fields
<1>3. Same(v, u, LooseFields) /\ u.cand \subseteq v.cfg.selected
  BY <1>1 DEF Same, LooseFields, Points, Selected
<1>4. Going(u) /\ OwnStart(u) /\ Bounded(u) /\ Alike(v, u)
  BY <1>0, <1>1, <1>2, <1>3, LooseGoing DEF Going, Typed
<1>5. m.size <= u.cfg.max_staged
  <2>1. m \in Frames
    BY DEF Messages, Points
  <2>2. FitsStage(v.cfg) /\ v.cfg.continuation
    BY <1>0 DEF Going, Typed
  <2> QED BY <1>4, <2>1, <2>2 DEF FitsStage, Points, Alike
<1>6. Writable(u) =>
        /\ StartSound(u, 1) /\ u.status # "TimedOut"
        /\ u.status = "Ready" /\ u.cfg.max_bytes > 0 => u.bytes < Ceiling(u) + MaxFrame
  <2> SUFFICES ASSUME Writable(u) 
               PROVE  /\ StartSound(u, 1) /\ u.status # "TimedOut"
                      /\ u.status = "Ready" /\ u.cfg.max_bytes > 0 =>
                           u.bytes < Ceiling(u) + MaxFrame
    OBVIOUS
  <2>1. Writable(v) /\ StartSound(v, 1)
    BY <1>4 DEF Alike, Sound
  <2>2. /\ Ceiling(u) = Ceiling(v) /\ Ceiling(v) \in Nat /\ MaxFrame \in Nat /\ v.bytes \in Nat
    BY <1>0, <1>4, CeilingFacts, MessageFacts DEF Alike, Ceiling, Going, Typed
  <2>3. u.status = "Ready" /\ u.cfg.max_bytes > 0 => u.bytes < Ceiling(u) + MaxFrame
    BY <1>2, <1>4, <2>1, <2>2 DEF Alike, Roomy
  <2>4. StartSound(u, 1)
    BY <1>0, <1>2, <1>4, <2>1, <2>2, <2>3 DEF StartSound, Started, Alike
  <2> QED BY <1>2, <2>1, <2>3, <2>4
<1>7. \A i \in DOMAIN u.staged : FALSE
  BY <1>0, <1>2
<1>8. m.key /\ Selected(u, m) /\ Belongs(u, m) /\ m.chan \in u.cand
  BY <1>1, <1>4 DEF Points, Selected, Belongs, Alike
<1>9. Writable(u) \/ (u.status # "Waiting" /\ (u.open => u.bytes > 0))
  BY <1>2, <1>4 DEF Alike
<1> QED BY <1>0, <1>1, <1>2, <1>4, <1>5, <1>6, <1>7, <1>8, <1>9 DEF Joinable, Alike

(* v takes a record, and no candidate outlives the writer's last part.     *)
Taking(v) ==
  /\ Sound(v, 1) /\ ~v.threw
  /\ Writable(v) \/ (v.cand = {} /\ v.status # "Waiting")
  /\ v.status # "TimedOut"

LEMMA GivenUpOnly ==
  ASSUME NEW v, NEW k \in Nat, Sound(v, k), ~v.threw, v.status # "Waiting",
         NEW u \in FlushStaged(v, FALSE, TRUE)
  PROVE  /\ Sound(u, k) /\ u.cfg = v.cfg /\ u.status = v.status
         /\ u.threw \/ (u.staged = <<>> /\ (v.cand = {} \/ v.staged # <<>> => u.cand = {}))
<1>1. FALSE \in BOOLEAN /\ TRUE \in BOOLEAN
  OBVIOUS
<1> QED BY <1>1, FlushOutcome

LEMMA DecidedOutcome ==
  ASSUME NEW v, Taking(v), NEW m \in Messages, Belongs(v, m), ~Outsider(v, m),
         NEW idr \in BOOLEAN, Points(v, m, idr), NEW u \in Decided(v, m, idr)
  PROVE  Sound(u, 0)
<1> DEFINE due == v.status = "Waiting" \/ (Rotating(v) /\ ShouldRoll(v))
<1>0. /\ Sound(v, 1) /\ ~v.threw /\ Going(v) /\ OwnStart(v) /\ Bounded(v)
      /\ Writable(v) \/ v.status # "Waiting"
      /\ Writable(v) => StageSound(v) /\ StartSound(v, 1)
      /\ v.status # "TimedOut" /\ v.status \in {"Waiting", "Ready", "TimedOut"}
  BY DEF Taking, Sound, Going, Typed
<1>1. /\ Ceiling(v) \in Nat /\ v.bytes \in Nat /\ v.cfg.max_bytes \in Nat
      /\ v.cfg.max_bytes <= Ceiling(v)
  BY <1>0, CeilingFacts DEF Going, Typed
<1>2. due /\ v.status # "Waiting" => v.bytes > 0
  BY <1>1, DueHasBytes
<1>3. ~(due /\ CutsAtOnce(v)) /\ v.status # "Waiting" => Roomy(v)
  BY <1>1 DEF CutsAtOnce, ForcedCutDue, Rotating, ShouldRoll, Roomy
<1>4. CASE v.cand # {}
  <2>1. u \in Stage(v, m, idr)
    BY <1>4 DEF Decided
  <2>2. /\ Writable(v) /\ StageSound(v) /\ StartSound(v, 1) /\ v.staged # <<>>
    BY <1>0, <1>4 DEF Taking, StageSound
  <2>3. Selected(v, m) => m.chan \in v.cand
    BY <1>4 DEF Outsider
  <2>4. v.status = "Ready" /\ v.cfg.max_bytes > 0 => v.bytes < Ceiling(v) + MaxFrame
    BY <2>2 DEF StartSound
  <2>5. /\ \A i \in DOMAIN v.staged :
            /\ Belongs(v, v.staged[i])
            /\ Selected(v, v.staged[i]) => v.staged[i].chan \in v.cand
        /\ \A c \in v.cand \cap Cameras : LeadsFrom(v.staged, 0, v.point, c)
    BY <2>2 DEF StageSound
  <2>6. Joinable(v, m, idr)
    BY <1>0, <1>4, <2>2, <2>3, <2>4, <2>5 DEF Joinable, Points
  <2> QED BY <1>0, <2>1, <2>6, StageOutcome
<1>5. CASE v.cand = {} /\ due /\ CutsAtOnce(v)
  <2>1. PICK x \in RollAs(v, "forced") : u \in IF x.threw THEN {x} ELSE Unheld(x, m)
    BY <1>5, Zenon DEF Decided, Then
  <2>2. v.status # "Waiting"
    BY <1>5 DEF CutsAtOnce
  <2>3. Writable(v) => v.status = "Ready"
    BY <1>0, <2>2
  <2>4. HasRoomAgain(v, 1, x)
    BY <1>0, <1>2, <1>5, <2>1, <2>2, <2>3, CutSound
  <2>5. CASE x.threw
    <3>1. ~Writable(x)
      BY <2>4, <2>5 DEF HasRoomAgain, Sound, Going, Writable
    <3> QED BY <2>1, <2>4, <2>5, <3>1, SoundOwing DEF HasRoomAgain
  <2>6. CASE ~x.threw
    <3>1. Belongs(x, m)
      BY <2>4 DEF HasRoomAgain, Belongs, Selected
    <3> QED BY <2>1, <2>3, <2>4, <2>6, <3>1, UnheldOutcome DEF HasRoomAgain
  <2> QED BY <2>5, <2>6
<1>6. CASE v.cand = {} /\ due /\ ~CutsAtOnce(v) /\ idr
  <2> DEFINE b == BeginCandidate(v, m)
  <2>1. u \in Stage(b, m, TRUE)
    BY <1>6 DEF Decided
  <2>2. Points(v, m, TRUE)
    BY <1>6
  <2>3. Joinable(b, m, TRUE) /\ Belongs(b, m) /\ b.threw = v.threw
    BY <1>0, <1>2, <1>3, <1>6, <2>2, BegunJoinable
  <2> HIDE DEF b
  <2> QED BY <1>0, <2>1, <2>3, StageOutcome
<1>7. CASE v.cand = {} /\ ~(due /\ CutsAtOnce(v)) /\ ~(due /\ idr)
  <2>1. u \in Unheld(v, m)
    BY <1>7 DEF Decided
  <2> QED BY <1>0, <1>3, <1>7, <2>1, UnheldOutcome
<1> QED BY <1>4, <1>5, <1>6, <1>7

LEMMA PlacedOutcome ==
  ASSUME NEW v, Taking(v), NEW m \in Messages, Belongs(v, m),
         NEW idr \in BOOLEAN, Points(v, m, idr), NEW u \in Placed(v, m, idr)
  PROVE  Sound(u, 0)
<1>0. /\ Sound(v, 1) /\ ~v.threw /\ Going(v) /\ OwnStart(v) /\ Bounded(v)
      /\ v.status # "TimedOut" /\ v.status \in {"Waiting", "Ready", "TimedOut"}
  BY DEF Taking, Sound, Going, Typed
<1>1. CASE ~Outsider(v, m)
  BY <1>1, DecidedOutcome DEF Placed
<1>2. CASE Outsider(v, m)
  <2>1. Writable(v) /\ v.cand # {} /\ Selected(v, m) /\ m.chan \notin v.cand
    BY <1>2 DEF Outsider, Taking
  <2>2. StageSound(v) /\ StartSound(v, 1) /\ v.staged # <<>>
    BY <2>1 DEF Taking, Sound, StageSound
  <2>3. CASE Precedes(v, m)
    BY <1>0, <1>2, <2>1, <2>3, PrecedingOutcome DEF Placed
  <2>4. CASE ~Precedes(v, m) /\ FitsCandidate(v, m, idr)
    <3>1. u \in Stage(v, m, idr)
      BY <1>2, <2>4 DEF Placed
    <3>2. idr /\ m.point = v.point
      BY <2>4 DEF FitsCandidate
    <3>3. v.status = "Ready" /\ v.cfg.max_bytes > 0 => v.bytes < Ceiling(v) + MaxFrame
      BY <2>2 DEF StartSound
    <3>4. /\ \A i \in DOMAIN v.staged :
              /\ Belongs(v, v.staged[i])
              /\ Selected(v, v.staged[i]) => v.staged[i].chan \in v.cand
          /\ \A c \in v.cand \cap Cameras : LeadsFrom(v.staged, 0, v.point, c)
      BY <2>2 DEF StageSound
    <3>5. Joinable(v, m, idr)
      BY <1>0, <2>1, <2>2, <3>2, <3>3, <3>4 DEF Joinable, Points
    <3> QED BY <1>0, <3>1, <3>5, StageOutcome
  <2>5. CASE ~Precedes(v, m) /\ ~FitsCandidate(v, m, idr) /\ v.status = "Waiting"
    <3>1. u = FailStart(v)
      BY <1>2, <2>5 DEF Placed
    <3> QED BY <1>0, <3>1, FailStartOutcome
  <2>6. CASE ~Precedes(v, m) /\ ~FitsCandidate(v, m, idr) /\ v.status # "Waiting"
    <3>1. PICK x \in FlushStaged(v, FALSE, TRUE) :
            u \in IF x.threw THEN {x} ELSE Decided(x, m, idr)
      BY <1>2, <2>6, Zenon DEF Placed, Then
    <3>2. FALSE \in BOOLEAN /\ TRUE \in BOOLEAN /\ 1 \in Nat
      OBVIOUS
    <3>3. /\ Sound(x, 1) /\ x.cfg = v.cfg /\ x.status = v.status
          /\ x.threw \/ (x.staged = <<>> /\ (v.cand = {} \/ v.staged # <<>> => x.cand = {}))
      <4>1. Sound(v, 1) /\ ~v.threw /\ v.status # "Waiting"
        BY <1>0, <2>6
      <4>2. x \in FlushStaged(v, FALSE, TRUE)
        BY <3>1
      <4> QED BY <3>2, <4>1, <4>2, GivenUpOnly
    <3>4. CASE x.threw
      <4>1. ~Writable(x)
        BY <3>3, <3>4 DEF Sound, Going, Writable
      <4> QED BY <3>1, <3>3, <3>4, <4>1, SoundOwing
    <3>5. CASE ~x.threw
      <4>1. x.cand = {} /\ x.status # "Waiting" /\ x.status # "TimedOut"
        BY <1>0, <2>2, <2>6, <3>3, <3>5
      <4>2. Taking(x)
        BY <3>3, <3>5, <4>1 DEF Taking
      <4>3. Belongs(x, m) /\ ~Outsider(x, m) /\ Points(x, m, idr)
        BY <3>3, <4>1 DEF Belongs, Outsider, Points, Selected
      <4> QED BY <3>1, <3>5, <4>2, <4>3, DecidedOutcome
    <3> QED BY <3>4, <3>5
  <2> QED BY <2>3, <2>4, <2>5, <2>6
<1> QED BY <1>1, <1>2

LEMMA FlushDueOutcome ==
  ASSUME NEW v, NEW k \in Nat, Sound(v, k), ~v.threw, Writable(v), NEW u \in FlushDue(v)
  PROVE  /\ Sound(u, k) /\ u.cfg = v.cfg
         /\ u.threw \/ Writable(u) \/ (u.cand = {} /\ u.status # "Waiting")
<1>1. CASE ~HasDeadline(v) \/ ~v.late
  BY <1>1 DEF FlushDue
<1>2. CASE HasDeadline(v) /\ v.late /\ v.status = "Waiting"
  BY <1>2, FailStartOutcome DEF FlushDue
<1>3. CASE HasDeadline(v) /\ v.late /\ v.status # "Waiting"
  <2>1. u \in FlushStaged(v, FALSE, TRUE) /\ v.staged # <<>>
    BY <1>3 DEF FlushDue, HasDeadline
  <2>2. FALSE \in BOOLEAN /\ TRUE \in BOOLEAN
    OBVIOUS
  <2>3. /\ Sound(u, k) /\ u.cfg = v.cfg /\ u.status = v.status
        /\ u.threw \/ (u.staged = <<>> /\ (v.cand = {} \/ v.staged # <<>> => u.cand = {}))
    BY <1>3, <2>1, <2>2, FlushOutcome
  <2> QED BY <1>3, <2>1, <2>3
<1> QED BY <1>1, <1>2, <1>3

(* A record of this recording is in hand until it is written or staged.    *)
StillOwed(v, m) == IF Belongs(v, m) THEN 1 ELSE 0

LEMMA OwedOutcome ==
  ASSUME NEW v, Sound(v, 0), NEW m, NEW u, u = Owed(v, m)
  PROVE  Sound(u, StillOwed(v, m)) /\ Alike(v, u)
<1>0. Going(v) /\ OwnStart(v) /\ Bounded(v) /\ v.staged \in Seq(Messages)
  BY DEF Sound, Going, Typed
<1>1. CASE ~(v.status = "Ready" /\ Belongs(v, m))
  <2>1. u = v
    BY <1>1 DEF Owed
  <2>2. CASE v.status # "Ready"
    BY <2>1, <2>2, SoundOwing DEF Alike
  <2>3. CASE ~Belongs(v, m)
    BY <2>1, <2>3 DEF StillOwed, Alike
  <2> QED BY <1>1, <2>2, <2>3
<1>2. CASE v.status = "Ready" /\ Belongs(v, m)
  <2>1. u = [v EXCEPT !.owed = @ + 1]
    BY <1>0, <1>2 DEF Owed, Going
  <2>2. IsWriter(u) /\ u.owed = v.owed + 1 /\ Same(v, u, {"owed"})
    BY <1>0, <2>1, Zenon DEF Going, Typed, IsWriter, Same, Fields
  <2>3. /\ u.staged = v.staged /\ u.cand = v.cand /\ u.status = v.status /\ u.point = v.point
        /\ u.overtook = v.overtook
    BY <2>2 DEF Same, Fields
  <2>4. Same(v, u, LooseFields)
    BY <2>2 DEF Same, LooseFields
  <2>5. Going(u) /\ OwnStart(u) /\ Bounded(u) /\ Alike(v, u)
    BY <1>0, <2>2, <2>3, <2>4, LooseGoing DEF Going, Typed
  <2>6. ASSUME Writable(u) PROVE StageSound(u) /\ StartSound(u, 1)
    <3>1. StageSound(v) /\ StartSound(v, 0)
      BY <2>5, <2>6 DEF Alike, Sound
    <3>2. StageSound(u)
      BY <2>3, <2>5, <3>1, SameStage DEF Alike
    <3>3. v.owed = Len(v.staged) + 0
      BY <1>2, <3>1, Zenon DEF StartSound
    <3>4. \A a \in Nat : (a + 0) + 1 = a + 1
      OBVIOUS
    <3>5. Len(v.staged) \in Nat
      BY <1>0
    <3>6. u.owed = Len(u.staged) + 1
      BY <2>2, <2>3, <3>3, <3>4, <3>5, Zenon
    <3>7. Ceiling(u) = Ceiling(v)
      BY <2>5 DEF Alike, Ceiling
    <3>8. StartSound(u, 1)
      BY <1>2, <2>3, <2>5, <3>1, <3>6, <3>7 DEF StartSound, Started, Alike
    <3> QED BY <3>2, <3>8
  <2>7. v.cand = {} => v.staged = <<>>
    BY DEF Sound
  <2> QED BY <1>2, <2>3, <2>5, <2>6, <2>7 DEF Sound, StillOwed
<1> QED BY <1>1, <1>2

(* A call of the continuation policy leaves the writer sound.              *)
LEMMA ContinuationOutcome ==
  ASSUME NEW v, Sound(v, 0), ~v.threw, Writable(v), NEW m \in Messages,
         NEW u \in WriteContinuation(Owed(v, m), m)
  PROVE  Sound(u, 0)
<1> DEFINE r == Owed(v, m)
<1>1. Sound(r, StillOwed(v, m)) /\ Alike(v, r)
  BY OwedOutcome
<1>2. PICK x \in FlushDue(r) : u \in IF x.threw THEN {x} ELSE Accepted(x, m)
  BY Zenon DEF WriteContinuation, Then
<1> HIDE DEF r
<1>3. ~r.threw /\ Writable(r) /\ r.cfg = v.cfg /\ StillOwed(v, m) \in Nat
  BY <1>1 DEF Alike, StillOwed
<1>4. /\ Sound(x, StillOwed(v, m)) /\ x.cfg = v.cfg
      /\ x.threw \/ Writable(x) \/ (x.cand = {} /\ x.status # "Waiting")
  BY <1>1, <1>2, <1>3, FlushDueOutcome
<1>5. Belongs(x, m) <=> Belongs(v, m)
  BY <1>4 DEF Belongs, Selected
<1>6. CASE x.threw
  <2>1. ~Writable(x)
    BY <1>4, <1>6 DEF Sound, Going, Writable
  <2> QED BY <1>2, <1>4, <1>6, <2>1, SoundOwing
<1>7. CASE ~x.threw /\ ~Belongs(x, m)
  <2>1. u = x /\ StillOwed(v, m) = 0
    BY <1>2, <1>5, <1>7 DEF Accepted, StillOwed
  <2> QED BY <1>4, <2>1
<1>8. CASE ~x.threw /\ (x.status = "TimedOut" \/ MissesTarget(x, m))
  <2>1. u = x /\ x.status # "Ready"
    BY <1>2, <1>8 DEF Accepted, MissesTarget
  <2> QED BY <1>4, <2>1, SoundOwing
<1>9. CASE ~x.threw /\ Belongs(x, m) /\ x.status # "TimedOut" /\ ~MissesTarget(x, m)
  <2>1. u \in Placed(x, m, IsIdr(x, m))
    BY <1>2, <1>9 DEF Accepted
  <2>2. Sound(x, 1)
    BY <1>4, <1>5, <1>9 DEF StillOwed
  <2>3. Taking(x)
    BY <1>4, <1>9, <2>2 DEF Taking
  <2>4. m.key \in BOOLEAN
    BY MessageFacts
  <2>5. IsIdr(x, m) \in BOOLEAN /\ Points(x, m, IsIdr(x, m))
    BY <2>4 DEF IsIdr, Points, Selected
  <2> QED BY <1>9, <2>1, <2>3, <2>5, PlacedOutcome
<1> QED BY <1>6, <1>7, <1>8, <1>9

(***************************************************************************)
(* The legacy policy.                                                      *)
(***************************************************************************)
LegacyGoing(v) ==
  /\ Typed(v) /\ Numbered(v) /\ OwnStart(v) /\ LegacyInv(v)
  /\ ~v.cfg.continuation /\ ~v.closed /\ (v.threw => ~v.open)

(* x is v cut, or v with room for a record.                                *)
Cut(v, m, x) ==
  /\ LegacyGoing(x) /\ x.cfg = v.cfg /\ x.ever = v.ever /\ x.hole = v.hole
  /\ Writable(x) => Roomy(x)
  /\ \/ x = v
     \/ Writable(x) => /\ x.primed = {} /\ x.max_video_ts = -1
                       /\ x.at_keyframe => StartsNewPair(v, m)

LEMMA LegacyCut ==
  ASSUME NEW v, LegacyGoing(v), ~v.threw, v.bytes > 0, NEW m, NEW flag \in BOOLEAN,
         flag => v.cfg.on_keyframe /\ StartsNewPair(v, m),
         NEW x \in Roll([v EXCEPT !.at_keyframe = flag])
  PROVE  Cut(v, m, x)
<1> DEFINE r == [v EXCEPT !.at_keyframe = flag]
<1>0. Typed(v) /\ Numbered(v) /\ OwnStart(v) /\ LegacyInv(v) /\ ~v.cfg.continuation /\ ~v.closed
  BY DEF LegacyGoing
<1>1. IsWriter(r) /\ r.at_keyframe = flag /\ Same(v, r, {"at_keyframe"})
  BY <1>0, Zenon DEF Typed, IsWriter, Same, Fields
<1>2. x \in Roll(r)
  OBVIOUS
<1> HIDE DEF r
<1>3. /\ r.cfg = v.cfg /\ r.staged = v.staged /\ r.bytes = v.bytes /\ r.status = v.status
      /\ r.starts = v.starts /\ r.meta = v.meta /\ r.cand = v.cand /\ r.primed = v.primed
      /\ r.ever = v.ever /\ r.part = v.part /\ r.kept = v.kept /\ r.taken = v.taken
      /\ r.closed_twice = v.closed_twice /\ r.after_end = v.after_end
      /\ r.attempts = v.attempts /\ r.skips = v.skips /\ r.open = v.open
      /\ r.closed = v.closed /\ r.file = v.file /\ r.ended = v.ended /\ r.refused = v.refused
      /\ r.hole = v.hole /\ r.threw = v.threw
  BY <1>1 DEF Same, Fields
<1>4. Numbered(r)
  BY <1>0, <1>3 DEF Numbered, storage_refused
<1>5. Typed(r)
  BY <1>0, <1>1, <1>3 DEF Typed
<1>6. ~DropsPart(r)
  BY <1>0, <1>3 DEF DropsPart, Typed
<1>7. Rolled(r, x)
  BY <1>0, <1>1, <1>2, <1>3, <1>4, <1>6, RollOutcome
<1>8. /\ x.cfg = v.cfg /\ x.ever = v.ever /\ x.hole = v.hole /\ x.at_keyframe = flag
      /\ x.status = v.status /\ x.staged = v.staged /\ x.closed = v.closed
  BY <1>1, <1>3, <1>7 DEF Rolled, Same, Fields, RollFields, OpenFields, NoteFields
<1>9. Typed(x)
  BY <1>5, <1>7, RolledTyped
<1>10. Ceiling(x) = Ceiling(v) /\ Ceiling(v) \in Nat /\ v.cfg.max_bytes \in Nat
       /\ v.cfg.max_bytes <= Ceiling(v) /\ MaxFrame \in Nat
  <2>1. MaxFrame \in Nat
    BY RecordsAssumption
  <2> QED BY <1>0, <1>8, <2>1, CeilingFacts DEF Ceiling
<1>11. CASE NewPart(r, x)
  <2>1. x.primed = {} /\ x.max_video_ts = -1 /\ x.bytes = 0 /\ x.starts = [c \in Cameras |-> NoFrame]
    BY <1>0, <1>3, <1>11 DEF NewPart, KeepsPrimed
  <2>2. OwnStart(x)
    BY <2>1 DEF OwnStart
  <2>3. LegacyInv(x)
    BY <1>0, <1>8, <1>10, <2>1 DEF LegacyInv
  <2> QED BY <1>0, <1>7, <1>8, <1>9, <1>10, <2>1, <2>2, <2>3 DEF Cut, LegacyGoing, Rolled, Roomy
<1>12. CASE ~x.open /\ x.starts = r.starts /\ x.meta = r.meta /\ (x.bytes = r.bytes \/ x.bytes = 0)
  <2>1. ~Writable(x)
    BY <1>12 DEF Writable
  <2>2. OwnStart(x)
    BY <1>0, <1>3, <1>8, <1>12 DEF OwnStart
  <2>3. LegacyInv(x)
    BY <1>0, <1>3, <1>8, <1>10, <1>12, <2>1 DEF LegacyInv
  <2> QED BY <1>0, <1>7, <1>8, <1>9, <2>1, <2>2, <2>3 DEF Cut, LegacyGoing, Rolled
<1> QED BY <1>7, <1>11, <1>12 DEF Rolled

LEMMA LegacyRollOutcome ==
  ASSUME NEW v, LegacyGoing(v), ~v.threw, NEW m, NEW x \in LegacyRoll(v, m)
  PROVE  Cut(v, m, x)
<1>0. /\ Ceiling(v) \in Nat /\ v.cfg.max_bytes \in Nat /\ v.cfg.max_bytes <= Ceiling(v)
      /\ v.bytes \in Nat /\ ~v.cfg.continuation
  BY CeilingFacts DEF LegacyGoing, Typed
<1>1. ShouldRoll(v) \/ HardCeiling(v) => v.bytes > 0
  BY <1>0 DEF ShouldRoll, HardCeiling, MustCut
<1>2. CASE x = v /\ Roomy(v)
  BY <1>2 DEF Cut
<1>3. CASE ~Rotating(v)
  <2>1. x = v /\ Roomy(v)
    BY <1>0, <1>3 DEF LegacyRoll, Rotating, Roomy
  <2> QED BY <1>2, <2>1
<1>4. CASE Rotating(v) /\ v.cfg.on_keyframe
  <2>1. CASE ShouldRoll(v) /\ StartsNewPair(v, m)
    <3>1. x \in Roll([v EXCEPT !.at_keyframe = TRUE])
      BY <1>0, <1>4, <2>1 DEF LegacyRoll
    <3> QED BY <1>1, <1>4, <2>1, <3>1, LegacyCut
  <2>2. CASE ~(ShouldRoll(v) /\ StartsNewPair(v, m)) /\ HardCeiling(v)
    <3>1. x \in Roll([v EXCEPT !.at_keyframe = FALSE])
      BY <1>0, <1>4, <2>2 DEF LegacyRoll
    <3> QED BY <1>1, <2>2, <3>1, LegacyCut
  <2>3. CASE ~(ShouldRoll(v) /\ StartsNewPair(v, m)) /\ ~HardCeiling(v)
    <3>1. x = v
      BY <1>0, <1>4, <2>3 DEF LegacyRoll
    <3>2. Roomy(v)
      BY <1>0, <2>3 DEF HardCeiling, Roomy
    <3> QED BY <1>2, <3>1, <3>2
  <2> QED BY <2>1, <2>2, <2>3
<1>5. CASE Rotating(v) /\ ~v.cfg.on_keyframe
  <2>1. CASE ShouldRoll(v)
    <3>1. x \in Roll([v EXCEPT !.at_keyframe = FALSE])
      BY <1>0, <1>5, <2>1 DEF LegacyRoll
    <3> QED BY <1>1, <2>1, <3>1, LegacyCut
  <2>2. CASE ~ShouldRoll(v)
    <3>1. x = v
      BY <1>0, <1>5, <2>2 DEF LegacyRoll
    <3>2. Roomy(v)
      BY <1>0, <2>2 DEF ShouldRoll, Roomy
    <3> QED BY <1>2, <3>1, <3>2
  <2> QED BY <2>1, <2>2
<1> QED BY <1>3, <1>4, <1>5

(* u is x after the record m, in the part that is open.                    *)
Warmed(x, m, u) ==
  /\ LegacyGoing(u) /\ u.cfg = x.cfg /\ u.at_keyframe = x.at_keyframe
  /\ \/ ~Writable(u) /\ u.hole = x.hole
     \/ /\ Same(x, u, {"hole"}) /\ IsVideo(m) /\ ~m.key /\ m.chan \notin x.primed
        /\ u.hole => x.hole \/ (m.chan \in x.ever /\ x.at_keyframe)
     \/ /\ u.hole = x.hole /\ u.ever \ u.primed \subseteq (x.ever \ x.primed) \ {m.chan}
        /\ u.max_video_ts = IF IsVideo(m) /\ m.stamp > x.max_video_ts THEN m.stamp
                            ELSE x.max_video_ts

LEMMA WarmedUpOutcome ==
  ASSUME NEW v, LegacyGoing(v), Writable(v), Roomy(v), ~v.threw, NEW m \in Messages,
         NEW u \in WarmedUp(v, m)
  PROVE  Warmed(v, m, u)
<1>0. /\ Typed(v) /\ Numbered(v) /\ OwnStart(v) /\ LegacyInv(v)
      /\ ~v.cfg.continuation /\ ~v.closed /\ ~v.threw
  BY DEF LegacyGoing
<1>1. ~v.refused /\ ~v.ended /\ v.open
  BY DEF Writable, storage_refused
<1>2. /\ m.key \in BOOLEAN /\ m.size \in Nat /\ m.size <= MaxFrame /\ MaxFrame \in Nat
  BY MessageFacts
<1>3. /\ v.cfg.max_bytes \in Nat /\ Ceiling(v) \in Nat /\ v.bytes \in Nat
      /\ v.cfg.max_bytes <= Ceiling(v)
  BY <1>0, CeilingFacts DEF Typed
(* An append keeps what LegacyGoing says, when every primed stream but the *)
(* record's own has begun, and that one is primed if it has.               *)
<1>4. ASSUME NEW x, IsWriter(x), Same(v, x, {"primed", "ever"}),
             x.primed \subseteq Cameras, x.ever \subseteq Cameras,
             x.primed \subseteq v.primed \cup {m.chan},
             x.ever \ x.primed \subseteq (v.ever \ v.primed) \ {m.chan},
             IsVideo(m) => m.chan \in x.primed /\ (m.key \/ m.chan \in v.primed),
             ~IsVideo(m) => x.primed = v.primed,
             u \in Appended(x, m)
      PROVE  Warmed(v, m, u)
  <2>1. /\ IsWriter(u) /\ u.after_end = (x.after_end \/ storage_refused(x))
        /\ \/ u.refused /\ Same(x, u, NoteFields \cup {"after_end"})
           \/ Wrote(x, m, u) /\ Same(x, u, WriteFields)
    BY <1>4, AppendedOutcome
  <2>2. Same(x, u, WriteFields)
    BY <2>1 DEF Same, WriteFields
  <2>3. Same(v, u, RecordFields)
    BY <1>4, <2>2 DEF Same, RecordFields
  <2>4. /\ x.after_end = v.after_end /\ x.refused = v.refused /\ x.ended = v.ended
        /\ x.bytes = v.bytes /\ x.starts = v.starts /\ x.hole = v.hole
        /\ x.status = v.status /\ x.cfg = v.cfg /\ x.max_video_ts = v.max_video_ts
    BY <1>4 DEF Same, Fields
  <2>5. /\ u.primed = x.primed /\ u.ever = x.ever /\ u.cfg = v.cfg /\ u.staged = v.staged
        /\ u.status = v.status /\ u.cand = v.cand /\ u.meta = v.meta /\ u.part = v.part
        /\ u.kept = v.kept /\ u.taken = v.taken /\ u.closed_twice = v.closed_twice
        /\ u.attempts = v.attempts /\ u.skips = v.skips /\ u.open = v.open
        /\ u.closed = v.closed /\ u.file = v.file /\ u.ended = v.ended
        /\ u.threw = v.threw /\ u.at_keyframe = v.at_keyframe /\ u.hole = x.hole
    BY <2>2, <2>3 DEF Same, Fields, RecordFields, WriteFields, NoteFields
  <2>6. ~u.after_end
    BY <1>0, <1>1, <2>1, <2>4 DEF storage_refused, Numbered
  <2>7. Numbered(u)
    BY <1>0, <1>1, <2>5, <2>6 DEF Numbered
  <2>8. u.at_keyframe => u.cfg.on_keyframe
    BY <1>0, <2>5 DEF LegacyInv
  <2>9. Ceiling(u) = Ceiling(v)
    BY <2>5 DEF Ceiling
  <2>10. CASE u.refused /\ Same(x, u, NoteFields \cup {"after_end"})
    <3>1. u.bytes = v.bytes /\ u.starts = v.starts
      BY <2>4, <2>10 DEF Same, Fields, NoteFields
    <3>2. ~Writable(u)
      BY <2>10 DEF Writable, storage_refused
    <3>3. Typed(u) /\ OwnStart(u)
      BY <1>0, <1>4, <2>1, <2>5, <3>1 DEF Typed, OwnStart
    <3>4. LegacyInv(u)
      BY <1>0, <1>3, <2>5, <2>8, <2>9, <3>1, <3>2 DEF LegacyInv
    <3> QED BY <1>0, <2>4, <2>5, <2>7, <3>2, <3>3, <3>4 DEF Warmed, LegacyGoing
  <2>11. CASE Wrote(x, m, u)
    <3>1. /\ u.bytes = v.bytes + m.size
          /\ u.max_video_ts = IF IsVideo(m) /\ m.stamp > v.max_video_ts THEN m.stamp
                              ELSE v.max_video_ts
          /\ u.starts = IF IsVideo(m) /\ v.starts[m.chan] = NoFrame
                        THEN [v.starts EXCEPT ![m.chan] = [key |-> m.key, point |-> m.point]]
                        ELSE v.starts
      BY <1>0, <2>4, <2>11 DEF Wrote
    <3>2. DOMAIN v.starts = Cameras /\ DOMAIN u.starts = Cameras
      BY <1>0, <3>1 DEF Typed
    <3>3. Typed(u)
      BY <1>0, <1>2, <1>4, <2>1, <2>5, <3>1, <3>2 DEF Typed
    <3>4. \A c \in Cameras : c # m.chan => u.starts[c] = v.starts[c]
      BY <3>1, <3>2
    <3>5. Writable(v) => \A c \in v.primed : v.starts[c] # NoFrame
      BY <1>0 DEF LegacyInv
    <3>6. IsVideo(m) => m.chan \in Cameras
      BY DEF IsVideo
    <3>7. IsVideo(m) /\ v.starts[m.chan] = NoFrame => m.key = TRUE
      BY <1>1, <1>2, <1>4, <3>5
    <3>8. IsVideo(m) => u.starts[m.chan] # NoFrame
      BY <3>1, <3>2, <3>6, <3>7 DEF NoFrame
    <3>9. \A c \in u.primed : u.starts[c] # NoFrame
      <4> SUFFICES ASSUME NEW c \in x.primed PROVE u.starts[c] # NoFrame
        BY <2>5
      <4>1. c \in Cameras
        BY <1>4
      <4>2. CASE c = m.chan
        BY <3>8, <4>1, <4>2 DEF IsVideo
      <4>3. CASE c # m.chan
        <5>1. c \in v.primed
          BY <1>4, <4>3
        <5> QED BY <3>4, <3>5, <4>1, <4>3, <5>1
      <4> QED BY <4>2, <4>3
    <3>10. OwnStart(u)
      <4> SUFFICES ASSUME NEW c \in Cameras, u.starts[c] # NoFrame PROVE u.starts[c].key
        BY <1>0, <2>5 DEF OwnStart
      <4>1. CASE u.starts[c] = v.starts[c]
        BY <1>0, <4>1 DEF OwnStart
      <4>2. CASE u.starts[c] # v.starts[c]
        BY <3>1, <3>2, <3>4, <3>7, <4>2
      <4> QED BY <4>1, <4>2
    <3>11. u.cfg.max_bytes > 0 => u.bytes < Ceiling(u) + MaxFrame
      <4>1. v.cfg.max_bytes > 0 => v.bytes < Ceiling(v)
        BY DEF Roomy
      <4>2. v.cfg.max_bytes > 0 => v.bytes + m.size < Ceiling(v) + MaxFrame
        BY <1>2, <1>3, <4>1, OneMore, Zenon
      <4> QED BY <2>5, <2>9, <3>1, <4>2
    <3>12. LegacyInv(u)
      BY <1>0, <2>5, <2>8, <3>9, <3>11 DEF LegacyInv
    <3> QED BY <1>0, <1>4, <2>4, <2>5, <2>7, <3>1, <3>3, <3>10, <3>12 DEF Warmed, LegacyGoing
  <2> QED BY <2>1, <2>10, <2>11
<1>5. CASE ~Gated(v, m)
  <2>1. u \in Appended(v, m)
    BY <1>5 DEF WarmedUp
  <2>2. IsVideo(m) => m.chan \in v.primed
    BY <1>0, <1>5 DEF Gated
  <2>3. v.ever \ v.primed \subseteq (v.ever \ v.primed) \ {m.chan}
    BY <1>0, <2>2 DEF IsVideo, Typed
  <2> QED BY <1>0, <1>4, <2>1, <2>2, <2>3 DEF Same, Typed
<1>6. CASE Gated(v, m) /\ ~m.key
  <2>1. u = [v EXCEPT !.hole = @ \/ (m.chan \in v.ever /\ v.at_keyframe)]
    BY <1>6 DEF WarmedUp
  <2>2. IsWriter(u) /\ u.hole = (v.hole \/ (m.chan \in v.ever /\ v.at_keyframe)) /\ Same(v, u, {"hole"})
    BY <1>0, <2>1, Zenon DEF IsWriter, Same, Fields, Typed
  <2>3. /\ u.primed = v.primed /\ u.ever = v.ever /\ u.cfg = v.cfg /\ u.staged = v.staged
        /\ u.status = v.status /\ u.cand = v.cand /\ u.meta = v.meta /\ u.part = v.part
        /\ u.kept = v.kept /\ u.taken = v.taken /\ u.closed_twice = v.closed_twice
        /\ u.attempts = v.attempts /\ u.skips = v.skips /\ u.open = v.open
        /\ u.closed = v.closed /\ u.file = v.file /\ u.ended = v.ended
        /\ u.threw = v.threw /\ u.at_keyframe = v.at_keyframe
        /\ u.after_end = v.after_end /\ u.refused = v.refused /\ u.bytes = v.bytes
        /\ u.starts = v.starts
    BY <2>2 DEF Same, Fields
  <2>4. Numbered(u)
    BY <1>0, <2>3 DEF Numbered, storage_refused
  <2>5. LegacyInv(u)
    BY <1>0, <2>3 DEF LegacyInv, Writable, storage_refused, Ceiling
  <2>6. Typed(u) /\ OwnStart(u)
    BY <1>0, <2>2, <2>3 DEF Typed, OwnStart
  <2> QED BY <1>0, <1>6, <2>2, <2>3, <2>4, <2>5, <2>6 DEF Warmed, LegacyGoing, Gated
<1>7. CASE Gated(v, m) /\ m.key
  <2> DEFINE x == [v EXCEPT !.primed = @ \cup {m.chan}, !.ever = @ \cup {m.chan}]
  <2>1. u \in Appended(x, m)
    BY <1>7 DEF WarmedUp
  <2>2. /\ IsWriter(x) /\ x.primed = v.primed \cup {m.chan} /\ x.ever = v.ever \cup {m.chan}
        /\ Same(v, x, {"primed", "ever"})
    BY <1>0, Zenon DEF IsWriter, Same, Fields, Typed
  <2> HIDE DEF x
  <2>3. m.chan \in Cameras
    BY <1>7 DEF Gated, IsVideo
  <2> QED BY <1>0, <1>4, <1>7, <2>1, <2>2, <2>3 DEF Typed, Gated
<1> QED BY <1>2, <1>5, <1>6, <1>7

(* What WriteRecord makes of m under the legacy policy.                    *)
LegacyTook(v, m, u) ==
  /\ LegacyGoing(u) /\ u.cfg = v.cfg
  /\ \E x : /\ Cut(v, m, x)
            /\ \/ ~Writable(u) /\ u.hole = v.hole
               \/ Writable(x) /\ Warmed(x, m, u)

LEMMA LegacyOutcome ==
  ASSUME NEW v, LegacyGoing(v), ~v.threw, Writable(v), NEW m \in Messages,
         NEW u \in WriteRecord(v, m)
  PROVE  LegacyTook(v, m, u)
<1>1. PICK x \in LegacyRoll(v, m) :
        u \in IF x.threw THEN {x} ELSE IF ~x.open \/ x.refused THEN {x} ELSE WarmedUp(x, m)
  BY DEF WriteRecord, Then
<1>2. Cut(v, m, x)
  BY <1>1, LegacyRollOutcome
<1>3. CASE u = x /\ (x.threw \/ ~x.open \/ x.refused)
  BY <1>2, <1>3 DEF LegacyTook, Cut, LegacyGoing, Writable, storage_refused
<1>4. CASE u \in WarmedUp(x, m) /\ ~x.threw /\ x.open /\ ~x.refused
  <2>1. Writable(x)
    BY <1>2, <1>4 DEF Writable, storage_refused, Cut, LegacyGoing, Numbered
  <2>2. Warmed(x, m, u)
    BY <1>2, <1>4, <2>1, WarmedUpOutcome DEF Cut
  <2> QED BY <1>2, <2>1, <2>2 DEF LegacyTook, Warmed, Cut
<1> QED BY <1>1, <1>3, <1>4

(***************************************************************************)
(* The calls.                                                              *)
(***************************************************************************)
LEMMA InvSame ==
  ASSUME NEW v, WriterInv(v), NEW u, IsWriter(u), Same(v, u, {"threw", "age", "late"})
  PROVE  WriterInv(u) /\ \A g : GridFits(v, g) => GridFits(u, g)
<1>1. /\ u.cfg = v.cfg /\ u.bytes = v.bytes /\ u.meta = v.meta /\ u.starts = v.starts
      /\ u.primed = v.primed /\ u.staged = v.staged /\ u.status = v.status
      /\ u.cand = v.cand /\ u.point = v.point /\ u.owed = v.owed
      /\ u.ever = v.ever /\ u.part = v.part /\ u.kept = v.kept /\ u.taken = v.taken
      /\ u.closed_twice = v.closed_twice /\ u.after_end = v.after_end
      /\ u.attempts = v.attempts /\ u.skips = v.skips /\ u.open = v.open
      /\ u.closed = v.closed /\ u.file = v.file /\ u.ended = v.ended /\ u.refused = v.refused
      /\ u.overtook = v.overtook /\ u.hole = v.hole /\ u.at_keyframe = v.at_keyframe
      /\ u.max_video_ts = v.max_video_ts
  BY DEF Same, Fields
<1>2. Typed(u) /\ Numbered(u)
  BY <1>1 DEF WriterInv, Typed, Numbered, storage_refused
<1>3. OwnStart(u) /\ Writable(u) = Writable(v) /\ Ceiling(u) = Ceiling(v)
  BY <1>1 DEF WriterInv, OwnStart, Writable, storage_refused, Ceiling
<1>4. StagedBytes(u) = StagedBytes(v)
  BY <1>1 DEF StagedBytes
<1>5. ContinuationInv(v) => ContinuationInv(u)
  <2>1. StageSound(v) => StageSound(u)
    BY <1>1, <1>4 DEF StageSound, Belongs, Selected
  <2>2. StartSound(v, 0) => StartSound(u, 0)
    BY <1>1, <1>3 DEF StartSound, Started
  <2> QED BY <1>1, <1>3, <2>1, <2>2 DEF ContinuationInv, Bounded, storage_refused
<1>6. LegacyInv(v) => LegacyInv(u)
  BY <1>1, <1>3 DEF LegacyInv
<1>7. \A g : GridFits(v, g) => GridFits(u, g)
  BY <1>1, <1>3 DEF GridFits
<1> QED BY <1>1, <1>2, <1>3, <1>5, <1>6, <1>7 DEF WriterInv

LEMMA SoundInv ==
  ASSUME NEW v, Sound(v, 0) PROVE WriterInv(v) /\ ~v.hole /\ v.cfg.continuation
<1>1. Going(v) /\ OwnStart(v) /\ Bounded(v) /\ Typed(v) /\ Numbered(v)
  BY DEF Sound, Going
<1> QED BY <1>1 DEF Sound, Going, WriterInv, ContinuationInv

LEMMA InvSound ==
  ASSUME NEW v, WriterInv(v), ~v.closed, ~v.threw
  PROVE  IF v.cfg.continuation THEN Sound(v, 0) ELSE LegacyGoing(v)
BY DEF WriterInv, ContinuationInv, Sound, Going, LegacyGoing

LEMMA OutcomesInv ==
  ASSUME NEW v, WriterInv(v), v.threw => v.closed, NEW m \in Messages,
         NEW u \in Outcomes(v, m)
  PROVE  WriterInv(u)
<1>1. CASE ~Writable(v)
  BY <1>1 DEF Outcomes
<1>2. CASE Writable(v) /\ v.cfg.continuation
  <2>1. Sound(v, 0) /\ ~v.threw
    BY <1>2, InvSound DEF Writable
  <2>2. Sound(u, 0)
    BY <1>2, <2>1, ContinuationOutcome DEF Outcomes
  <2> QED BY <2>2, SoundInv
<1>3. CASE Writable(v) /\ ~v.cfg.continuation
  <2>1. LegacyGoing(v) /\ ~v.threw
    BY <1>3, InvSound DEF Writable
  <2>2. LegacyGoing(u)
    BY <1>3, <2>1, LegacyOutcome DEF Outcomes, LegacyTook
  <2> QED BY <2>2 DEF LegacyGoing, WriterInv
<1> QED BY <1>1, <1>2, <1>3

(* A policy that never cuts at a keyframe leaves no hole.                  *)
LEMMA FrameGrid ==
  ASSUME NEW v, WriterInv(v), v.threw => v.closed, NEW g, GridFits(v, g),
         v.cfg.continuation \/ ~v.cfg.on_keyframe, NEW m \in Messages,
         NEW u \in Outcomes(v, m)
  PROVE  ~u.hole /\ (u.cfg.continuation \/ ~u.cfg.on_keyframe \/ u = v)
<1>1. CASE ~Writable(v)
  BY <1>1 DEF Outcomes, GridFits
<1>2. CASE Writable(v) /\ v.cfg.continuation
  <2>1. Sound(v, 0) /\ ~v.threw
    BY <1>2, InvSound DEF Writable
  <2>2. Sound(u, 0)
    BY <1>2, <2>1, ContinuationOutcome DEF Outcomes
  <2> QED BY <2>2, SoundInv
<1>3. CASE Writable(v) /\ ~v.cfg.continuation
  <2>1. LegacyGoing(v) /\ ~v.threw
    BY <1>3, InvSound DEF Writable
  <2>2. LegacyTook(v, m, u)
    BY <1>3, <2>1, LegacyOutcome DEF Outcomes
  <2>3. ~v.hole
    BY DEF GridFits
  <2>4. PICK x : Cut(v, m, x) /\ (\/ ~Writable(u) /\ u.hole = v.hole
                                  \/ Writable(x) /\ Warmed(x, m, u))
    BY <2>2 DEF LegacyTook
  <2>5. ~x.at_keyframe /\ ~x.hole
    BY <1>3, <2>3, <2>4 DEF Cut, LegacyGoing, LegacyInv
  <2> QED BY <1>3, <2>2, <2>3, <2>4, <2>5 DEF LegacyTook, Warmed
<1> QED BY <1>1, <1>2, <1>3

(* The next frame of a tick, by a camera that has not sent its own yet.    *)
LEMMA CoPhasedGrid ==
  ASSUME NEW v, WriterInv(v), ~v.threw, NEW g, GridFits(v, g), Writable(v),
         ~v.cfg.continuation, v.cfg.on_keyframe,
         NEW c \in g.left, NEW skew \in Skews, NEW m \in Messages,
         m.chan = c, m.key = g.key, m.stamp = 2 * g.tick + skew,
         NEW u \in Outcomes(v, m), NEW h,
         h \in [tick : Nat, key : BOOLEAN, left : SUBSET Cameras],
         IF g.left \ {c} # {} THEN h = [g EXCEPT !.left = g.left \ {c}]
         ELSE h.left = Cameras
  PROVE  GridFits(u, h)
<1>1. /\ ~v.hole /\ g \in [tick : Nat, key : BOOLEAN, left : SUBSET Cameras]
      /\ v.max_video_ts \in Int
      /\ v.at_keyframe => \A d \in v.ever \ v.primed : g.key /\ d \in g.left
      /\ g.key /\ g.left # Cameras => \E s \in Skews : v.max_video_ts >= 2 * g.tick + s
  BY DEF GridFits
<1>2. LegacyGoing(v) /\ u \in WriteRecord(v, m)
  BY InvSound DEF Writable, Outcomes
<1>3. v.ever \subseteq Cameras /\ c \in Cameras /\ IsVideo(m)
  BY <1>1, <1>2 DEF LegacyGoing, Typed, IsVideo
<1>4. /\ g.tick \in Nat /\ skew \in Nat /\ Skews \subseteq Nat /\ v.cfg.guard \in Nat
      /\ \A s, t \in Skews : s - t <= v.cfg.guard
  BY <1>1, <1>2, RecordsAssumption, ConfigsAssumption DEF LegacyGoing, Typed
<1>5. PICK x : Cut(v, m, x) /\ (\/ ~Writable(u) /\ u.hole = v.hole
                                \/ Writable(x) /\ Warmed(x, m, u))
  BY <1>2, LegacyOutcome DEF LegacyTook
<1>6. x.cfg = v.cfg /\ x.ever = v.ever /\ x.hole = v.hole
  BY <1>5 DEF Cut
<1>7. CASE ~Writable(u) /\ u.hole = v.hole
  BY <1>1, <1>7 DEF GridFits
<1>8. CASE Writable(x) /\ Warmed(x, m, u)
  <2>1. x.max_video_ts \in Int
    BY <1>1, <1>5, <1>8 DEF Cut
  (* A cut at a keyframe begins with the first frame of a tick.            *)
  <2>2. ASSUME x.at_keyframe, NEW d \in x.ever \ x.primed
        PROVE  g.key /\ d \in g.left
    <3>1. CASE x = v
      BY <1>1, <2>2, <3>1
    <3>2. CASE x # v
      <4>1. StartsNewPair(v, m)
        BY <1>5, <1>8, <2>2, <3>2 DEF Cut
      <4>2. g.key /\ (m.stamp > v.max_video_ts + v.cfg.guard \/ v.max_video_ts = -1)
        BY <4>1 DEF StartsNewPair
      <4>3. ASSUME NEW s \in Skews PROVE ~(v.max_video_ts >= 2 * g.tick + s)
        <5>1. s \in Nat /\ skew - s <= v.cfg.guard
          BY <1>4
        <5> QED BY <1>1, <1>4, <4>2, <5>1
      <4>4. g.left = Cameras
        BY <1>1, <4>2, <4>3
      <4> QED BY <1>3, <1>6, <2>2, <4>2, <4>4
    <3> QED BY <3>1, <3>2
  <2>3. ~u.hole
    BY <1>1, <1>6, <1>8, <2>2 DEF Warmed
  <2>4. ASSUME Writable(u), u.at_keyframe, NEW d \in u.ever \ u.primed
        PROVE  g.key /\ d \in g.left \ {c}
    <3>1. x.at_keyframe /\ (u.ever \ u.primed \subseteq (x.ever \ x.primed) \ {c}
                              \/ (~m.key /\ u.ever = x.ever /\ u.primed = x.primed))
      BY <1>8, <2>4 DEF Warmed, Same, Fields
    <3> QED BY <2>2, <2>4, <3>1
  <2>5. ASSUME g.key, Writable(u)
        PROVE  u.max_video_ts \in Int /\ u.max_video_ts >= 2 * g.tick + skew
    <3>1. u.max_video_ts = IF m.stamp > x.max_video_ts THEN m.stamp ELSE x.max_video_ts
      BY <1>3, <1>8, <2>5 DEF Warmed
    <3> QED BY <1>4, <2>1, <3>1
  <2>6. Writable(u) => u.max_video_ts \in Int
    <3>1. Writable(u) => \/ u.max_video_ts = x.max_video_ts
                         \/ u.max_video_ts = m.stamp
      BY <1>8 DEF Warmed, Same, Fields
    <3> QED BY <1>4, <2>1, <3>1
  <2>7. CASE g.left \ {c} = {}
    BY <2>3, <2>4, <2>6, <2>7 DEF GridFits
  <2>8. CASE g.left \ {c} # {}
    <3>1. h.left = g.left \ {c} /\ h.key = g.key /\ h.tick = g.tick
      BY <1>1, <2>8
    <3> QED BY <2>3, <2>4, <2>5, <2>6, <3>1 DEF GridFits
  <2> QED BY <2>7, <2>8
<1> QED BY <1>5, <1>7, <1>8

LEMMA NewWriter ==
  ASSUME NEW cfg \in Configs
  PROVE  /\ Openable(New(cfg))
         /\ LET v == New(cfg)
            IN  /\ v.cfg = cfg /\ v.staged = <<>> /\ v.cand = {} /\ v.primed = {} /\ v.ever = {}
                /\ v.status = (IF cfg.continuation /\ cfg.selected # {} THEN "Waiting" ELSE "Ready")
                /\ v.owed = 0 /\ ~v.closed /\ ~v.overtook /\ ~v.hole /\ ~v.at_keyframe
                /\ ~v.refused /\ v.kept = {}
<1> DEFINE v == New(cfg)
<1>1. IsWriter(v)
  BY DEF New, IsWriter, Fields
<1>2. /\ v.cfg = cfg /\ v.staged = <<>> /\ v.cand = {} /\ v.primed = {} /\ v.ever = {}
      /\ v.status = (IF cfg.continuation /\ cfg.selected # {} THEN "Waiting" ELSE "Ready")
      /\ v.owed = 0 /\ ~v.closed /\ ~v.overtook /\ ~v.hole /\ ~v.at_keyframe
      /\ ~v.refused /\ v.kept = {}
  BY DEF New
<1>3. /\ v.part = 0 /\ v.kept = {} /\ v.taken = {} /\ ~v.closed_twice /\ ~v.after_end
      /\ ~v.open /\ ~v.refused /\ ~v.ended /\ ~v.threw /\ v.attempts = 0 /\ v.skips = 0
  BY DEF New
<1> HIDE DEF v
<1>4. Openable(v)
  BY <1>1, <1>3 DEF Openable, Opening
<1> QED BY <1>2, <1>4 DEF v

LEMMA InitInv ==
  ASSUME FileInit, KeyframesFit PROVE FileInv
<1>1. PICK cfg \in Configs : \E v \in OpenPart(New(cfg)) : ~v.threw /\ w = v
  BY DEF FileInit
<1> DEFINE v == New(cfg)
<1>2. w \in OpenPart(v) /\ ~w.threw
  BY <1>1
<1>3. /\ Openable(v)
      /\ v.cfg = cfg /\ v.staged = <<>> /\ v.cand = {} /\ v.primed = {} /\ v.ever = {}
      /\ v.status = (IF cfg.continuation /\ cfg.selected # {} THEN "Waiting" ELSE "Ready")
      /\ v.owed = 0 /\ ~v.closed /\ ~v.overtook /\ ~v.hole /\ ~v.at_keyframe
      /\ ~v.refused /\ v.kept = {}
  BY NewWriter
<1> HIDE DEF v
<1>4. Along(v, w) /\ NewPart(v, w)
  BY <1>2, <1>3, OpenPartOutcome DEF NoPartOpened
<1>5. /\ IsWriter(w) /\ w.cfg = cfg /\ w.staged = <<>> /\ w.cand = {} /\ w.primed = {} /\ w.ever = {}
      /\ w.status = (IF cfg.continuation /\ cfg.selected # {} THEN "Waiting" ELSE "Ready")
      /\ w.owed = 0 /\ ~w.closed /\ ~w.overtook /\ ~w.hole /\ ~w.at_keyframe
      /\ w.open /\ ~w.ended /\ w.attempts = 0 /\ w.skips = 0 /\ w.file = w.part /\ w.bytes = 0
      /\ w.max_video_ts = -1 /\ w.starts = [c \in Cameras |-> NoFrame]
      /\ w.meta = [reason |-> v.reason, point |-> v.point]
  BY <1>3, <1>4 DEF Along, NewPart, KeepsPrimed, Same, Fields, OpenFields, NoteFields
<1>6. /\ w.part \in Nat /\ w.kept \cap w.taken = {} /\ w.kept \cup w.taken = 0 .. w.part - 1
      /\ ~w.closed_twice /\ ~w.after_end
  BY <1>4 DEF Along, Opening
<1>7. 0 .. w.part - 1 \subseteq 0 .. w.part /\ w.part \notin 0 .. w.part - 1
  BY <1>6
<1>8. Numbered(w)
  BY <1>5, <1>6, <1>7 DEF Numbered
<1>9. Typed(w) /\ OwnStart(w)
  BY <1>5 DEF Typed, OwnStart, KeyframesFit
<1>10. /\ Ceiling(w) \in Nat /\ w.cfg.max_bytes \in Nat /\ w.cfg.max_bytes <= Ceiling(w)
       /\ MaxFrame \in Nat /\ w.cfg.max_staged \in Nat
  BY <1>9, CeilingFacts, RecordsAssumption DEF Typed
<1>11. w.cfg.continuation => ContinuationInv(w)
  <2>1. StagedBytes(w) = 0
    BY <1>5, NothingStaged
  <2>2. StageSound(w)
    BY <1>5, <1>10, <2>1 DEF StageSound
  <2>3. w.cfg.continuation => StartSound(w, 0)
    <3>1. w.status = "Ready" /\ w.cfg.continuation => w.cfg.selected = {}
      BY <1>5
    <3> QED BY <1>5, <3>1 DEF StartSound, Started
  <2> QED BY <1>5, <1>10, <2>2, <2>3 DEF ContinuationInv, Bounded
<1>12. ~w.cfg.continuation => LegacyInv(w)
  BY <1>5, <1>10 DEF LegacyInv
<1>13. GridFits(w, grid)
  BY <1>5 DEF GridFits, FileInit
<1> QED BY <1>2, <1>8, <1>9, <1>11, <1>12, <1>13 DEF FileInv, WriterInv

(* Close ends a writer that is not refused only when all it owed is kept.  *)
LEMMA FinishedOutcome ==
  ASSUME NEW v, Typed(v), Numbered(v), OwnStart(v), ~v.closed, NEW u \in Finished(v)
  PROVE  /\ Typed(u) /\ Numbered(u) /\ OwnStart(u) /\ u.closed
         /\ Same(v, u, CloseFields \cup {"closed"}) /\ (v.refused => u.refused)
<1> DEFINE r == [v EXCEPT !.closed = TRUE]
<1>1. IsWriter(r) /\ r.closed = TRUE /\ Same(v, r, {"closed"})
  BY Zenon DEF Typed, IsWriter, Same, Fields
<1>2. u \in IF r.open THEN CloseCurrentPart(r) ELSE {r}
  BY DEF Finished
<1> HIDE DEF r
<1>3. /\ r.cfg = v.cfg /\ r.staged = v.staged /\ r.bytes = v.bytes /\ r.status = v.status
      /\ r.starts = v.starts /\ r.meta = v.meta /\ r.cand = v.cand /\ r.primed = v.primed
      /\ r.ever = v.ever /\ r.part = v.part /\ r.kept = v.kept /\ r.taken = v.taken
      /\ r.closed_twice = v.closed_twice /\ r.after_end = v.after_end
      /\ r.attempts = v.attempts /\ r.skips = v.skips /\ r.open = v.open
      /\ r.file = v.file /\ r.ended = v.ended /\ r.refused = v.refused
  BY <1>1 DEF Same, Fields
<1>4. CASE ~v.open
  <2>1. u = r
    BY <1>2, <1>3, <1>4
  <2>2. Typed(r) /\ Numbered(r) /\ OwnStart(r)
    BY <1>1, <1>3, <1>4 DEF Typed, Numbered, OwnStart, storage_refused
  <2> QED BY <1>1, <1>3, <2>1, <2>2 DEF Same
<1>5. CASE v.open
  <2>1. Current(v)
    BY <1>5, CurrentPart
  <2>2. Current(r)
    BY <1>3, <2>1 DEF Current, Opening
  <2>3. u \in CloseCurrentPart(r)
    BY <1>2, <1>3, <1>5
  <2>4. /\ IsWriter(u) /\ Same(r, u, CloseFields) /\ (r.refused => u.refused)
        /\ ~u.closed_twice /\ u.kept \cap u.taken = {}
        /\ 0 .. u.part - 1 \subseteq u.kept \cup u.taken
        /\ u.kept \cup u.taken \subseteq 0 .. u.part
    BY <1>1, <2>2, <2>3, ClosedOutcome
  <2>5. /\ u.cfg = r.cfg /\ u.staged = r.staged /\ u.bytes = r.bytes /\ u.status = r.status
        /\ u.starts = r.starts /\ u.meta = r.meta /\ u.cand = r.cand /\ u.primed = r.primed
        /\ u.ever = r.ever /\ u.part = r.part /\ u.after_end = r.after_end
        /\ u.attempts = r.attempts /\ u.skips = r.skips /\ u.open = r.open
        /\ u.ended = r.ended /\ u.closed = r.closed
    BY <2>4 DEF Same, Fields, CloseFields, NoteFields
  <2>6. Typed(u) /\ OwnStart(u)
    BY <1>3, <2>4, <2>5 DEF Typed, OwnStart
  <2>7. Numbered(u)
    BY <1>1, <1>3, <1>5, <2>4, <2>5 DEF Numbered, storage_refused
  <2>8. Same(v, u, CloseFields \cup {"closed"})
    BY <1>1, <2>4 DEF Same
  <2> QED BY <1>1, <1>3, <2>4, <2>5, <2>6, <2>7, <2>8
<1> QED BY <1>4, <1>5

LEMMA CloseInv ==
  ASSUME FileInv, CloseFile PROVE FileInv'
<1>0. WriterInv(w) /\ (w.threw => w.closed) /\ GridFits(w, grid) /\ grid' = grid /\ ~w.closed
  BY DEF FileInv, CloseFile
<1>1. PICK v \in (IF w.status = "Ready" THEN FlushStaged(w, FALSE, FALSE) ELSE {Unstaged(w)}) :
        w' \in IF v.threw THEN {v} ELSE Finished(v)
  BY DEF CloseFile, Then
<1>2. IF w.cfg.continuation THEN Sound(w, 0) ELSE LegacyGoing(w)
  BY <1>0, InvSound
<1>3. CASE w.cfg.continuation
  <2>1. Going(w) /\ OwnStart(w) /\ Bounded(w) /\ ~w.threw
    BY <1>0, <1>2, <1>3 DEF Sound
  <2>2. /\ Going(v) /\ OwnStart(v) /\ Bounded(v) /\ ~v.threw /\ v.staged = <<>>
        /\ v.status = "Ready" /\ ~storage_refused(v) => v.owed = 0
    <3>1. CASE w.status = "Ready"
      <4>1. v \in FlushStaged(w, FALSE, FALSE) /\ FALSE \in BOOLEAN /\ 0 \in Nat
        BY <1>1, <3>1
      <4>2. w.status # "Waiting"
        BY <3>1
      <4>3. Sound(v, 0) /\ ~v.threw /\ v.staged = <<>>
        BY <1>2, <1>3, <2>1, <4>1, <4>2, FlushOutcome
      <4>4. Going(v) /\ OwnStart(v) /\ Bounded(v)
        BY <4>3 DEF Sound
      <4>5. ASSUME v.status = "Ready", ~storage_refused(v) PROVE v.owed = 0
        <5>1. Writable(v)
          BY <4>4, <4>5 DEF Going, Numbered, Writable
        <5>2. v.owed = Len(v.staged) + 0
          BY <4>3, <4>5, <5>1 DEF Sound, StartSound
        <5> QED BY <4>3, <5>2
      <4> QED BY <4>3, <4>4, <4>5
    <3>2. CASE w.status # "Ready"
      <4>1. v = [w EXCEPT !.staged = <<>>, !.cand = {}, !.owed = 0]
        BY <1>1, <3>2 DEF Unstaged
      <4>2. IsWriter(v) /\ v.staged = <<>> /\ v.cand = {} /\ v.owed = 0
            /\ Same(w, v, {"staged", "cand", "owed"})
        BY <2>1, <4>1, Zenon DEF Going, Typed, IsWriter, Same, Fields
      <4>3. v.status = w.status /\ v.overtook = w.overtook /\ v.threw = w.threw
        BY <4>2 DEF Same, Fields
      <4>4. Same(w, v, LooseFields)
        BY <4>2 DEF Same, LooseFields
      <4>5. v.status \in {"Waiting", "Ready", "TimedOut"} /\ ~v.overtook /\ v.staged \in Seq(Messages)
        BY <2>1, <4>2, <4>3 DEF Going, Typed
      <4>6. Going(v) /\ OwnStart(v) /\ Bounded(v)
        BY <2>1, <4>2, <4>4, <4>5, LooseGoing
      <4> QED BY <2>1, <4>2, <4>3, <4>6
    <3> QED BY <3>1, <3>2
  <2>3. w' \in Finished(v) /\ Typed(v) /\ Numbered(v) /\ ~v.closed
    BY <1>1, <2>2 DEF Going
  <2>4. /\ Typed(w') /\ Numbered(w') /\ OwnStart(w') /\ w'.closed
        /\ Same(v, w', CloseFields \cup {"closed"}) /\ (v.refused => w'.refused)
    BY <2>2, <2>3, FinishedOutcome
  <2>5. /\ w'.cfg = v.cfg /\ w'.staged = v.staged /\ w'.bytes = v.bytes /\ w'.status = v.status
        /\ w'.owed = v.owed /\ w'.overtook = v.overtook /\ w'.hole = v.hole
        /\ w'.at_keyframe = v.at_keyframe /\ w'.ended = v.ended
    BY <2>4 DEF Same, Fields, CloseFields, NoteFields
  <2>6. ContinuationInv(w')
    <3>1. ~Writable(w')
      BY <2>4 DEF Writable
    <3>2. Bounded(w')
      BY <2>2, <2>5 DEF Bounded, Ceiling
    <3>3. ~w'.overtook /\ ~w'.hole /\ ~w'.at_keyframe
      BY <2>2, <2>5 DEF Going
    <3>4. w'.status = "Ready" /\ ~storage_refused(w') => w'.staged = <<>> /\ w'.owed = 0
      BY <2>2, <2>4, <2>5 DEF storage_refused
    <3> QED BY <2>2, <2>5, <3>1, <3>2, <3>3, <3>4 DEF ContinuationInv
  <2>7. WriterInv(w')
    BY <2>2, <2>4, <2>5, <2>6 DEF WriterInv, Going
  <2>8. GridFits(w', grid)
    BY <1>0, <2>4, <2>6 DEF GridFits, ContinuationInv, Writable
  <2> QED BY <1>0, <2>4, <2>7, <2>8 DEF FileInv, WriterInv, GridFits
<1>4. CASE ~w.cfg.continuation
  <2>1. /\ Typed(w) /\ Numbered(w) /\ OwnStart(w) /\ LegacyInv(w) /\ ~w.threw
    BY <1>0, <1>2, <1>4 DEF LegacyGoing
  <2>2. v = w
    BY <1>1, <2>1 DEF LegacyInv, FlushStaged
  <2>3. /\ Typed(w') /\ Numbered(w') /\ OwnStart(w') /\ w'.closed
        /\ Same(w, w', CloseFields \cup {"closed"})
    BY <1>0, <1>1, <2>1, <2>2, FinishedOutcome
  <2>4. /\ w'.cfg = w.cfg /\ w'.staged = w.staged /\ w'.bytes = w.bytes /\ w'.status = w.status
        /\ w'.hole = w.hole /\ w'.at_keyframe = w.at_keyframe
    BY <2>3 DEF Same, Fields, CloseFields, NoteFields
  <2>5. LegacyInv(w')
    BY <2>1, <2>3, <2>4 DEF LegacyInv, Writable, Ceiling
  <2>6. WriterInv(w') /\ GridFits(w', grid)
    BY <1>0, <1>4, <2>3, <2>4, <2>5 DEF WriterInv, GridFits, Writable
  <2> QED BY <1>0, <2>3, <2>6 DEF FileInv, WriterInv, GridFits
<1> QED BY <1>3, <1>4

(* An outcome of a call, once its exception is caught.                     *)
LEMMA CaughtInv ==
  ASSUME NEW u, WriterInv(u), NEW z, z = [u EXCEPT !.threw = FALSE]
  PROVE  WriterInv(z) /\ ~z.threw /\ \A g : GridFits(u, g) => GridFits(z, g)
<1>1. IsWriter(z) /\ ~z.threw /\ Same(u, z, {"threw"})
  BY Zenon DEF WriterInv, Typed, IsWriter, Same, Fields
<1>2. Same(u, z, {"threw", "age", "late"})
  BY <1>1 DEF Same
<1> QED BY <1>1, <1>2, InvSame

LEMMA WriteFrameInv ==
  ASSUME FileInv, WriteFrame PROVE FileInv'
<1>0. /\ WriterInv(w) /\ (w.threw => w.closed) /\ GridFits(w, grid)
      /\ ~w.cfg.co_phased /\ grid' = grid /\ w.cfg \in Configs
  BY DEF FileInv, WriterInv, Typed, WriteFrame
<1>1. PICK m \in Frames : \E v \in Outcomes(w, m) : w' = [v EXCEPT !.threw = FALSE]
  BY DEF WriteFrame, Write
<1>2. PICK v \in Outcomes(w, m) : w' = [v EXCEPT !.threw = FALSE]
  BY <1>1
<1>3. m \in Messages
  BY DEF Messages
<1>4. w.cfg.continuation \/ ~w.cfg.on_keyframe
  BY <1>0, ConfigsAssumption
<1>5. WriterInv(v)
  BY <1>0, <1>3, OutcomesInv
<1>6. ~v.hole /\ (v.cfg.continuation \/ ~v.cfg.on_keyframe \/ v = w)
  BY <1>0, <1>3, <1>4, FrameGrid
<1>7. GridFits(v, grid)
  BY <1>0, <1>6 DEF GridFits
<1>8. WriterInv(w') /\ ~w'.threw /\ GridFits(w', grid)
  BY <1>2, <1>5, <1>7, CaughtInv
<1> QED BY <1>0, <1>8 DEF FileInv, WriterInv, GridFits

LEMMA WriteCoPhasedInv ==
  ASSUME FileInv, WriteCoPhased PROVE FileInv'
<1>0. /\ WriterInv(w) /\ (w.threw => w.closed) /\ GridFits(w, grid) /\ ~w.hole
      /\ grid \in [tick : Nat, key : BOOLEAN, left : SUBSET Cameras]
  BY DEF FileInv, GridFits
<1>1. PICK c \in grid.left, skew \in Skews :
        /\ Write(CoPhased(c, skew))
        /\ IF Writable(w) THEN NextGrid(grid.left \ {c}) ELSE UNCHANGED grid
  BY DEF WriteCoPhased
<1> DEFINE m == CoPhased(c, skew)
<1>2. /\ m.chan = c /\ m.key = grid.key /\ m.stamp = 2 * grid.tick + skew
      /\ m \in Messages
  <2>1. FrameSize[grid.key] \in 0 .. MaxFrame /\ skew \in Nat /\ c \in Cameras
    BY <1>0, RecordsAssumption
  <2>2. 2 * grid.tick + skew \in Nat
    BY <1>0, <2>1
  <2> QED BY <1>0, <2>1, <2>2 DEF CoPhased, Messages
<1>3. PICK v \in Outcomes(w, m) : w' = [v EXCEPT !.threw = FALSE]
  BY <1>1 DEF Write
<1> HIDE DEF m
<1>4. WriterInv(v)
  BY <1>0, <1>2, <1>3, OutcomesInv
<1>5. WriterInv(w') /\ ~w'.threw /\ \A g : GridFits(v, g) => GridFits(w', g)
  BY <1>3, <1>4, CaughtInv
<1>6. /\ grid' \in [tick : Nat, key : BOOLEAN, left : SUBSET Cameras]
      /\ ~Writable(w) => grid' = grid
      /\ Writable(w) => IF grid.left \ {c} # {} THEN grid' = [grid EXCEPT !.left = grid.left \ {c}]
                        ELSE grid'.left = Cameras
  <2>1. CASE ~Writable(w)
    BY <1>0, <1>1, <2>1
  <2>2. CASE Writable(w) /\ grid.left \ {c} # {}
    BY <1>0, <1>1, <2>2 DEF NextGrid
  <2>3. CASE Writable(w) /\ grid.left \ {c} = {}
    <3>1. PICK key \in BOOLEAN : grid' = [tick |-> grid.tick + 1, key |-> key, left |-> Cameras]
      BY <1>1, <2>3 DEF NextGrid
    <3> QED BY <1>0, <2>3, <3>1
  <2> QED BY <2>1, <2>2, <2>3
<1>7. CASE ~Writable(w)
  <2>1. v = w /\ grid' = grid
    BY <1>3, <1>6, <1>7 DEF Outcomes
  <2> QED BY <1>0, <1>5, <2>1 DEF FileInv, WriterInv, GridFits
<1>8. CASE Writable(w) /\ (w.cfg.continuation \/ ~w.cfg.on_keyframe)
  <2>1. ~v.hole /\ (v.cfg.continuation \/ ~v.cfg.on_keyframe \/ v = w)
    BY <1>0, <1>2, <1>3, <1>8, FrameGrid
  <2>2. GridFits(v, grid')
    BY <1>6, <1>8, <2>1 DEF GridFits
  <2>3. GridFits(w', grid')
    BY <1>5, <2>2
  <2> QED BY <1>5, <2>3 DEF FileInv, WriterInv, GridFits
<1>9. CASE Writable(w) /\ ~w.cfg.continuation /\ w.cfg.on_keyframe
  <2>1. ~w.threw
    BY <1>0, <1>9 DEF Writable
  <2>2. GridFits(v, grid')
    BY <1>0, <1>2, <1>3, <1>6, <1>9, <2>1, CoPhasedGrid
  <2>3. GridFits(w', grid')
    BY <1>5, <2>2
  <2> QED BY <1>5, <2>3 DEF FileInv, WriterInv, GridFits
<1> QED BY <1>7, <1>8, <1>9

LEMMA CallFlushDueInv ==
  ASSUME FileInv, CallFlushDue PROVE FileInv'
<1>0. /\ WriterInv(w) /\ (w.threw => w.closed) /\ GridFits(w, grid) /\ grid' = grid
      /\ ~w.closed /\ ~storage_refused(w) /\ HasDeadline(w)
  BY DEF FileInv, CallFlushDue
<1>1. PICK v \in FlushDue(w) : w' = [v EXCEPT !.threw = FALSE]
  BY DEF CallFlushDue
<1>2. w.cfg.continuation
  BY <1>0 DEF WriterInv, LegacyInv, HasDeadline
<1>3. Sound(w, 0) /\ Writable(w) /\ ~w.threw
  BY <1>0, <1>2, InvSound DEF WriterInv, Numbered, Writable
<1>4. Sound(v, 0)
  BY <1>1, <1>3, FlushDueOutcome
<1>5. WriterInv(v) /\ ~v.hole /\ v.cfg.continuation
  BY <1>4, SoundInv
<1>6. GridFits(v, grid)
  BY <1>0, <1>5 DEF GridFits
<1>7. WriterInv(w') /\ ~w'.threw /\ GridFits(w', grid)
  BY <1>1, <1>5, <1>6, CaughtInv
<1> QED BY <1>0, <1>7 DEF FileInv, WriterInv, GridFits

LEMMA TimeInv ==
  ASSUME FileInv, GrowsOlder \/ DeadlinePasses PROVE FileInv'
<1>0. WriterInv(w) /\ (w.threw => w.closed) /\ GridFits(w, grid) /\ grid' = grid /\ IsWriter(w)
  BY DEF FileInv, WriterInv, Typed, GrowsOlder, DeadlinePasses
<1>1. IsWriter(w') /\ Same(w, w', {"threw", "age", "late"}) /\ w'.threw = w.threw /\ w'.closed = w.closed
  <2>1. CASE GrowsOlder
    BY <1>0, <2>1, Zenon DEF GrowsOlder, IsWriter, Same, Fields
  <2>2. CASE DeadlinePasses
    BY <1>0, <2>2, Zenon DEF DeadlinePasses, IsWriter, Same, Fields
  <2> QED BY <2>1, <2>2
<1>2. WriterInv(w') /\ GridFits(w', grid)
  BY <1>0, <1>1, InvSame
<1> QED BY <1>0, <1>1, <1>2 DEF FileInv, WriterInv, GridFits

(* The invariant holds throughout, if the stage has room for a candidate.  *)
LEMMA FileInvHolds == KeyframesFit /\ FileSpec => []FileInv
<1>1. FileInit /\ KeyframesFit => FileInv
  BY InitInv
<1>2. FileInv /\ [FileNext]_file_vars => FileInv'
  <2> SUFFICES ASSUME FileInv, [FileNext]_file_vars PROVE FileInv'
    OBVIOUS
  <2>1. CASE WriteFrame
    BY <2>1, WriteFrameInv
  <2>2. CASE WriteCoPhased
    BY <2>2, WriteCoPhasedInv
  <2>3. CASE CallFlushDue
    BY <2>3, CallFlushDueInv
  <2>4. CASE CloseFile
    BY <2>4, CloseInv
  <2>5. CASE GrowsOlder \/ DeadlinePasses
    BY <2>5, TimeInv
  <2>6. CASE UNCHANGED file_vars
    BY <2>6 DEF file_vars, FileInv, WriterInv, GridFits
  <2> QED BY <2>1, <2>2, <2>3, <2>4, <2>5, <2>6 DEF FileNext
<1> QED BY <1>1, <1>2, PTL DEF FileSpec

-----------------------------------------------------------------------------
(***************************************************************************)
(* Every part that claims to be decodable alone starts each camera at a    *)
(* keyframe, a candidate's at that candidate's point, and a cut at a       *)
(* keyframe opens no hole: for any cameras, messages and constructor       *)
(* arguments whose stage has room for a keyframe that begins a candidate,  *)
(* and storage that refuses at any step (WriteContinuation, FlushStaged,   *)
(* rotate_on_keyframe).                                                    *)
(***************************************************************************)
THEOREM FileCutsDecodable == KeyframesFit /\ FileSpec => []CutsDecodable
<1>1. FileInv => CutsDecodable
  BY DEF FileInv, WriterInv, GridFits, OwnStart, CutsDecodable, PartsStartDecodable,
         NoHoleAtKeyframeCut
<1> QED BY <1>1, FileInvHolds, PTL

(***************************************************************************)
(* Once started, the continuation policy keeps every frame in its          *)
(* channel's order; the parts number without a gap, none is closed twice   *)
(* or written after the end; and no part outgrows its ceiling by more than *)
(* a frame and what the stage holds (WriteContinuation, OpenPart, Roll,    *)
(* CloseCurrentPart, ForcedCutDue).                                        *)
(***************************************************************************)
THEOREM FilePartsSound == KeyframesFit /\ FileSpec => []PartsSound
<1>1. ASSUME FileInv PROVE PartsSound
  <2>1. WriterInv(w) /\ Typed(w) /\ Numbered(w)
    BY <1>1 DEF FileInv, WriterInv
  <2>2. PartSequence
    BY <2>1 DEF Numbered, PartSequence
  <2>3. PartBounded
    <3>1. Ceiling(w) + MaxFrame \in Nat
      <4>1. Ceiling(w) \in Nat /\ MaxFrame \in Nat
        BY <2>1, CeilingFacts, RecordsAssumption DEF Typed
      <4>2. \A a, b \in Nat : a + b \in Nat
        OBVIOUS
      <4> QED BY <4>1, <4>2, Zenon
    <3>2. CASE w.cfg.continuation
      BY <2>1, <3>2 DEF WriterInv, ContinuationInv, Bounded, PartBounded
    <3>3. CASE ~w.cfg.continuation
      BY <2>1, <3>1, <3>3 DEF WriterInv, LegacyInv, PartBounded
    <3> QED BY <3>2, <3>3
  <2>4. ContinuationLossless
    <3> SUFFICES ASSUME w.cfg.continuation, w.status = "Ready", ~storage_refused(w)
                 PROVE  /\ w.owed = Len(w.staged) /\ ~w.overtook
                        /\ w.closed => w.staged = <<>>
      BY DEF ContinuationLossless
    <3>1. ContinuationInv(w)
      BY <2>1 DEF WriterInv
    <3>2. CASE w.closed
      BY <3>1, <3>2 DEF ContinuationInv
    <3>3. CASE ~w.closed
      <4>1. Writable(w)
        BY <2>1, <3>3 DEF Numbered, Writable
      <4>2. w.owed = Len(w.staged) + 0 /\ Len(w.staged) \in Nat
        BY <2>1, <3>1, <4>1 DEF ContinuationInv, StartSound, Typed
      <4> QED BY <3>1, <3>3, <4>2 DEF ContinuationInv
    <3> QED BY <3>2, <3>3
  <2> QED BY <2>2, <2>3, <2>4 DEF PartsSound
<1> QED BY <1>1, FileInvHolds, PTL
=============================================================================
