---------------------------- MODULE PayloadArena ----------------------------
(***************************************************************************)
(* PayloadArena (cpp/src/mcap/payload_arena.cc): the recorder's own memory *)
(* for queued payloads.  Records are bump-allocated in the current chunk;  *)
(* an emptied chunk above the resident set is handed back to the kernel,   *)
(* outside the owner's lock.                                               *)
(*                                                                         *)
(* An arena is a record: live_ per chunk, the chunks that are Reclaiming,  *)
(* current_ and fill_.  Touched and Untouched chunks differ in resident    *)
(* memory only and are not told apart.                                     *)
(***************************************************************************)
EXTENDS Integers, FiniteSets

CONSTANTS
  NumChunks,        \* chunks reserved
  ChunkBytes,       \* the largest record
  ResidentChunks    \* chunks kept mapped while empty

ASSUME ArenaAssumption ==
  NumChunks \in Nat /\ ChunkBytes \in Nat \ {0} /\ ResidentChunks \in Nat

Chunks == 0 .. NumChunks - 1
NoChunk == -1

Arenas == [live : [Chunks -> Nat], reclaiming : SUBSET Chunks,
           current : Chunks \cup {NoChunk}, fill : 0 .. ChunkBytes]

EmptyArena == [live |-> [c \in Chunks |-> 0], reclaiming |-> {},
               current |-> NoChunk, fill |-> 0]

IsFree(a, c) == c # a.current /\ a.live[c] = 0 /\ c \notin a.reclaiming

LowestFreeChunk(a) ==
  IF \E c \in Chunks : IsFree(a, c)
  THEN CHOOSE c \in Chunks :
         IsFree(a, c) /\ \A d \in Chunks : IsFree(a, d) => c <= d
  ELSE NoChunk

ChooseChunk(a, size) ==
  CASE size = 0 \/ size > ChunkBytes -> NoChunk
    [] size \in 1 .. ChunkBytes /\ a.current # NoChunk
       /\ size <= ChunkBytes - a.fill -> a.current
    [] OTHER -> LowestFreeChunk(a)

CanPut(a, size) == ChooseChunk(a, size) # NoChunk

(* Put: where the record goes, and the arena after it. *)
NoPlace == [chunk |-> NoChunk, offset |-> 0]

Place(a, size) ==
  LET c == ChooseChunk(a, size)
  IN  IF c = NoChunk THEN NoPlace
      ELSE [chunk |-> c, offset |-> IF c = a.current THEN a.fill ELSE 0]

Put(a, size) ==
  LET at == Place(a, size)
  IN  IF at = NoPlace THEN a
      ELSE [a EXCEPT !.live[at.chunk] = @ + 1, !.current = at.chunk,
                     !.fill = at.offset + size]

(* Mutant: the emptied current chunk is kept, and handed back all the      *)
(* same.                                                                   *)
KeepsEmptied(chunk) == TRUE

(* Free gives up an emptied current chunk that is not in the resident set. *)
KeepsCurrent(chunk) == chunk < ResidentChunks

(***************************************************************************)
(* Free of one record of `chunk`.  Claimed is the chunk the caller must    *)
(* hand back.                                                              *)
(***************************************************************************)
Claimed(a, chunk) ==
  IF a.live[chunk] = 1 /\ chunk >= ResidentChunks THEN chunk ELSE NoChunk

Free(a, chunk) ==
  LET last == a.live[chunk] = 1
      was == chunk = a.current
  IN  [live |-> [a.live EXCEPT ![chunk] = @ - 1],
       reclaiming |-> IF Claimed(a, chunk) = NoChunk THEN a.reclaiming
                      ELSE a.reclaiming \cup {chunk},
       current |-> IF last /\ was /\ ~KeepsCurrent(chunk) THEN NoChunk
                   ELSE a.current,
       fill |-> IF last /\ was THEN 0 ELSE a.fill]

(* CompleteReclaim, whether or not the kernel took the chunk. *)
CompleteReclaim(a, chunk) == [a EXCEPT !.reclaiming = @ \ {chunk}]

(* The records of a chunk. *)
InChunk(records, chunk) == {r \in records : r.chunk = chunk}

(***************************************************************************)
(* ~Record of each of `records` outside the writer's hands: freed, handed  *)
(* back and completed at once, under the owner's lock.                     *)
(***************************************************************************)
Reset(a, records) ==
  LET live == [c \in Chunks |-> a.live[c] - Cardinality(InChunk(records, c))]
      emptied == /\ a.current # NoChunk
                 /\ InChunk(records, a.current) # {} /\ live[a.current] = 0
  IN  [live |-> live,
       reclaiming |-> a.reclaiming,
       current |-> IF emptied /\ ~KeepsCurrent(a.current) THEN NoChunk
                   ELSE a.current,
       fill |-> IF emptied THEN 0 ELSE a.fill]
=============================================================================
