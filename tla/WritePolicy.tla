----------------------------- MODULE WritePolicy -----------------------------
(***************************************************************************)
(* The bounded-queue policies of a streaming sink, and the eviction rule   *)
(* shared by every bounded queue of the library                            *)
(* (cpp/include/visio_schema/transport/write_policy.hpp).                  *)
(*                                                                         *)
(* A queue is a set of entries.  An entry carries its queue position as a  *)
(* number `id`, larger for a later push, so the deque's front is the entry *)
(* with the least id and erasing from the middle is set difference.        *)
(***************************************************************************)
EXTENDS Integers, FiniteSets, FiniteSetsExt

(* SIZE_MAX of the code: more than any total a run reaches. *)
SizeMax == 1000000

DropModes == {"DropOldest", "DropOnFail", "StaleEviction"}
DrainModes == {"OneAtATime", "BatchAll"}

Policies == [drop : DropModes, drain : DrainModes, max_depth : Nat,
             max_bytes : Nat, max_age : Nat, protect_below_bytes : Nat]

(* The policy constructors. *)
drop_oldest(depth) ==
  [drop |-> "DropOldest", drain |-> "OneAtATime", max_depth |-> depth,
   max_bytes |-> SizeMax, max_age |-> 0, protect_below_bytes |-> 0]

drop_on_fail(depth) == [drop_oldest(depth) EXCEPT !.drop = "DropOnFail"]

stale_eviction(max_bytes, age, drain, protect_below) ==
  [drop |-> "StaleEviction", drain |-> drain, max_depth |-> 1024,
   max_bytes |-> max_bytes, max_age |-> age,
   protect_below_bytes |-> protect_below]

lossless == drop_oldest(SizeMax)

(* Bytes of a set of entries. *)
Bytes(q) == MapThenSumSet(LAMBDA e : e.size, q)

(* The front of the deque, as a set: empty for the empty queue. *)
Front(q) == {e \in q : \A g \in q : e.id <= g.id}

(***************************************************************************)
(* evict_one's choice, iterated: bulk entries (protect_below_bytes or      *)
(* more) oldest first, then the others oldest first.                       *)
(***************************************************************************)
IsBulk(policy, e) ==
  policy.protect_below_bytes > 0 /\ e.size >= policy.protect_below_bytes

PlainFifoShed(policy, g, e) == g.id < e.id   \* mutant: no protection

EvictedBefore(policy, g, e) ==
  \/ IsBulk(policy, g) /\ ~IsBulk(policy, e)
  \/ (IsBulk(policy, g) <=> IsBulk(policy, e)) /\ g.id < e.id

(* Mutant: the bound is noticed one frame, or one byte, late. *)
OverBoundLate(policy, depth, bytes, incoming) ==
  CASE policy.drop = "DropOldest"    -> depth > policy.max_depth
    [] policy.drop = "StaleEviction" -> bytes > policy.max_bytes
    [] policy.drop = "DropOnFail"    -> FALSE

(* The loop condition for a queue of `depth` entries and `bytes` bytes. *)
OverBound(policy, depth, bytes, incoming) ==
  CASE policy.drop = "DropOldest"    -> depth >= policy.max_depth
    [] policy.drop = "StaleEviction" -> bytes + incoming > policy.max_bytes
    [] policy.drop = "DropOnFail"    -> FALSE

(***************************************************************************)
(* What ApplyDropBound evicts to make room for `incoming` bytes.  Its      *)
(* while loop reaches e once everything evicted before e is gone, and      *)
(* evicts e iff the bound is still exceeded at that point.                 *)
(***************************************************************************)
Evicted(policy, q, bytes, incoming) ==
  {e \in q : LET ahead == {g \in q : EvictedBefore(policy, g, e)}
             IN  OverBound(policy, Cardinality(q \ ahead),
                           bytes - Bytes(ahead), incoming)}

(* ApplyDropBound's return value: only DropOnFail refuses the new entry. *)
Admits(policy, q) ==
  policy.drop = "DropOnFail" => Cardinality(q) < policy.max_depth
=============================================================================
