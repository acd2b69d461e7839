------------------------------ MODULE LossyFifo ------------------------------
(***************************************************************************)
(* What a bounded outbound queue promises its reader: entries are numbered *)
(* in the order they are offered; an entry that has not been committed to  *)
(* the wire may be lost at any time, entries are committed in order, and a *)
(* committed entry is delivered unless the whole link is reset.            *)
(***************************************************************************)
EXTENDS Integers

VARIABLES
  next,        \* number of the next offer
  waiting,     \* accepted, not yet committed
  committed,   \* on their way to the wire
  delivered,   \* wholly written
  lost         \* shed, refused, discarded or cleared

fifoVars == <<next, waiting, committed, delivered, lost>>

Init ==
  /\ next = 0
  /\ waiting = {} /\ committed = {} /\ delivered = {} /\ lost = {}

(* A new entry is offered; making room may lose waiting entries, or it. *)
Offer ==
  \E shed \in SUBSET (waiting \cup {next}) :
    /\ next' = next + 1
    /\ waiting' = (waiting \cup {next}) \ shed
    /\ lost' = lost \cup shed
    /\ UNCHANGED <<committed, delivered>>

(* Some waiting entries are lost, then a prefix of the rest is committed. *)
Commit ==
  \E shed \in SUBSET waiting :
  \E front \in SUBSET (waiting \ shed) :
    /\ front = {} \/ committed = {}
    /\ \A i \in front, j \in (waiting \ shed) \ front : i < j
    /\ waiting' = (waiting \ shed) \ front
    /\ committed' = committed \cup front
    /\ lost' = lost \cup shed
    /\ UNCHANGED <<next, delivered>>

(* A prefix of the committed entries reaches the wire whole. *)
Deliver ==
  \E done \in SUBSET committed :
    /\ \A i \in done, j \in committed \ done : i < j
    /\ delivered' = delivered \cup done
    /\ committed' = committed \ done
    /\ UNCHANGED <<next, waiting, lost>>

(* The link is gone: whatever was not wholly written is lost. *)
Reset ==
  /\ lost' = lost \cup waiting \cup committed
  /\ waiting' = {} /\ committed' = {}
  /\ UNCHANGED <<next, delivered>>

Next == Offer \/ Commit \/ Deliver \/ Reset

Spec == Init /\ [][Next]_fifoVars
=============================================================================
