------------------------------ MODULE Prefetch ------------------------------
(***************************************************************************)
(* visio_schema.reader.ops: prefetch.  A worker thread runs a source ahead *)
(* of its consumer through a bounded queue; the consumer may leave early,  *)
(* and the source may fail.  One action per blocking call of either side.  *)
(***************************************************************************)
EXTENDS Integers, Sequences

CONSTANTS
  Items,    \* how many the source yields
  Depth     \* depth of the queue, at least 1

VARIABLES
  source,   \* items yielded so far, and how the source ends
  worker,   \* where the worker thread is, with the item in hand
  queue, stop,
  consumer, \* where the consumer is
  yielded   \* what it was given

vars == <<source, worker, queue, stop, consumer, yielded>>

DONE == 0
Err == -1

-----------------------------------------------------------------------------
\* _prefetch_worker

(* The source is asked for the next item, ends, or raises; an item is put  *)
(* unless the consumer left, an end always.                                *)
Produce ==
  /\ worker.at = "next"
  /\ IF source.n = source.stops
     THEN /\ worker' = [at |-> "put last", item |-> IF source.fails THEN Err ELSE DONE]
          /\ UNCHANGED source
     ELSE /\ source' = [source EXCEPT !.n = @ + 1]
          /\ worker' = IF stop THEN [at |-> "ended", item |-> DONE]
                       ELSE [at |-> "put", item |-> source.n + 1]
  /\ UNCHANGED <<queue, stop, consumer, yielded>>

(* q.put: blocks while the queue is full.                                  *)
Put ==
  /\ worker.at \in {"put", "put last"} /\ Len(queue) < Depth
  /\ queue' = Append(queue, worker.item)
  /\ worker' = [worker EXCEPT !.at = IF worker.at = "put" THEN "next" ELSE "ended"]
  /\ UNCHANGED <<source, stop, consumer, yielded>>

Worker == Produce \/ Put

-----------------------------------------------------------------------------
\* The consumer's side: _prefetch_consume and prefetch's finally

Get ==
  /\ consumer = "get" /\ queue # <<>> /\ queue' = Tail(queue)
  /\ IF Head(queue) \in {DONE, Err}
     THEN consumer' = "leave" /\ yielded' = Append(yielded, Head(queue))
     ELSE consumer' \in {"get", "leave"} /\ yielded' = Append(yielded, Head(queue))
  /\ UNCHANGED <<source, worker, stop>>

(* Leaving, however: signal the worker, drain until the queue is seen      *)
(* empty once, and wait for the worker for a while.                        *)
Leave ==
  /\ consumer = "leave" /\ stop' = TRUE /\ consumer' = "drain"
  /\ UNCHANGED <<source, worker, queue, yielded>>
Drain ==
  /\ consumer = "drain"
  /\ IF queue = <<>> THEN consumer' = "left" /\ UNCHANGED queue
     ELSE queue' = Tail(queue) /\ UNCHANGED consumer
  /\ UNCHANGED <<source, worker, stop, yielded>>

Consumer == Get \/ Leave \/ Drain

Init ==
  /\ source \in [n : {0}, stops : 0..Items, fails : BOOLEAN]
  /\ worker = [at |-> "next", item |-> DONE]
  /\ queue = <<>> /\ stop = FALSE /\ consumer = "get" /\ yielded = <<>>

Next == Worker \/ Consumer
Spec == Init /\ [][Next]_vars /\ WF_vars(Worker) /\ WF_vars(Consumer)

-----------------------------------------------------------------------------
(* The consumer is given the source's items in order with none missing,    *)
(* and its end or its failure only after all of them (the sentinels).      *)
InOrder ==
  \A i \in DOMAIN yielded :
    IF yielded[i] \in {DONE, Err}
    THEN /\ i = Len(yielded) /\ i = source.stops + 1
         /\ (yielded[i] = Err) = source.fails
    ELSE yielded[i] = i
Bounded == Len(queue) <= Depth /\ (source.n - Len(yielded) <= Depth + 1 \/ stop)

(* A consumer that leaves early leaves no thread behind: the worker sees   *)
(* the signal or finds room for what it still has to put.                  *)
WorkerGone == consumer = "left" => worker.at = "ended"
WorkerEnds == []<>WorkerGone
=============================================================================
