---------------------------- MODULE TcpAcceptor ----------------------------
(***************************************************************************)
(* TcpAcceptor's accept thread (cpp/src/transport/tcp.cc): a poll with no  *)
(* timeout on the wake fd and the listen socket, a bounded pass of accepts *)
(* behind an admission gate, a pause after a refusal, and Stop.            *)
(*                                                                         *)
(* The wake fd is reduced to what WakeFd shows of it: a Signal is readable *)
(* until it is drained.  Clients may dial again as soon as they have been  *)
(* refused, or once an admitted connection of theirs has ended.            *)
(***************************************************************************)
EXTENDS Integers, Sequences, SequencesExt, FiniteSets

CONSTANTS
  Clients,     \* peers that connect
  Unwelcome,   \* the ones the admission gate refuses
  MaxAccepts   \* kMaxAcceptsPerPass

VARIABLES
  stop,        \* stop_
  wake,        \* the wake fd is readable
  listening,   \* listen_fd_ >= 0
  backlog,     \* the kernel's queue of completed connects
  attached,    \* clients whose endpoint was handed to on_accept
  client,      \* the accepted connection not yet admitted or refused
  pc,          \* the accept thread's place in Loop
  defer,       \* defer_accept
  accepts,     \* AcceptPass: connections accepted in this pass
  refused,     \* AcceptPass: out.refused
  stopper,     \* the thread that calls Stop
  refusals     \* history: refusals since the listen socket was last paused

vars == <<stop, wake, listening, backlog, attached, client, pc, defer, accepts,
          refused, stopper, refusals>>

-----------------------------------------------------------------------------
(* Clients. *)

Connect(c) ==
  /\ listening /\ c \notin ToSet(backlog) \cup attached \cup client
  /\ backlog' = Append(backlog, c)
  /\ UNCHANGED <<stop, wake, listening, attached, client, pc, defer, accepts, refused,
                 stopper, refusals>>

(* The endpoint of an admitted client closes; its owner forgets it. *)
Disconnect(c) ==
  /\ c \in attached
  /\ attached' = attached \ {c}
  /\ UNCHANGED <<stop, wake, listening, backlog, client, pc, defer, accepts, refused,
                 stopper, refusals>>

-----------------------------------------------------------------------------
(* The accept thread. *)

(* The loop condition: while (!stop_.load()). *)
LoopTest ==
  /\ pc = "loop"
  /\ pc' = IF stop THEN "exited" ELSE "poll"
  /\ UNCHANGED <<stop, wake, listening, backlog, attached, client, defer,
                 accepts, refused, stopper, refusals>>

DeferKept == defer         \* mutant: the pause never ends
DeferAfterPoll == FALSE

(***************************************************************************)
(* poll blocks on both fds without a timeout or, after a refusal, on the   *)
(* wake fd alone with one; then stop_ is looked at again.                  *)
(***************************************************************************)
Poll ==
  /\ pc = "poll"
  /\ wake \/ defer \/ backlog # <<>>
  /\ wake' = FALSE
  /\ defer' = DeferAfterPoll
  /\ refusals' = IF defer THEN 0 ELSE refusals
  /\ pc' = CASE stop                              -> "exited"
             [] ~stop /\ ~defer /\ backlog # <<>>  -> "accept"
             [] ~stop /\ (defer \/ backlog = <<>>) -> "loop"
  /\ accepts' = 0 /\ refused' = FALSE
  /\ UNCHANGED <<stop, listening, backlog, attached, client, stopper>>

(* A turn of AcceptPass starts: accept the connection at the front. *)
Accept ==
  /\ pc = "accept" /\ backlog # <<>> /\ accepts < MaxAccepts
  /\ client' = {Head(backlog)} /\ backlog' = Tail(backlog)
  /\ accepts' = accepts + 1
  /\ pc' = "admit"
  /\ UNCHANGED <<stop, wake, listening, attached, defer, refused, stopper,
                 refusals>>

RefusedLast == client \subseteq Unwelcome    \* mutant: the last one decides
RefusedInPass == refused \/ client \subseteq Unwelcome

(* Ask the gate; close the fd, or hand its endpoint to on_accept. *)
Admit ==
  /\ pc = "admit"
  /\ attached' = attached \cup (client \ Unwelcome)
  /\ refused' = RefusedInPass
  /\ refusals' = refusals + Cardinality(client \cap Unwelcome)
  /\ client' = {}
  /\ pc' = "accept"
  /\ UNCHANGED <<stop, wake, listening, backlog, defer, accepts, stopper>>

(* EAGAIN, or enough for one pass. *)
EndPass ==
  /\ pc = "accept" /\ (backlog = <<>> \/ accepts = MaxAccepts)
  /\ defer' = refused
  /\ pc' = "loop"
  /\ UNCHANGED <<stop, wake, listening, backlog, attached, client, accepts,
                 refused, stopper, refusals>>

-----------------------------------------------------------------------------
(* Stop: flag, wake, join, then close the sockets. *)

SetStop ==
  /\ stopper = "none"
  /\ stop' = TRUE /\ stopper' = "flagged"
  /\ UNCHANGED <<wake, listening, backlog, attached, client, pc, defer, accepts,
                 refused, refusals>>

SignalsNot == wake       \* mutant: Stop relies on a timeout
Signalled == TRUE

Wake ==
  /\ stopper = "flagged"
  /\ wake' = Signalled
  /\ stopper' = "joining"
  /\ UNCHANGED <<stop, listening, backlog, attached, client, pc, defer, accepts,
                 refused, refusals>>

Joined == pc = "exited"

Join ==
  /\ stopper = "joining" /\ Joined
  /\ stopper' = "stopped"
  /\ listening' = FALSE /\ backlog' = <<>> /\ wake' = FALSE
  /\ UNCHANGED <<stop, attached, client, pc, defer, accepts, refused, refusals>>

-----------------------------------------------------------------------------
Init ==
  /\ stop = FALSE /\ wake = FALSE /\ listening = TRUE
  /\ backlog = <<>> /\ attached = {}
  /\ client = {} /\ pc = "loop" /\ defer = FALSE /\ accepts = 0 /\ refused = FALSE
  /\ stopper = "none" /\ refusals = 0

AcceptThread == LoopTest \/ Poll \/ Accept \/ Admit \/ EndPass
Stopper == Wake \/ Join

(* The end of an acceptor's life. *)
Terminated == stopper = "stopped" /\ UNCHANGED vars

Next ==
  \/ \E c \in Clients : Connect(c) \/ Disconnect(c)
  \/ AcceptThread
  \/ SetStop \/ Stopper
  \/ Terminated

Spec == Init /\ [][Next]_vars

(***************************************************************************)
(* Fairness: both threads run (a paused poll returns after                 *)
(* kRefusalDeferMs), but nobody has to connect, hang up or stop.           *)
(***************************************************************************)
FairSpec == Spec /\ WF_vars(AcceptThread) /\ WF_vars(Stopper)

-----------------------------------------------------------------------------
(* Properties. *)

(***************************************************************************)
(* "a client redialing in a tight loop ... costs a handful of syscalls per *)
(* tick": between two pauses no more connections are refused than one pass *)
(* accepts, whoever else connects in between.                              *)
(***************************************************************************)
StormIsPaced == refusals <= MaxAccepts

(***************************************************************************)
(* "One tick still admits a legitimate takeover client": a welcome client  *)
(* is admitted however hard an unwelcome one redials, unless the acceptor  *)
(* is stopped.                                                             *)
(***************************************************************************)
WelcomeAdmitted ==
  \A c \in Clients \ Unwelcome :
    c \in ToSet(backlog) ~> c \in attached \/ stop

(***************************************************************************)
(* Stop returns, though the accept thread may be in a poll with no         *)
(* timeout ("Stop() comes through the wake fd"), and on_accept never runs  *)
(* once it has returned.                                                   *)
(***************************************************************************)
StopReturns ==
  /\ stop ~> stopper = "stopped"
  /\ [](stopper = "stopped" => pc = "exited")
=============================================================================
