---------------------------- MODULE FramedFdLink ----------------------------
(***************************************************************************)
(* The life of a FramedFdEndpoint's link (cpp/src/transport/framed_fd.cc): *)
(* who owns the fd, how a dead link is noticed, reported or reopened, what *)
(* Stop does, and which link a reliable frame is accepted for.             *)
(*                                                                         *)
(* Every descriptor the endpoint ever holds has its own number, never      *)
(* reused here, so that an access to a closed one can be told; 0 stands    *)
(* for -1.  The I/O thread's steps are those between which another thread  *)
(* can run: each lock region and each system call.                         *)
(***************************************************************************)
EXTENDS Integers, Sequences

CONSTANTS
  MaxLinks,        \* bound: descriptors opened in a run
  MaxReliable      \* bound: reliable frames queued at once

ASSUME LinkAssumption ==
  MaxLinks \in Nat \ {0} /\ MaxReliable \in Nat

VARIABLES
  fixed,              \* no factory: the link cannot be reopened
  fd,                 \* fd_
  reliable_link_up,   \* reliable_link_up_, under reliable_send_mu_
  reliable,           \* the reliable lane: per frame, the link it was
                      \* accepted for
  rx,                 \* the links whose bytes rx_buf_ holds
  stop,               \* stop_
  closed,             \* times on_closed was called
  pc,                 \* the I/O thread's place in Loop
  polled, flagged,    \* Loop's local `fd`; poll reported it (its revents)
  fresh,              \* the descriptor Reopen is adopting
  owner,              \* the owner's place in Stop
  opened,             \* descriptors open in the kernel
  dead,               \* links whose peer is gone
  links,              \* descriptors opened so far
  stale_read,         \* history: a closed descriptor was read
  misdelivered        \* history: a reliable frame left on another link

vars == <<fixed, fd, reliable_link_up, reliable, rx, stop, closed, pc, polled,
          flagged, fresh, owner, opened, dead, links, stale_read, misdelivered>>

io == <<pc, polled, flagged, fresh>>
world == <<fixed, opened, dead, links>>
history == <<stale_read, misdelivered>>

-----------------------------------------------------------------------------
(***************************************************************************)
(* Producers.  The check and the enqueue are one region of                 *)
(* reliable_send_mu_.                                                      *)
(***************************************************************************)
TrySendReliable ==
  /\ ~stop /\ reliable_link_up
  /\ Len(reliable) < MaxReliable
  /\ reliable' = Append(reliable, fd)
  /\ UNCHANGED <<fd, reliable_link_up, rx, stop, closed, io, owner, world,
                 history>>

DiscardReliable ==
  /\ reliable # <<>>
  /\ reliable' = <<>>
  /\ UNCHANGED <<fd, reliable_link_up, rx, stop, closed, io, owner, world,
                 history>>

-----------------------------------------------------------------------------
(* The I/O thread. *)

(* The top of Loop: remember the fd, poll. *)
LoopPoll ==
  /\ pc = "poll"
  /\ pc' = IF stop THEN "exited" ELSE "polled"
  /\ polled' = fd
  /\ UNCHANGED <<fd, reliable_link_up, reliable, rx, stop, closed, flagged,
                 fresh, owner, world, history>>

(* poll returned: it reports bytes to read, and always a hang-up. *)
Revents == IF polled = 0 THEN {FALSE} ELSE IF polled \in dead THEN {TRUE} ELSE BOOLEAN

LoopWoken ==
  /\ pc = "polled"
  /\ pc' = IF stop THEN "exited" ELSE IF fd = 0 THEN "read" ELSE "pump"
  /\ flagged' \in Revents
  /\ UNCHANGED <<fd, reliable_link_up, reliable, rx, stop, closed, polled,
                 fresh, owner, world, history>>

(* Pump: one reliable frame leaves, or the pass is over. *)
PumpFrame ==
  /\ pc = "pump" /\ fd \notin dead /\ reliable # <<>>
  /\ reliable' = Tail(reliable)
  /\ misdelivered' = (misdelivered \/ Head(reliable) # fd)
  /\ UNCHANGED <<fd, reliable_link_up, rx, stop, closed, io, owner, world,
                 stale_read>>

PumpDone ==
  /\ pc = "pump"
  /\ pc' = "read"
  /\ UNCHANGED <<fd, reliable_link_up, reliable, rx, stop, closed, polled,
                 flagged, fresh, owner, world, history>>

(* A write on a dead link fails. *)
PumpFails ==
  /\ pc = "pump" /\ fd \in dead
  /\ pc' = "dead_write"
  /\ UNCHANGED <<fd, reliable_link_up, reliable, rx, stop, closed, polled,
                 flagged, fresh, owner, world, history>>

(***************************************************************************)
(* MarkLinkDead's lock region: no more admissions, and the lane is empty   *)
(* before the next link.  The mutant clears the lane but lets producers in *)
(* until the link is reopened.                                             *)
(***************************************************************************)
MarkAdmitting ==
  /\ pc \in {"dead_write", "dead_read"}
  /\ reliable' = <<>>
  /\ pc' = IF pc = "dead_write" THEN "close_write" ELSE "close_read"
  /\ UNCHANGED <<fd, reliable_link_up, rx, stop, closed, polled, flagged,
                 fresh, owner, world, history>>

MarkNotAdmitting ==
  /\ pc \in {"dead_write", "dead_read"}
  /\ reliable_link_up' = FALSE /\ reliable' = <<>>
  /\ pc' = IF pc = "dead_write" THEN "close_write" ELSE "close_read"
  /\ UNCHANGED <<fd, rx, stop, closed, polled, flagged, fresh, owner, world,
                 history>>

(* Mutant: a failed write leaves the report to the read after it. *)
ReportOnRead ==
  IF fixed /\ closed = 0 /\ pc = "close_read" THEN closed + 1 ELSE closed

(* ReportClosedOnce, for a fixed link only. *)
ReportClosedOnce == IF fixed /\ closed = 0 THEN closed + 1 ELSE closed

(***************************************************************************)
(* The rest of MarkLinkDead: close the fd, forget the half-read frame,     *)
(* report a fixed link's end.  After a failed write Loop goes on to its    *)
(* read; after a failed read a fixed link's thread returns.                *)
(***************************************************************************)
CloseLink ==
  /\ pc \in {"close_write", "close_read"}
  /\ opened' = opened \ {fd}
  /\ fd' = 0 /\ rx' = {}
  /\ closed' = ReportClosedOnce
  /\ pc' = CASE pc = "close_write"           -> "read"
             [] pc = "close_read" /\ fixed   -> "exited"
             [] pc = "close_read" /\ ~fixed  -> "tick"
  /\ UNCHANGED <<reliable_link_up, reliable, stop, polled, flagged, fresh,
                 owner, fixed, dead, links, history>>

(* poll reported nothing of the descriptor it was given. *)
SkipRead ==
  /\ pc = "read" /\ ~flagged
  /\ pc' = "tick"
  /\ UNCHANGED <<fd, reliable_link_up, reliable, rx, stop, closed, polled,
                 flagged, fresh, owner, world, history>>

(* ReadInbound(polled) gets bytes and keeps the unfinished frame. *)
ReadInbound ==
  /\ pc = "read" /\ flagged /\ polled \in opened \ dead
  /\ rx' \in {{}, rx \cup {polled}}
  /\ pc' = "tick"
  /\ UNCHANGED <<fd, reliable_link_up, reliable, stop, closed, polled, flagged,
                 fresh, owner, world, history>>

(* ReadInbound(polled) finds the end of the link, or a closed descriptor. *)
ReadFails ==
  /\ pc = "read" /\ flagged /\ polled \in dead
  /\ stale_read' = (stale_read \/ polled \notin opened)
  /\ pc' = "dead_read"
  /\ UNCHANGED <<fd, reliable_link_up, reliable, rx, stop, closed, polled,
                 flagged, fresh, owner, world, misdelivered>>

(* Tick: reopen a down link; the factory may fail. *)
Tick ==
  /\ pc = "tick"
  /\ \/ pc' = "poll" /\ UNCHANGED <<fresh, opened, links>>
     \/ /\ fd = 0 /\ ~fixed /\ links < MaxLinks
        /\ links' = links + 1
        /\ fresh' = links' /\ opened' = opened \cup {links'}
        /\ pc' = "adopt"
  /\ UNCHANGED <<fd, reliable_link_up, reliable, rx, stop, closed, polled,
                 flagged, owner, fixed, dead, history>>

(* Mutant: a descriptor that is refused is not closed. *)
AdoptLeaks ==
  /\ pc = "adopt"
  /\ \/ fd' = fresh /\ pc' = "admit"
     \/ pc' = "poll" /\ UNCHANGED fd
  /\ fresh' = 0 /\ rx' = {}
  /\ UNCHANGED <<reliable_link_up, reliable, stop, closed, polled, flagged,
                 owner, world, history>>

(* AdoptFd: a descriptor that cannot be made non-blocking is closed. *)
AdoptFd ==
  /\ pc = "adopt"
  /\ \/ fd' = fresh /\ pc' = "admit" /\ UNCHANGED opened
     \/ opened' = opened \ {fresh} /\ pc' = "poll" /\ UNCHANGED fd
  /\ fresh' = 0 /\ rx' = {}
  /\ UNCHANGED <<reliable_link_up, reliable, stop, closed, polled, flagged,
                 owner, fixed, dead, links, history>>

(* Its lock region: the new link admits reliable frames. *)
AdoptAdmits ==
  /\ pc = "admit"
  /\ reliable_link_up' = TRUE
  /\ pc' = "poll"
  /\ UNCHANGED <<fd, reliable, rx, stop, closed, polled, flagged, fresh, owner,
                 world, history>>

-----------------------------------------------------------------------------
(* The owner stops the endpoint: flag, admissions, join, close, clear. *)

StopBegin ==
  /\ owner = "running"
  /\ stop' = TRUE
  /\ owner' = "stopping"
  /\ UNCHANGED <<fd, reliable_link_up, reliable, rx, closed, io, world,
                 history>>

StopAdmissions ==
  /\ owner = "stopping"
  /\ reliable_link_up' = FALSE
  /\ owner' = "joining"
  /\ UNCHANGED <<fd, reliable, rx, stop, closed, io, world, history>>

(* Mutant: Stop closes the fd without joining the I/O thread. *)
StopUnjoined ==
  /\ owner = "joining"
  /\ opened' = opened \ {fd}
  /\ fd' = 0 /\ reliable' = <<>>
  /\ owner' = "stopped"
  /\ UNCHANGED <<reliable_link_up, rx, stop, closed, io, fixed, dead, links,
                 history>>

StopJoined ==
  /\ owner = "joining" /\ pc = "exited"
  /\ opened' = opened \ {fd}
  /\ fd' = 0 /\ reliable' = <<>>
  /\ owner' = "stopped"
  /\ UNCHANGED <<reliable_link_up, rx, stop, closed, io, fixed, dead, links,
                 history>>

-----------------------------------------------------------------------------
(* The peer of an open link goes away. *)
PeerDies(l) ==
  /\ l \in opened \ dead
  /\ dead' = dead \cup {l}
  /\ UNCHANGED <<fd, reliable_link_up, reliable, rx, stop, closed, io, owner,
                 fixed, opened, links, history>>

(* The endpoint is constructed over an open descriptor and started. *)
Init ==
  /\ fixed \in BOOLEAN
  /\ fd = 1 /\ reliable_link_up = TRUE /\ reliable = <<>> /\ rx = {}
  /\ stop = FALSE /\ closed = 0
  /\ pc = "poll" /\ polled = 0 /\ flagged = FALSE /\ fresh = 0
  /\ owner = "running"
  /\ opened = {1} /\ dead = {} /\ links = 1
  /\ stale_read = FALSE /\ misdelivered = FALSE

IoThread ==
  \/ LoopPoll \/ LoopWoken
  \/ PumpFrame \/ PumpDone \/ PumpFails
  \/ MarkNotAdmitting \/ CloseLink
  \/ SkipRead \/ ReadInbound \/ ReadFails
  \/ Tick \/ AdoptFd \/ AdoptAdmits

Stop == StopAdmissions \/ StopJoined

(* The end of an endpoint's life. *)
Terminated == owner = "stopped" /\ UNCHANGED vars

Next ==
  \/ TrySendReliable \/ DiscardReliable
  \/ IoThread
  \/ StopBegin \/ Stop
  \/ \E l \in 1 .. MaxLinks : PeerDies(l)
  \/ Terminated

Spec == Init /\ [][Next]_vars

(***************************************************************************)
(* The I/O thread and a Stop in progress keep running, and a Pump with     *)
(* nothing more to write ends.                                             *)
(***************************************************************************)
FairSpec ==
  Spec /\ WF_vars(IoThread) /\ SF_vars(PumpDone \/ PumpFails) /\ WF_vars(Stop)

-----------------------------------------------------------------------------
(* Properties. *)

(***************************************************************************)
(* What belongs to one link never reaches another, however producers, link *)
(* death, reopen and Stop interleave: a reliable frame leaves on the link  *)
(* it was accepted for or not at all, and bytes of two links never meet in *)
(* the receive buffer.                                                     *)
(***************************************************************************)
LinksStayApart == ~misdelivered /\ (owner # "stopped" => rx \subseteq {fd})

(***************************************************************************)
(* Every descriptor the endpoint opened is either its current one or       *)
(* closed: none leaks, and none is closed while it is in use.              *)
(***************************************************************************)
DescriptorsOwned == opened = {fd, fresh} \ {0}

(***************************************************************************)
(* The owner of a fixed link hears of its end exactly once, by whichever   *)
(* path noticed it (a failed write and the read after it both do), unless  *)
(* it is stopping the endpoint itself; of a reopenable link's, never.      *)
(***************************************************************************)
DeathReportedOnce ==
  /\ [](closed <= IF fixed THEN 1 ELSE 0)
  /\ fixed => ((fd \in dead) ~> (closed = 1 \/ stop))

(* Stop returns: the I/O thread always comes to its stop check. *)
StopReturns == stop ~> (owner = "stopped" /\ opened = {})

(***************************************************************************)
(* MarkLinkDead's comment on a failed write: "the fd is gone, so it is     *)
(* never polled again and ReadInbound never runs".                         *)
(***************************************************************************)
NoReadAfterClose == ~stale_read
=============================================================================
