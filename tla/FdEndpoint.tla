---------------------------- MODULE FdEndpoint ----------------------------
(* The host's framed endpoint, transport/framed_fd.py with link.py and       *)
(* framing.py: one I/O thread over a non-blocking fd, a bounded outbox any   *)
(* thread may send to, and a QueueEndpoint (queue.py) at the receiving end   *)
(* of on_inbound.                                                            *)
(*                                                                           *)
(* A frame is two pieces, the second ending in the delimiter; a read or a    *)
(* write takes any number of pieces. An fd is the connection it was opened   *)
(* as, 0 for none. The peer and the kernel are external.                     *)
EXTENDS Integers, Sequences, FiniteSets

CONSTANTS MaxOutbox,   \* max_outbox_frames
          MaxDepth,    \* the queue's max_depth
          Wanted,      \* frames of the stream the queue's filter passes
          MaxSent,     \* bound: frames sent
          MaxInbound,  \* bound: frames the peer sends
          MaxDeaths,   \* bound: connections lost
          Room         \* pieces the kernel buffers before a write would block

VARIABLES ep,     \* [fd, outbox, inflight, rx, dropped]
          io,     \* the I/O thread: [at, fd, r]
          ctl,    \* [fixed, stop, owner, closed, backoff]
          link,   \* [gen, up, room, tx, rx, next]: this connection
          sent,   \* frames sent so far
          inb,    \* inbound on this connection: [read, given]
          queue   \* [q, popped, dropped, in]

vars == <<ep, io, ctl, link, sent, inb, queue>>

Frame(f) == <<<<f, 1>>, <<f, 2>>>>
Fixed == ctl.fixed     \* no factory: the link is not reopened

-----------------------------------------------------------------------------
(* extract_frames: split at the delimiters, drop what does not decode, keep  *)
(* the partial tail.                                                         *)

Delimiters(rx) == {i \in DOMAIN rx : rx[i][2] = 2}
LastDelimiter(rx) == IF Delimiters(rx) = {} THEN 0 ELSE CHOOSE i \in Delimiters(rx) : \A j \in Delimiters(rx) : j <= i
Decodes(rx, i) ==
    /\ i > 1 /\ rx[i - 1] = <<rx[i][1], 1>>
    /\ (i = 2 \/ rx[i - 2][2] = 2)
Extracted(rx) ==
    LET f[i \in 0..Len(rx)] ==
          IF i = 0 THEN <<>>
          ELSE IF i \in Delimiters(rx) /\ Decodes(rx, i) THEN Append(f[i - 1], rx[i][1]) ELSE f[i - 1]
    IN [msgs |-> f[Len(rx)], rest |-> SubSeq(rx, LastDelimiter(rx) + 1, Len(rx))]

-----------------------------------------------------------------------------
(* Any thread: send, and the owner's stop().                                 *)

Send ==
    /\ sent < MaxSent /\ sent' = sent + 1
    /\ ep' = LET full == Len(ep.outbox) >= MaxOutbox
             IN [ep EXCEPT !.outbox = Append(IF full THEN Tail(@) ELSE @, sent + 1),
                           !.dropped = IF full THEN @ + 1 ELSE @]
    /\ UNCHANGED <<io, ctl, link, inb, queue>>

Stop ==
    /\ ctl.owner = "running"
    /\ ctl' = [ctl EXCEPT !.owner = "joining", !.stop = TRUE]
    /\ UNCHANGED <<ep, io, link, sent, inb, queue>>

Joined ==
    /\ ctl.owner = "joining" /\ io.at = "exited"
    /\ ctl' = [ctl EXCEPT !.owner = "stopped"] /\ ep' = [ep EXCEPT !.fd = 0]
    /\ UNCHANGED <<io, link, sent, inb, queue>>

Consumer ==
    /\ queue.q # <<>>
    /\ queue' = [queue EXCEPT !.popped = @ \o queue.q, !.q = <<>>]
    /\ UNCHANGED <<ep, io, ctl, link, sent, inb>>

-----------------------------------------------------------------------------
(* The I/O thread.                                                           *)

Live(fd) == fd # 0 /\ fd = link.gen /\ fd = ep.fd
Readable(fd) == Live(fd) /\ (link.rx # <<>> \/ ~link.up)
Writable(fd) == Live(fd) /\ (link.room > 0 \/ ~link.up)
HasPending == ep.inflight # <<>> \/ ep.outbox # <<>>
Goes(at) == io' = [io EXCEPT !.at = at]

\* select() on the fd the loop read at its top. The wake pipe only shortens the
\* wait: it returns by itself after a tick.
Select ==
    /\ io.at = "select"
    /\ io' = IF ctl.stop THEN [io EXCEPT !.at = "exited"]
             ELSE [at |-> "pump", fd |-> ep.fd, r |-> Readable(ep.fd)]
    /\ UNCHANGED <<ep, ctl, link, sent, inb, queue>>

\* Mutant: the rest of the frame in flight goes out on the next connection
LinkDeadKeepsInflight == [ep EXCEPT !.fd = 0, !.outbox = <<>>, !.rx = <<>>]

LinkDead == [ep EXCEPT !.fd = 0, !.outbox = <<>>, !.inflight = <<>>, !.rx = <<>>]

\* One turn of _pump's loop: write what is in flight, or take the next frame
WriteInflight ==
    /\ io.at = "pump" /\ ep.fd # 0 /\ ep.inflight # <<>>
    /\ IF ~link.up
       THEN ep' = LinkDead /\ ctl' = [ctl EXCEPT !.backoff = FALSE] /\ Goes("read") /\ UNCHANGED link
       ELSE IF link.room = 0 THEN Goes("read") /\ UNCHANGED <<ep, ctl, link>>
       ELSE \E n \in 1..Len(ep.inflight) :
              /\ n <= link.room
              /\ link' = [link EXCEPT !.room = @ - n, !.tx = @ \o SubSeq(ep.inflight, 1, n)]
              /\ ep' = [ep EXCEPT !.inflight = SubSeq(@, n + 1, Len(@))]
              /\ Goes(IF n < Len(ep.inflight) THEN "read" ELSE "pump") /\ UNCHANGED ctl
    /\ UNCHANGED <<sent, inb, queue>>

TakeNext ==
    /\ io.at = "pump" /\ (ep.fd = 0 \/ ep.inflight = <<>>)
    /\ IF ep.fd = 0 \/ ep.outbox = <<>> THEN Goes("read") /\ UNCHANGED ep
       ELSE ep' = [ep EXCEPT !.inflight = Frame(Head(ep.outbox)), !.outbox = Tail(@)] /\ UNCHANGED io
    /\ UNCHANGED <<ctl, link, sent, inb, queue>>

\* QueueEndpoint.send of every message on_inbound is given
Queued(q, msgs) ==
    LET f[i \in 0..Len(msgs)] ==
          IF i = 0 THEN q
          ELSE LET was == f[i - 1]
                   full == Len(was.q) >= MaxDepth
               IN IF msgs[i] \notin Wanted THEN was
                  ELSE [was EXCEPT !.q = Append(IF full THEN Tail(@) ELSE @, msgs[i]),
                                   !.dropped = IF full THEN @ + 1 ELSE @, !.in = Append(@, msgs[i])]
    IN f[Len(msgs)]

\* The fd is the one the loop read at its top, closed since or not
ReadInbound ==
    /\ io.at = "read"
    /\ IF ~io.r THEN Goes("tick") /\ UNCHANGED <<ep, ctl, link, inb, queue>>
       ELSE IF Live(io.fd) /\ link.rx # <<>>
       THEN \E n \in 1..Len(link.rx) :
              LET chunk == SubSeq(link.rx, 1, n)
                  x == Extracted(ep.rx \o chunk)
              IN /\ ep' = [ep EXCEPT !.rx = x.rest]
                 /\ link' = [link EXCEPT !.rx = SubSeq(@, n + 1, Len(@))]
                 /\ inb' = [read |-> inb.read \o chunk, given |-> inb.given \o x.msgs]
                 /\ queue' = Queued(queue, x.msgs)
                 /\ Goes("tick") /\ UNCHANGED ctl
       ELSE IF Fixed
       THEN /\ ctl' = [ctl EXCEPT !.closed = @ + 1, !.stop = TRUE]
            /\ Goes("tick") /\ UNCHANGED <<ep, link, inb, queue>>
       ELSE ep' = LinkDead /\ ctl' = [ctl EXCEPT !.backoff = FALSE] /\ Goes("tick") /\ UNCHANGED <<link, inb, queue>>
    /\ UNCHANGED sent

\* tick: a reopenable endpoint without an fd asks its factory, with a backoff
\* after each failure; a new connection starts with nothing received
FreshRx == <<>>
Tick ==
    /\ io.at = "tick" /\ Goes("select")
    /\ IF ep.fd # 0 \/ Fixed THEN UNCHANGED <<ep, ctl, inb>>
       ELSE IF ctl.backoff THEN ctl' = [ctl EXCEPT !.backoff = FALSE] /\ UNCHANGED <<ep, inb>>
       ELSE IF link.up THEN /\ ep' = [ep EXCEPT !.fd = link.gen, !.rx = FreshRx]
                            /\ inb' = [read |-> <<>>, given |-> <<>>] /\ UNCHANGED ctl
       ELSE ctl' = [ctl EXCEPT !.backoff = TRUE] /\ UNCHANGED <<ep, inb>>
    /\ UNCHANGED <<link, sent, queue>>

Thread == Select \/ WriteInflight \/ TakeNext \/ ReadInbound \/ Tick

-----------------------------------------------------------------------------
(* The peer and the kernel.                                                  *)

PeerReads == /\ link.up /\ link.room < Room /\ link' = [link EXCEPT !.room = Room]
             /\ UNCHANGED <<ep, io, ctl, sent, inb, queue>>

PeerSends ==
    /\ link.up /\ ep.fd = link.gen /\ link.next[1] <= MaxInbound
    /\ link' = [link EXCEPT !.rx = Append(@, link.next),
                            !.next = IF @[2] = 1 THEN <<@[1], 2>> ELSE <<@[1] + 1, 1>>]
    /\ UNCHANGED <<ep, io, ctl, sent, inb, queue>>

HangUp == /\ link.up /\ link.gen <= MaxDeaths /\ link' = [link EXCEPT !.up = FALSE]
          /\ UNCHANGED <<ep, io, ctl, sent, inb, queue>>

\* A new connection, where the peer goes on mid-frame or at its next frame
Reconnect ==
    /\ ~link.up /\ ~Fixed /\ ep.fd = 0
    /\ \E next \in {link.next, <<link.next[1] + 1, 1>>} :
         link' = [gen |-> link.gen + 1, up |-> TRUE, room |-> Room, tx |-> <<>>, rx |-> <<>>, next |-> next]
    /\ UNCHANGED <<ep, io, ctl, sent, inb, queue>>

Init ==
    /\ ep = [fd |-> 1, outbox |-> <<>>, inflight |-> <<>>, rx |-> <<>>, dropped |-> 0]
    /\ io = [at |-> "select", fd |-> 0, r |-> FALSE]
    /\ \E fixed \in BOOLEAN :
         ctl = [fixed |-> fixed, stop |-> FALSE, owner |-> "running", closed |-> 0, backoff |-> FALSE]
    /\ link = [gen |-> 1, up |-> TRUE, room |-> Room, tx |-> <<>>, rx |-> <<>>, next |-> <<1, 1>>]
    /\ sent = 0
    /\ inb = [read |-> <<>>, given |-> <<>>]
    /\ queue = [q |-> <<>>, popped |-> <<>>, dropped |-> 0, in |-> <<>>]

Next == Send \/ Stop \/ Joined \/ Consumer \/ Thread \/ PeerReads \/ PeerSends \/ HangUp \/ Reconnect
Spec == Init /\ [][Next]_vars
\* The daemon thread is scheduled, its select() times out, stop() waits for it
FairSpec == Spec /\ WF_vars(Thread) /\ WF_vars(Joined)

-----------------------------------------------------------------------------
(* What a connection carries, either way, is whole frames: the bytes written *)
(* on one fd are frames in the order sent, cut only at the end; and however  *)
(* its bytes were chunked, and whatever an earlier connection left half      *)
(* read, on_inbound was given exactly the frames this one brought. The       *)
(* filtered queue behind it loses none uncounted and reorders none.          *)
WholeFrames ==
    /\ \A i \in DOMAIN link.tx :
         /\ i % 2 = 0 => link.tx[i] = <<link.tx[i - 1][1], 2>>
         /\ i % 2 = 1 => link.tx[i][2] = 1 /\ (i > 1 => link.tx[i - 2][1] < link.tx[i][1])
    /\ ep.fd # 0 => inb.given = Extracted(inb.read).msgs /\ ep.rx = Extracted(inb.read).rest
    /\ LET out == queue.popped \o queue.q
       IN /\ Len(out) + queue.dropped = Len(queue.in)
          /\ \A i \in 1..(Len(out) - 1) : out[i] < out[i + 1]

(* on_closed is called at most once, only for a fixed link and only when its *)
(* connection is gone; the thread then leaves its loop, so stop() returns.   *)
ClosedOnce == ctl.closed <= 1 /\ (ctl.closed = 1 => Fixed /\ ~link.up /\ ctl.stop)

(* What every stop() comes to.                                               *)
StopReturned == ctl.owner # "joining"

(* A fixed link that is gone is reported to its owner, unless it is stopping.*)
DeathReported == Fixed /\ ~link.up ~> (ctl.closed = 1 \/ ctl.owner # "running")
=============================================================================
