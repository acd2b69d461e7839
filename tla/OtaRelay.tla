------------------------------ MODULE OtaRelay ------------------------------
(***************************************************************************)
(* visio_schema.wire.ota: relay, the host side of a firmware update, with  *)
(* the lossy link and the device it talks to (both external).              *)
(*                                                                         *)
(* The image is Total units long and a chunk is a number of units.  Time   *)
(* is three timers, each capped one past the bound it is compared with.     *)
(* One step of the streaming loop is one iteration of the code's while.    *)
(***************************************************************************)
EXTENDS Integers, Sequences

CONSTANTS
  Total, Window,            \* len(image), window
  Want, Cap,                \* chunk and chunk_cap (0: no cap)
  MinChunk, MaxChunk,       \* MIN_CHUNK_BYTES, MAX_CHUNK_BYTES
  Adverts,                  \* what devices may say in max_chunk_bytes
  QueryWait, StallTimeout, SoftRetry, CommitWait, Deadline,
  MaxResumes,               \* max_resumes
  MaxFaults                 \* bound: frames lost and statuses nobody asked for

VARIABLES
  pc, quieted, commit, chunk, smallest,
  st,            \* the folded statuses: acked, staged, succeeded, failed, resume_to
  cursor, last_ack, resumes, committed,
  outcome,       \* the Outcome, or None
  timers,        \* ages of t_start (or of a wait's start), last_progress, last_soft
  down, up,      \* frames in flight: to the device, to the host
  link, policy,  \* the link is up; the device drops QUIESCE_RULES on it
  dev,           \* the device: phase, contiguous bytes held, how it takes a begin
  faults,        \* faults left to the link and to the other senders on it
  restore_lost   \* history: the link lost the frame that puts it back

setup == <<quieted, commit, chunk, smallest>>
moves == <<cursor, last_ack, resumes, committed>>
host  == <<pc, setup, st, moves, outcome, timers>>
medium == <<dev, faults, restore_lost>>
net   == <<down, up, link, policy, medium>>
vars == <<host, net>>

None == -1
Mine == 1         \* session_id of this relay
Foreign == 2      \* of another transfer, or RIG_TERMINAL_SESSION
Unset == 0
Least(a, b) == IF a < b THEN a ELSE b
Most(a, b)  == IF a > b THEN a ELSE b

Status(state, session, bytes) ==
  [state |-> state, session |-> session, bytes |-> bytes, advert |-> 0, code |-> ""]
Message(kind, offset, n) == [kind |-> kind, offset |-> offset, n |-> n]

-----------------------------------------------------------------------------
\* relay's fold and pump

Done(s) == s.staged \/ s.succeeded
(* Mutant: the session of a status is not looked at.                       *)
NotOursNever(s) == FALSE

NotOurs(s) == s.session # Unset /\ s.session # Mine
(* The last in-flight chunks bounce off a device that is rebooting. *)
Bounced(s, x) == Done(s) /\ x.code \in {"", "no_session"}

Fold(s, x) ==
  IF NotOurs(x) THEN s
  ELSE CASE x.state = "STAGED" ->
              [s EXCEPT !.staged = TRUE, !.acked = Most(@, x.bytes)]
         [] x.state = "SUCCESS" -> [s EXCEPT !.succeeded = TRUE]
         [] x.state = "NEEDS_RESUME" ->
              IF Done(s) THEN s ELSE [s EXCEPT !.resume_to = x.bytes]
         [] x.state = "FAILED" -> IF Bounced(s, x) THEN s ELSE [s EXCEPT !.failed = TRUE]
         [] OTHER -> [s EXCEPT !.acked = Most(@, x.bytes)]

(* Every status available now, in order. *)
Pumped(s) ==
  LET after[i \in 0..Len(up)] == IF i = 0 THEN s ELSE Fold(after[i - 1], up[i])
  IN after[Len(up)]

(* negotiate_chunk: the smallest advert wins, within the device's bounds;  *)
(* the link's cap is applied last and to everything.                       *)
Negotiated(least) ==
  LET out == IF least = 0 THEN Want
             ELSE Most(MinChunk, Least(least, MaxChunk))
  IN IF Cap = 0 THEN out ELSE Least(out, Cap)

SmallerAdvert(least, x) ==
  IF NotOurs(x) \/ x.advert = 0 THEN least
  ELSE IF least = 0 THEN x.advert ELSE Least(least, x.advert)

-----------------------------------------------------------------------------
\* The relay

Outcome(ok, reason) == [ok |-> ok, reason |-> reason]

Send(m) == link /\ down' = Append(down, m)
(* abort is best effort: a link that is gone swallows it. *)
Aborted(sent) == IF link THEN Append(sent, Message("abort", 0, 0)) ELSE sent
(* Mutant: a quieted link is not put back.                                 *)
RestoredNever(sent) == sent
(* So is quiesce(False), whose answer nobody looks at: a frame like others. *)
Restored(sent) == IF quieted /\ link THEN Append(sent, Message("unquiet", 0, 0)) ELSE sent

(* Every exit runs the finally, after what was sent: a link whose quiesce   *)
(* was acked is told to go back.                                            *)
Exit(ok, reason, sent) ==
  /\ pc' = "done" /\ outcome' = Outcome(ok, reason)
  /\ down' = Restored(sent)

StartTimers == timers' = [all |-> 0, progress |-> 0, soft |-> 0]

(* quiesce(True): the device applies it and its ack comes back, or not. *)
Quiesce ==
  /\ pc = "quiesce" /\ link
  /\ \E applied, acked \in BOOLEAN :
       /\ acked => applied
       /\ policy' = applied /\ quieted' = acked
  /\ pc' = "query"
  /\ UNCHANGED <<commit, chunk, smallest, st, moves, outcome, timers, down, up, link, medium>>

Query ==
  /\ pc = "query" /\ Send(Message("query", 0, 0))
  /\ pc' = "negotiate" /\ StartTimers
  /\ UNCHANGED <<setup, st, moves, outcome, up, link, policy, medium>>

Negotiate ==
  /\ pc = "negotiate"
  /\ IF timers.all >= QueryWait
     THEN /\ chunk' = Negotiated(smallest) /\ pc' = "begin"
          /\ UNCHANGED <<smallest, up>>
     ELSE /\ up # <<>> /\ up' = Tail(up)
          /\ smallest' = SmallerAdvert(smallest, Head(up))
          /\ UNCHANGED <<pc, chunk>>
  /\ UNCHANGED <<quieted, commit, st, moves, outcome, timers, down, link, policy, medium>>

Begin ==
  /\ pc = "begin" /\ Send(Message("begin", 0, 0))
  /\ pc' = "begun" /\ StartTimers
  /\ UNCHANGED <<setup, st, moves, outcome, up, link, policy, medium>>

(* The one read before streaming. *)
ReadOnce ==
  /\ pc = "begun" /\ pc' = "stream"
  /\ st' = Pumped(st) /\ up' = <<>>
  /\ UNCHANGED <<setup, moves, outcome, timers, down, link, policy, medium>>

Streaming == pc = "stream" /\ ~st.failed /\ ~Done(st)

DeadlinePassed ==
  /\ Streaming /\ timers.all > Deadline
  /\ Exit(FALSE, "FAIL_DEADLINE", Aborted(down))
  /\ UNCHANGED <<setup, st, moves, timers, up, link, policy, medium>>

(* A gap: rewind and resend; the stall clock is not reset. *)
Rewind ==
  /\ Streaming /\ timers.all <= Deadline /\ st.resume_to # None
  /\ resumes' = resumes + 1
  /\ IF resumes' > MaxResumes
     THEN /\ Exit(FALSE, "FAIL_TOO_LOSSY", Aborted(down))
          /\ UNCHANGED <<cursor, st>>
     ELSE /\ cursor' = st.resume_to /\ st' = [st EXCEPT !.resume_to = None]
          /\ UNCHANGED <<pc, outcome, down>>
  /\ UNCHANGED <<setup, last_ack, committed, timers, up, link, policy, medium>>

(* What an iteration does once it has sent or waited: note progress, give  *)
(* up on a stall, or re-drive a quiet tail from the acked byte.            *)
AfterPump(s, c, sent) ==
  LET quiet  == timers.soft > SoftRetry /\ s.resume_to = None /\ c > s.acked
      moved  == s.acked > last_ack
      stalls == ~moved /\ timers.progress > StallTimeout
      redrive == ~moved /\ ~stalls /\ quiet
  IN /\ last_ack' = Most(last_ack, s.acked)
     /\ st' = IF redrive THEN [s EXCEPT !.resume_to = s.acked] ELSE s
     /\ timers' = IF moved THEN [timers EXCEPT !.progress = 0, !.soft = 0]
                  ELSE IF redrive THEN [timers EXCEPT !.soft = 0] ELSE timers
     /\ IF stalls THEN Exit(FALSE, "FAIL_STALLED", Aborted(sent))
        ELSE down' = sent /\ UNCHANGED <<pc, outcome>>

Size == Least(chunk, Total - cursor)
HasCredit == cursor < Total /\ (cursor - st.acked) + Size <= Window
AllAcked == cursor >= Total /\ st.acked >= Total

SendChunk ==
  /\ Streaming /\ timers.all <= Deadline /\ st.resume_to = None /\ HasCredit /\ link
  /\ cursor' = cursor + Size
  /\ up' = <<>> /\ AfterPump(Pumped(st), cursor', Append(down, Message("chunk", cursor, Size)))
  /\ UNCHANGED <<setup, resumes, committed, link, policy, medium>>

Wait ==
  /\ Streaming /\ timers.all <= Deadline /\ st.resume_to = None
  /\ ~HasCredit /\ ~AllAcked
  /\ up' = <<>> /\ AfterPump(Pumped(st), cursor, down)
  /\ UNCHANGED <<setup, cursor, resumes, committed, link, policy, medium>>

(* The loop is left: every byte acked, or the device ended it first. *)
Leaves ==
  /\ pc = "stream"
  /\ \/ ~Streaming
     \/ AllAcked /\ timers.all <= Deadline /\ st.resume_to = None
FoldedFailure ==
  /\ \/ Leaves /\ st.failed
     \/ pc = "confirm" /\ st.failed
  /\ Exit(FALSE, "FAIL_DEVICE", down)
  /\ UNCHANGED <<setup, st, moves, timers, up, link, policy, medium>>
NoTransferNeeded ==
  /\ Leaves /\ ~st.failed /\ st.staged
  /\ Exit(TRUE, "OK_STAGED_NO_TRANSFER", down)
  /\ UNCHANGED <<setup, st, moves, timers, up, link, policy, medium>>
UploadOnly ==
  /\ Leaves /\ ~st.failed /\ ~st.staged /\ ~commit
  /\ Exit(TRUE, "OK_UPLOAD_ONLY", Aborted(down))
  /\ UNCHANGED <<setup, st, moves, timers, up, link, policy, medium>>
Commit ==
  /\ Leaves /\ ~st.failed /\ ~st.staged /\ commit
  /\ Send(Message("commit", 0, 0)) /\ committed' = TRUE
  /\ pc' = "confirm" /\ timers' = [timers EXCEPT !.all = 0]
  /\ UNCHANGED <<setup, st, cursor, last_ack, resumes, outcome, up, link, policy, medium>>

Confirming == pc = "confirm" /\ ~Done(st) /\ ~st.failed
AwaitVerdict ==
  /\ Confirming /\ timers.all < CommitWait /\ up # <<>>
  /\ st' = Pumped(st) /\ up' = <<>>
  /\ UNCHANGED <<pc, setup, moves, outcome, timers, down, link, policy, medium>>
Verdict ==
  /\ pc = "confirm" /\ ~st.failed /\ (Done(st) \/ timers.all >= CommitWait)
  /\ Exit(TRUE, IF st.succeeded THEN "OK_SUCCESS"
                ELSE IF st.staged THEN "OK_STAGED" ELSE "OK_COMMITTED_UNCONFIRMED", down)
  /\ UNCHANGED <<setup, st, moves, timers, up, link, policy, medium>>

(* send or recv raises OSError, wherever the relay is. *)
LinkError ==
  /\ pc # "done" /\ ~link
  /\ Exit(st.staged \/ committed,
          IF st.staged \/ committed THEN "OK_LINK_AFTER_COMMIT" ELSE "FAIL_LINK_DROPPED", down)
  /\ UNCHANGED <<setup, st, moves, timers, up, link, policy, medium>>

Relay ==
  \/ Quiesce \/ Query \/ Negotiate \/ Begin \/ ReadOnce
  \/ DeadlinePassed \/ Rewind \/ SendChunk \/ Wait
  \/ FoldedFailure \/ NoTransferNeeded \/ UploadOnly \/ Commit
  \/ AwaitVerdict \/ Verdict \/ LinkError

-----------------------------------------------------------------------------
\* The clock, the link and the device

(* Time passes while the relay waits in recv for a status. *)
Waiting ==
  \/ pc = "negotiate" \/ Confirming
  \/ Streaming /\ st.resume_to = None /\ ~HasCredit /\ ~AllAcked
Tick ==
  /\ link /\ Waiting /\ up = <<>>
  /\ timers' = [all |-> Least(timers.all + 1, Deadline + 1),
                progress |-> Least(timers.progress + 1, StallTimeout + 1),
                soft |-> Least(timers.soft + 1, SoftRetry + 1)]
  /\ UNCHANGED <<pc, setup, st, moves, outcome, net>>

(* The device drops a link's policy with the connection. *)
LinkDrops ==
  /\ link /\ link' = FALSE /\ policy' = FALSE
  /\ UNCHANGED <<host, down, up, medium>>

Loses ==
  /\ link /\ faults > 0 /\ faults' = faults - 1
  /\ \/ /\ down # <<>> /\ down' = Tail(down) /\ UNCHANGED up
        /\ restore_lost' = (restore_lost \/ Head(down).kind = "unquiet")
     \/ pc # "done" /\ up # <<>> /\ up' = Tail(up) /\ UNCHANGED <<down, restore_lost>>
  /\ UNCHANGED <<host, link, policy, dev>>

(* A rig's verdict, another relay's progress, the periodic no-session IDLE. *)
Noise ==
  /\ pc \in {"begun", "stream", "confirm"} /\ link /\ faults > 0 /\ faults' = faults - 1
  /\ \E s \in {Status("SUCCESS", Foreign, 0), Status("RECEIVING", Foreign, Total),
               Status("IDLE", Unset, 0)} :
       up' = Append(up, s)
  /\ UNCHANGED <<host, down, link, policy, dev, restore_lost>>

Receives(kind) == link /\ down # <<>> /\ Head(down).kind = kind /\ down' = Tail(down)
Says(s) == up' = Append(up, s)
Says2(state, bytes) == Says(Status(state, Mine, bytes))

DeviceQuery ==
  /\ Receives("query")
  /\ \E a \in Adverts : Says([Status("IDLE", Unset, 0) EXCEPT !.advert = a])
  /\ UNCHANGED <<host, link, policy, medium>>

DeviceBegin ==
  /\ Receives("begin")
  /\ CASE dev.takes = "runs it"  -> Says2("SUCCESS", 0) /\ UNCHANGED dev
       [] dev.takes = "reverts"  -> Says2("STAGED", 0) /\ dev' = [dev EXCEPT !.phase = "staged"]
       [] dev.takes = "refuses"  -> Says2("FAILED", 0) /\ UNCHANGED dev
       [] OTHER -> Says2("RECEIVING", 0) /\ dev' = [dev EXCEPT !.phase = "receiving"]
  /\ UNCHANGED <<host, link, policy, faults, restore_lost>>

DeviceChunk ==
  /\ Receives("chunk")
  /\ LET m == Head(down) IN
     IF dev.phase # "receiving"
     THEN Says([Status("FAILED", Mine, 0) EXCEPT !.code = "no_session"]) /\ UNCHANGED dev
     ELSE IF m.offset > dev.got THEN Says2("NEEDS_RESUME", dev.got) /\ UNCHANGED dev
     ELSE /\ dev' = [dev EXCEPT !.got = Most(@, m.offset + m.n)]
          /\ Says2("RECEIVING", dev'.got)
  /\ UNCHANGED <<host, link, policy, faults, restore_lost>>

DeviceCommit ==
  /\ Receives("commit")
  /\ IF dev.phase # "receiving"
     THEN Says([Status("FAILED", Mine, 0) EXCEPT !.code = "no_session"]) /\ UNCHANGED dev
     ELSE IF dev.got < Total THEN Says2("NEEDS_RESUME", dev.got) /\ UNCHANGED dev
     ELSE \/ Says2("STAGED", dev.got) /\ dev' = [dev EXCEPT !.phase = "staged"]
          \/ Says([Status("FAILED", Mine, 0) EXCEPT !.code = "verify_failed"])
             /\ dev' = [dev EXCEPT !.phase = "idle"]
  /\ UNCHANGED <<host, link, policy, faults, restore_lost>>

DeviceAbort ==
  /\ Receives("abort") /\ dev' = [dev EXCEPT !.phase = "idle"]
  /\ UNCHANGED <<host, up, link, policy, faults, restore_lost>>

DeviceUnquiet ==
  /\ Receives("unquiet") /\ policy' = FALSE
  /\ UNCHANGED <<host, up, link, medium>>

Device == DeviceQuery \/ DeviceBegin \/ DeviceChunk \/ DeviceCommit \/ DeviceAbort \/ DeviceUnquiet

Init ==
  /\ pc \in {"quiesce", "query"}      \* with or without the quiesce hook
  /\ quieted = FALSE /\ commit \in BOOLEAN /\ (commit => pc = "query")
  /\ chunk = Want /\ smallest = 0
  /\ st = [acked |-> 0, staged |-> FALSE, succeeded |-> FALSE, failed |-> FALSE,
           resume_to |-> None]
  /\ cursor = 0 /\ last_ack = 0 /\ resumes = 0 /\ committed = FALSE
  /\ outcome = Outcome(FALSE, "")
  /\ timers = [all |-> 0, progress |-> 0, soft |-> 0]
  /\ down = <<>> /\ up = <<>> /\ link = TRUE /\ policy = FALSE
  /\ dev \in [phase : {"idle"}, got : {0},
              takes : {"runs it", "reverts", "refuses", "image"}]
  /\ faults = MaxFaults /\ restore_lost = FALSE

Next == Relay \/ Tick \/ LinkDrops \/ Loses \/ Noise \/ Device

Fairness == WF_vars(Relay) /\ WF_vars(Tick) /\ WF_vars(Device)
Spec == Init /\ [][Next]_vars /\ Fairness

-----------------------------------------------------------------------------
(* The relay reports ok only for an image the device holds in full, or one *)
(* it said it needs no transfer for: never on a status of another session, *)
(* a rewind or an answer that was lost (relay's fold and exits).           *)
OkMeansHeld ==
  outcome.ok => \/ dev.got = Total
                \/ dev.takes \in {"runs it", "reverts"}

(* What is unacked never exceeds the window, through every rewind, and the *)
(* relay never believes in more bytes than the device holds without a gap. *)
WindowKept == cursor - st.acked <= Window /\ st.acked <= dev.got

(* A link whose quiesce was acked is not left dark: at every exit (the      *)
(* finally, after an abort too) the frame that puts it back is on its way,  *)
(* unless the device dropped the policy with the connection; only a link    *)
(* that loses that very frame stays dark, for nothing asks for its answer.  *)
(* Of a quiesce whose ack never came this says nothing: nobody undoes it.   *)
NotLeftDark ==
  pc = "done" /\ quieted /\ policy =>
    restore_lost \/ \E i \in DOMAIN down : down[i].kind = "unquiet"

RelaySafe == OkMeansHeld /\ WindowKept /\ NotLeftDark

(* What the relay comes to whatever the link and the device do: the query  *)
(* and the confirmation are timed, and the loop has a deadline.  A link it  *)
(* quieted is put back, or the frame that should have was lost.             *)
Returned == pc = "done" /\ (quieted => ~policy \/ restore_lost)

(* docs/protocol/ota.md: a sender must not commit before the device has    *)
(* acked every byte.                                                       *)
CommitOnlyWhenAcked == [][committed' # committed => st.acked >= Total]_vars
=============================================================================
