------------------------------- MODULE Bridge -------------------------------
(***************************************************************************)
(* visio_schema.display.serve: BridgeManager.  One operator's connects and *)
(* disconnects, the reader thread and the endpoint thread each connect     *)
(* starts, and the callers that send a device a command and wait for its   *)
(* CommandResult, between them over two locks.                             *)
(*                                                                         *)
(* A connect is numbered, and the number stands for its stop event, its    *)
(* thread, its endpoint and its transcoding sink.                          *)
(***************************************************************************)
EXTENDS Integers, Sequences, FiniteSets

CONSTANTS
  Devices,      \* sources to connect to; their name is the serial they announce
  Replays,      \* those of them that are recordings (McapReaderEndpoint)
  Callers,      \* threads in send_command
  MaxConnects, MaxSwitches, MaxCommands, MaxRows, InboxDepth

VARIABLES
  mgr,      \* _stop (and _thread), _current, _endpoint, _video_sink, _error, _ended
  stops,    \* the stop events that are set
  reader,   \* each connect's _run: where it is, its source, what ended it
  link,     \* its endpoint, the commands it carried, the rows it brought in
  inbox,    \* what its reader thread has not taken yet
  status,   \* _StatusSink: the connects whose rows it counted, the serial
  ui,       \* the operator's request in progress
  call,     \* each caller of send_command
  pending,  \* _pending: the command_ids that have a waiter
  command_seq

vars == <<mgr, stops, reader, link, inbox, status, ui, call, pending, command_seq>>

Gens == 1..MaxConnects
NoOne == "none"
Started == {g \in Gens : reader[g].at # "none"}
Fail(why) == [ok |-> FALSE, why |-> why]

-----------------------------------------------------------------------------
\* The operator's side: connect, disconnect, shutdown, one at a time

(* _stop_current: forgets the running thread and sets its stop.            *)
Switch(to) ==
  /\ ui.at = "idle" /\ ui.done < MaxSwitches
  /\ to # NoOne => Cardinality(Started) < MaxConnects
  /\ ui' = [at |-> "joining", to |-> to, old |-> mgr.stop, done |-> ui.done + 1]
  /\ stops' = (stops \cup {mgr.stop}) \ {0}
  /\ mgr' = [mgr EXCEPT !.stop = 0]
  /\ UNCHANGED <<reader, link, inbox, status, call, pending, command_seq>>

(* thread.join(timeout=1.5): given up only while the reader is blocked     *)
(* opening its endpoint; a running one looks at its stop every 0.2 s.      *)
Join ==
  /\ ui.at = "joining"
  /\ ui.old # 0 => reader[ui.old].at \in {"over", "opening"}
  /\ ui' = [ui EXCEPT !.at = "failing"]
  /\ UNCHANGED <<mgr, stops, reader, link, inbox, status, call, pending, command_seq>>

(* _fail_pending; then the sink's and the status's reset, for a connect.   *)
FailPending ==
  /\ ui.at = "failing" /\ ui' = [ui EXCEPT !.at = "setting"]
  /\ call' = [c \in Callers |->
                IF call[c].cid \in pending
                THEN [call[c] EXCEPT !.answer = Fail("device disconnected")] ELSE call[c]]
  /\ pending' = {}
  /\ status' = IF ui.to = NoOne THEN status ELSE [rows |-> {}, serial |-> NoOne]
  /\ UNCHANGED <<mgr, stops, reader, link, inbox, command_seq>>

Set ==
  /\ ui.at = "setting" /\ ui' = [ui EXCEPT !.at = "idle"]
  /\ IF ui.to = NoOne
     THEN mgr' = [mgr EXCEPT !.current = NoOne, !.video = 0] /\ UNCHANGED reader
     ELSE LET g == Cardinality(Started) + 1
          IN /\ mgr' = [stop |-> g, current |-> ui.to, endpoint |-> mgr.endpoint, video |-> 0,
                        error |-> FALSE, ended |-> FALSE]
             /\ reader' = [reader EXCEPT ![g] = [at |-> "opening", dev |-> ui.to, cause |-> "none"]]
  /\ UNCHANGED <<stops, link, inbox, status, call, pending, command_seq>>

Operator == (\E to \in Devices \cup {NoOne} : Switch(to)) \/ Join \/ FailPending \/ Set

-----------------------------------------------------------------------------
\* The reader thread: _run

Ends(g, at, why) == reader' = [reader EXCEPT ![g] = [at |-> at, dev |-> @.dev, cause |-> why]]

(* _open_endpoint and ep.start, or its failure.                            *)
Open(g) ==
  /\ reader[g].at = "opening"
  /\ \/ /\ Ends(g, "check", "none")
        /\ link' = [link EXCEPT ![g].at = "up"] /\ UNCHANGED mgr
     \/ /\ Ends(g, "over", "error")
        /\ mgr' = IF mgr.stop = g THEN [mgr EXCEPT !.error = TRUE] ELSE mgr
        /\ UNCHANGED link
  /\ UNCHANGED <<stops, inbox, status, ui, call, pending, command_seq>>

(* Mutant: superseded only when nothing is connected.                     *)
SupersededIfNone(g) == mgr.stop = 0

(* A connect that was superseded while it opened closes what it opened.    *)
Superseded(g) == mgr.stop # g
Check(g) ==
  /\ reader[g].at = "check"
  /\ IF Superseded(g)
     THEN /\ reader' = [reader EXCEPT ![g].at = "over"]
          /\ link' = [link EXCEPT ![g].at = "stopped"] /\ UNCHANGED mgr
     ELSE /\ reader' = [reader EXCEPT ![g].at = "running"]
          /\ mgr' = [mgr EXCEPT !.endpoint = g, !.video = g] /\ UNCHANGED link
  /\ UNCHANGED <<stops, inbox, status, ui, call, pending, command_seq>>

(* A row goes to the sinks; a CommandResult to its waiter (_deliver_result,*)
(* which drops one that no caller waits for any more).                     *)
Pump(g) ==
  /\ reader[g].at = "running" /\ g \notin stops /\ inbox[g] # <<>>
  /\ inbox' = [inbox EXCEPT ![g] = Tail(@)]
  /\ status' = [status EXCEPT !.rows = @ \cup {g}]
  /\ LET cid == Head(inbox[g])
     IN /\ pending' = pending \ {cid}
        /\ call' = [c \in Callers |->
                      IF cid \in pending /\ call[c].cid = cid
                      THEN [call[c] EXCEPT !.answer = [ok |-> TRUE, why |-> reader[g].dev]]
                      ELSE call[c]]
  /\ UNCHANGED <<mgr, stops, reader, link, ui, command_seq>>

(* The source ends: stopped, at the end of a drained link, or by an error  *)
(* of a sink.                                                              *)
Leave(g) ==
  /\ reader[g].at = "running"
  /\ \E why \in {"stop", "end", "error"} :
       /\ why = "stop" => g \in stops
       /\ why = "end" => g \notin stops /\ inbox[g] = <<>> /\ link[g].at = "closed"
       /\ why = "error" => g \notin stops /\ inbox[g] # <<>>
       /\ Ends(g, "closing", why)
       /\ mgr' = CASE why = "end" /\ mgr.stop = g /\ g \notin stops -> [mgr EXCEPT !.ended = TRUE]
                   [] why = "error" /\ mgr.stop = g -> [mgr EXCEPT !.error = TRUE]
                   [] OTHER -> mgr
  /\ UNCHANGED <<stops, link, inbox, status, ui, call, pending, command_seq>>

Finish(g) ==
  /\ reader[g].at = "closing"
  /\ mgr' = IF mgr.endpoint = g THEN [mgr EXCEPT !.endpoint = 0] ELSE mgr
  /\ link' = [link EXCEPT ![g].at = "stopped"]
  /\ reader' = [reader EXCEPT ![g].at = "over"]
  /\ UNCHANGED <<stops, inbox, status, ui, call, pending, command_seq>>

Reader(g) == Open(g) \/ Check(g) \/ Pump(g) \/ Leave(g) \/ Finish(g)

-----------------------------------------------------------------------------
\* The endpoint's own thread: on_inbound and on_closed

(* An announce is noted before it is queued; a full inbox loses the row.   *)
Arrive(g) ==
  /\ link[g].at = "up"
  /\ \/ status' = [status EXCEPT !.serial = reader[g].dev] /\ UNCHANGED <<link, inbox>>
     \/ \E row \in link[g].carried \cup {0} :
          /\ row = 0 => link[g].rows < MaxRows
          /\ link' = [link EXCEPT ![g] = [at |-> "up", carried |-> @.carried \ {row},
                                          rows |-> @.rows + (IF row = 0 THEN 1 ELSE 0)]]
          /\ inbox' = IF Len(inbox[g]) < InboxDepth
                      THEN [inbox EXCEPT ![g] = Append(@, row)] ELSE inbox
          /\ UNCHANGED status
  /\ UNCHANGED <<mgr, stops, reader, ui, call, pending, command_seq>>

LinkCloses(g) ==
  /\ link[g].at = "up" /\ link' = [link EXCEPT ![g].at = "closed"]
  /\ UNCHANGED <<mgr, stops, reader, inbox, status, ui, call, pending, command_seq>>

-----------------------------------------------------------------------------
\* send_command

Returns(c, answer) == call' = [call EXCEPT ![c] = [@ EXCEPT !.at = "idle", !.answer = answer]]

(* The endpoint is read under _lock and used after it is released.         *)
ReadEndpoint(c) ==
  /\ call[c].at = "idle" /\ call[c].n < MaxCommands
  /\ LET g == mgr.endpoint
         asked(at, why) == [at |-> at, ep |-> g, cid |-> 0, n |-> call[c].n + 1, answer |-> Fail(why)]
     IN call' = [call EXCEPT ![c] =
          IF g = 0 THEN asked("idle", "no device connected")
          ELSE IF reader[g].dev \in Replays THEN asked("idle", "replay has no device")
          ELSE asked("register", "")]
  /\ UNCHANGED <<mgr, stops, reader, link, inbox, status, ui, pending, command_seq>>

(* A fresh command_id; they are numbered across callers and connects.      *)
Register(c) ==
  /\ call[c].at = "register"
  /\ command_seq' = command_seq + 1
  /\ call' = [call EXCEPT ![c] = [@ EXCEPT !.at = "send", !.cid = command_seq + 1]]
  /\ pending' = pending \cup {command_seq + 1}
  /\ UNCHANGED <<mgr, stops, reader, link, inbox, status, ui>>

(* What a link that is down does with a frame is its own: it may refuse it *)
(* or swallow it.                                                          *)
Send(c) ==
  /\ call[c].at = "send"
  /\ LET g == call[c].ep
     IN \/ /\ link[g].at = "up"
           /\ link' = [link EXCEPT ![g].carried = @ \cup {call[c].cid}]
           /\ call' = [call EXCEPT ![c].at = "wait"] /\ UNCHANGED pending
        \/ /\ link[g].at # "up" /\ call' = [call EXCEPT ![c].at = "wait"]
           /\ UNCHANGED <<link, pending>>
        \/ /\ link[g].at # "up" /\ pending' = pending \ {call[c].cid}
           /\ Returns(c, Fail("send failed")) /\ UNCHANGED link
  /\ UNCHANGED <<mgr, stops, reader, inbox, status, ui, command_seq>>

(* slot["event"] is set by whoever takes the id out of _pending.           *)
Answered(c) == call[c].cid # 0 /\ call[c].answer.why # ""
Wait(c) ==
  /\ call[c].at = "wait"
  /\ IF Answered(c) THEN Returns(c, call[c].answer) /\ UNCHANGED pending
     ELSE /\ pending' = pending \ {call[c].cid}
          /\ Returns(c, Fail("timed out"))
  /\ UNCHANGED <<mgr, stops, reader, link, inbox, status, ui, command_seq>>

Command(c) == ReadEndpoint(c) \/ Register(c) \/ Send(c) \/ Wait(c)

-----------------------------------------------------------------------------
Init ==
  /\ mgr = [stop |-> 0, current |-> NoOne, endpoint |-> 0, video |-> 0,
            error |-> FALSE, ended |-> FALSE]
  /\ stops = {}
  /\ reader = [g \in Gens |-> [at |-> "none", dev |-> NoOne, cause |-> "none"]]
  /\ link = [g \in Gens |-> [at |-> "none", carried |-> {}, rows |-> 0]]
  /\ inbox = [g \in Gens |-> <<>>]
  /\ status = [rows |-> {}, serial |-> NoOne]
  /\ ui = [at |-> "idle", to |-> NoOne, old |-> 0, done |-> 0]
  /\ call = [c \in Callers |-> [at |-> "idle", ep |-> 0, cid |-> 0, n |-> 0, answer |-> Fail("")]]
  /\ pending = {} /\ command_seq = 0

Next ==
  \/ Operator
  \/ \E g \in Gens : Reader(g) \/ Arrive(g) \/ LinkCloses(g)
  \/ \E c \in Callers : Command(c)

Spec == Init /\ [][Next]_vars

(* BridgeManager.status(), its state.                                      *)
State ==
  CASE mgr.current = NoOne -> "idle"
    [] mgr.current # NoOne /\ mgr.error -> "error"
    [] mgr.current # NoOne /\ ~mgr.error /\ mgr.ended -> "ended"
    [] mgr.current # NoOne /\ ~mgr.error /\ ~mgr.ended ->
         IF status.rows # {} THEN "streaming" ELSE "connecting"

-----------------------------------------------------------------------------
(* What is shown and commanded is the source that was connected last:      *)
(* between requests the endpoint commands go to, the transcoder and the    *)
(* rows are of the newest connect, and "ended" and "error" are what ended  *)
(* that one (_run's checks that it was not superseded).                    *)
ShownIsConnected ==
  ui.at = "idle" =>
    /\ {mgr.endpoint, mgr.video} \subseteq {0, mgr.stop}
    /\ mgr.endpoint # 0 => reader[mgr.endpoint].dev = mgr.current
    /\ State = "streaming" => status.rows = {mgr.stop}
    /\ State = "ended" => reader[mgr.stop].cause = "end"
    /\ State = "error" => reader[mgr.stop].cause = "error"

(* A command's ok is the answer of the device whose endpoint it was sent   *)
(* on, and no id is left waiting without a caller (send_command's pops,    *)
(* _fail_pending, _deliver_result).                                        *)
AnswersMatch ==
  /\ \A c \in Callers : call[c].answer.ok => call[c].answer.why = reader[call[c].ep].dev
  /\ pending \subseteq {call[c].cid : c \in {d \in Callers : call[d].at \in {"send", "wait"}}}
  /\ \A c, d \in Callers : c # d /\ call[c].cid = call[d].cid => call[c].cid = 0

(* What a switch, every connect but the newest with its reader and its     *)
(* link, and a command's caller come to.                                   *)
Switched == ui.at = "idle"
LetGo(g) == g \in stops => reader[g].at = "over" /\ link[g].at # "up"
CallOver(c) == call[c].at = "idle"

(* The serial a sealed key change is scoped to is the connected unit's     *)
(* (current_serial: "it has to be the same string the firmware checks it   *)
(* against").                                                              *)
SerialIsConnected ==
  mgr.current # NoOne /\ ui.at = "idle" => status.serial \in {NoOne, mgr.current}

FairSpec ==
  /\ Spec
  /\ WF_vars(Join \/ FailPending \/ Set)
  /\ \A g \in Gens : WF_vars(Reader(g))
  /\ \A c \in Callers : WF_vars(Register(c) \/ Send(c) \/ Wait(c))
=============================================================================
