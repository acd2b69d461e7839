-------------------------------- MODULE Diag --------------------------------
(***************************************************************************)
(* visio_schema.wire.diag and visio_schema.diag: listing and reading files *)
(* off a device's diagnostic channel over a link that loses replies, and   *)
(* the log such a file holds, parsed and grouped by run of the device.     *)
(* The device, its link and the files on the host are external.            *)
(***************************************************************************)
EXTENDS Integers, Sequences

CONSTANTS
  FileChunks,   \* chunks in the file: each read asks for all of it
  MaxReads,     \* bound: requests one after another on one link
  MaxFaults     \* bound: replies lost

VARIABLES
  rd,       \* read_file or list_files: what is wanted, at, session, out (the chunks taken)
  device,   \* the device: the session and request it serves, its next chunk
  wire,     \* replies in flight
  faults    \* losses left

vars == <<rd, device, wire, faults>>

Chunk(session, at) == [session |-> session, kind |-> "chunk", at |-> at, last |-> at = FileChunks - 1]
Reply(session, kind) == [session |-> session, kind |-> kind, at |-> 0, last |-> FALSE]
Quiet == [session |-> 0, want |-> "nothing", next |-> 0]

-----------------------------------------------------------------------------
(* A request: next_session_id, so a reply of an earlier read is not this   *)
(* one's.  The device starts over with the newest request.                 *)
Request(want) ==
  /\ rd.at # "reading" /\ rd.session < MaxReads
  /\ rd' = [want |-> want, at |-> "reading", session |-> rd.session + 1, out |-> <<>>]
  /\ device' = [session |-> rd.session + 1, want |-> want, next |-> 0]
  /\ UNCHANGED <<wire, faults>>

Mine(r) == r.session = rd.session      \* _replies passes over the others

Take(verdict, out) ==
  /\ rd.at = "reading" /\ wire' = Tail(wire)
  /\ rd' = [rd EXCEPT !.at = verdict, !.out = out]
  /\ UNCHANGED faults

SomeoneElses(r) == ~Mine(r) /\ Take("reading", rd.out) /\ UNCHANGED device
NextChunk(r) ==
  /\ Mine(r) /\ r.kind = "chunk" /\ r.at = Len(rd.out)
  /\ Take(IF r.last THEN "returned" ELSE "reading", Append(rd.out, r.at))
  /\ UNCHANGED device
(* A chunk that is not the next byte: abort and report a gap.              *)
Gap(r) ==
  /\ Mine(r) /\ r.kind = "chunk" /\ r.at # Len(rd.out)
  /\ Take("gap", rd.out) /\ device' = Quiet
(* DONE ends a read with the bytes so far.                                 *)
Finished(r) ==
  Mine(r) /\ r.kind = "DONE" /\ Take("returned", rd.out) /\ UNCHANGED device
Declined(r) ==
  Mine(r) /\ r.kind = "FAILED" /\ Take("failed", rd.out) /\ UNCHANGED device
(* list_files returns the first listing; a status that is no failure is    *)
(* passed over.                                                            *)
Listed(r) ==
  Mine(r) /\ r.kind = "listing" /\ Take("returned", rd.out) /\ UNCHANGED device
(* _replies: the device has been quiet for the whole timeout.              *)
Timeout ==
  /\ rd.at = "reading" /\ wire = <<>> /\ rd' = [rd EXCEPT !.at = "timeout"]
  /\ UNCHANGED <<device, wire, faults>>

Host ==
  \/ Request("read") \/ Request("list") \/ Timeout
  \/ /\ wire # <<>>
     /\ LET r == Head(wire)
        IN SomeoneElses(r) \/ NextChunk(r) \/ Gap(r) \/ Finished(r) \/ Declined(r) \/ Listed(r)

(* The device streams its chunks and then a trailing DONE, answers with    *)
(* its catalogue, or fails.                                                *)
DeviceSends ==
  /\ device.session > 0
  /\ \/ /\ device.want = "read" /\ device.next < FileChunks
        /\ wire' = Append(wire, Chunk(device.session, device.next))
        /\ device' = [device EXCEPT !.next = @ + 1]
     \/ /\ device.want = "read" /\ device.next = FileChunks
        /\ wire' = Append(wire, Reply(device.session, "DONE"))
        /\ device' = Quiet
     \/ /\ wire' = Append(wire, Reply(device.session,
                            IF device.want = "list" THEN "listing" ELSE "FAILED"))
        /\ device' = Quiet
  /\ UNCHANGED <<rd, faults>>

Loses ==
  /\ faults > 0 /\ faults' = faults - 1
  /\ \E i \in 1..Len(wire) :
       wire' = SubSeq(wire, 1, i - 1) \o SubSeq(wire, i + 1, Len(wire))
  /\ UNCHANGED <<rd, device>>

Init ==
  /\ rd = [want |-> "nothing", at |-> "idle", session |-> 0, out |-> <<>>]
  /\ device = Quiet
  /\ wire = <<>> /\ faults = MaxFaults

Next == Host \/ DeviceSends \/ Loses
Spec == Init /\ [][Next]_vars /\ WF_vars(Host)

-----------------------------------------------------------------------------
(* What a read returns is a run of the file from its first byte, in order  *)
(* and with no hole in it, whatever earlier requests left on the link and  *)
(* whatever was lost (read_file's expect); and nothing of an earlier       *)
(* request ends this one: a short read had a reply lost, it was never cut  *)
(* by a stale DONE (_replies and its session ids).                         *)
ReadUnspliced ==
  rd.at = "returned" /\ rd.want = "read" =>
    /\ rd.out = [i \in 1..Len(rd.out) |-> i - 1]
    /\ Len(rd.out) < FileChunks => faults < MaxFaults

(* wire/diag.py, read_file: a gap is a protocol failure, not something to  *)
(* paper over.  DONE is taken for the end wherever it comes.               *)
ReadWhole == rd.at = "returned" /\ rd.want = "read" => Len(rd.out) = FileChunks

(* What a request comes to: its last chunk, a DONE, a listing, a refusal   *)
(* or silence.                                                             *)
RequestOver == rd.at # "reading"

-----------------------------------------------------------------------------
\* The log

(* parse_line: a stamp is both fields or neither, and a real date; a line  *)
(* that does not fit is kept, unparsed, and has no tag.                    *)
Unparsed(l) == [parsed |-> FALSE, wall |-> FALSE, mono |-> 0, tag |-> "None", raw |-> l]
ParseLine(l) ==
  IF l.stamp \notin {"set", "unset"} THEN Unparsed(l)
  ELSE [parsed |-> TRUE, wall |-> l.stamp = "set", mono |-> l.mono, tag |-> l.tag, raw |-> l]

(* Mutant: only the line just before is compared.                          *)
LastMonoOfNeighbour(records) ==
  IF records = <<>> THEN -1 ELSE records[Len(records)].mono

(* split_boots: a run starts on a BOOT line or when the clock goes back.   *)
LastMono(records) ==
  LET parsed == {i \in DOMAIN records : records[i].parsed}
  IN IF parsed = {} THEN -1
     ELSE records[CHOOSE i \in parsed : \A j \in parsed : j <= i].mono
SplitBoots(records) ==
  LET Starts(i) == LET r == records[i] IN
        \/ i = 1 \/ r.tag = "BOOT"
        \/ r.parsed /\ r.mono < LastMono(SubSeq(records, 1, i - 1))
      split[i \in 0..Len(records)] ==
        IF i = 0 THEN <<>>
        ELSE IF Starts(i) THEN Append(split[i - 1], <<records[i]>>)
        ELSE LET runs == split[i - 1]
             IN [runs EXCEPT ![Len(runs)] = Append(@, records[i])]
  IN split[Len(records)]

(* resolve_diag_key: the first place that has a key decides, and a key     *)
(* that does not parse is an error there, not a reason to look further.    *)
KeyPlaces == <<"argument", "env", "env_file", "config_file">>
ResolveDiagKey(keys) ==
  LET found == {i \in 1..4 : keys[KeyPlaces[i]] # "none"}
  IN IF found = {} THEN "none"
     ELSE keys[KeyPlaces[CHOOSE i \in found : \A j \in found : i <= j]]

(* iter_records: plain text needs no key; empty lines are left out.        *)
IterRecords(encrypted, keys, lines) ==
  LET key == ResolveDiagKey(keys)
      kept == SelectSeq(lines, LAMBDA l : l.stamp # "empty")
  IN IF encrypted /\ key # "right"
     THEN [error |-> IF key = "none" THEN "RecordingKeyUnavailable" ELSE "ValueError",
           records |-> <<>>]
     ELSE [error |-> "", records |-> [i \in DOMAIN kept |-> ParseLine(kept[i])]]

(* split_boots loses no line of the log and keeps the order; in a run the  *)
(* clock never goes back and no banner stands but at the head; and a log   *)
(* that cannot be opened is an error, never an empty log.                  *)
Flat(runs) ==
  LET f[i \in 0..Len(runs)] == IF i = 0 THEN <<>> ELSE f[i - 1] \o runs[i]
  IN f[Len(runs)]
RunsWholeFor(encrypted, keys, lines) ==
  LET read == IterRecords(encrypted, keys, lines)
      runs == SplitBoots(read.records)
  IN /\ read.error = "" => \A i \in DOMAIN lines :
          lines[i].stamp # "empty" => \E r \in DOMAIN read.records : read.records[r].raw = lines[i]
     /\ encrypted /\ (\A p \in DOMAIN keys : keys[p] = "none") => read.error # ""
     /\ Flat(runs) = read.records
     /\ \A k \in DOMAIN runs : \A i, j \in DOMAIN runs[k] :
          LET a == runs[k][i]   b == runs[k][j]
          IN i < j => /\ a.parsed /\ b.parsed => a.mono <= b.mono
                      /\ b.tag # "BOOT"
=============================================================================
