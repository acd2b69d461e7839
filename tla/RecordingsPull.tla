--------------------------- MODULE RecordingsPull ---------------------------
(***************************************************************************)
(* visio_schema.wire.recordings: pulling one recorded file off a device    *)
(* over a data socket that may close early, and listing its sessions.      *)
(* A byte is the version of the file it was read from; the device and its  *)
(* card are external.                                                      *)
(***************************************************************************)
EXTENDS Integers, Sequences

CONSTANTS
  Sizes,       \* sizes a file may have
  Versions,    \* object versions the file goes through while it is pulled
  MaxOpens,    \* MAX_OPENS_WITHOUT_PROGRESS
  Cursors      \* the pages of a listing, by cursor

VARIABLES
  file,     \* on the device: its version and size
  legacy,   \* the device reports no object version (0)
  name,     \* what the caller asked for
  pull,     \* pull_file: at, offset, expect, opened, idle_opens, first
  sunk,     \* what reached the sink: offset and version of each byte
  pages,    \* the device's next_cursor for each page
  list      \* list_all_recordings: at, cursor, seen, entries

vars == <<file, legacy, name, pull, sunk, pages, list>>

(* _check_name: an oversized or nested name fails the device's decode, so  *)
(* it is refused before anything is sent.                                  *)
Names == {"plain", "empty", "too long", "nested", "hidden"}
CheckName(n) == n = "plain"

Unchecked == [size |-> 0, version |-> 0]
Identity == [size |-> file.size, version |-> IF legacy THEN 0 ELSE file.version]
(* Mutant: only the size is pinned.                                        *)
MatchesSize(expect) == expect.size \in {0, Identity.size}

Matches(expect) ==
  /\ expect.size \in {0, Identity.size}
  /\ expect.version \in {0, Identity.version}

(* list_session_files: the session asked for and no other; its size and    *)
(* generation pin the pull that follows.                                   *)
ListSession ==
  /\ pull.at = "list"
  /\ \E page \in {"the session", "another", "none"} :
       pull' = IF ~CheckName(name) THEN [pull EXCEPT !.at = "ValueError"]
               ELSE IF page # "the session" THEN [pull EXCEPT !.at = "protocol"]
               ELSE [pull EXCEPT !.at = "open", !.expect = Identity]
  /\ UNCHANGED <<file, legacy, name, sunk, pages, list>>

(* open_recording_file: a name that cannot be sent, a device that refuses, *)
(* an answer for another offset or one that does not add up, or what is    *)
(* left of the file from the offset on.                                    *)
OpenRecordingFile ==
  IF ~CheckName(name) THEN {"ValueError"}
  ELSE IF ~Matches(pull.expect) THEN {"changed", "protocol"}
  ELSE IF pull.offset > file.size THEN {"protocol"} ELSE {"protocol", "opened"}

(* pull_file pins what the first open reported, for every open after it.   *)
Opens ==
  /\ pull.at = "open"
  /\ \E o \in OpenRecordingFile :
       pull' = IF o # "opened" THEN [pull EXCEPT !.at = o]
               ELSE [pull EXCEPT !.expect = Identity, !.opened = file,
                       !.at = IF pull.offset = file.size THEN "returned" ELSE "receive"]
  /\ UNCHANGED <<file, legacy, name, sunk, pages, list>>

(* receive, then pull_file's verdict on what arrived: done, open again at  *)
(* the bytes received, or give up after opens that delivered nothing.      *)
Receive(n) ==
  /\ pull.at = "receive" /\ n <= pull.opened.size - pull.offset
  /\ sunk' = sunk \o [i \in 1..n |-> <<pull.offset + i - 1, pull.opened.version>>]
  /\ LET idle == IF n > 0 THEN 0 ELSE pull.idle_opens + 1
     IN pull' = [pull EXCEPT
          !.offset = @ + n, !.idle_opens = idle,
          !.at = IF pull.offset + n = pull.opened.size THEN "returned"
                 ELSE IF idle >= MaxOpens THEN "no_progress" ELSE "open"]
  /\ UNCHANGED <<file, legacy, name, pages, list>>

(* A sink that fails stops the pull: a full disk is no reason to retry.    *)
SinkFails ==
  /\ pull.at = "receive" /\ pull' = [pull EXCEPT !.at = "sink error"]
  /\ UNCHANGED <<file, legacy, name, sunk, pages, list>>

(* The session is deleted and recorded again under the same name.          *)
Replace ==
  /\ file.version + 1 \in Versions
  /\ \E s \in Sizes : file' = [version |-> file.version + 1, size |-> s]
  /\ UNCHANGED <<legacy, name, pull, sunk, pages, list>>

(* list_all_recordings: one page; a cursor seen before does not advance.   *)
ListPage ==
  /\ list.at = "page"
  /\ LET next == pages[list.cursor] IN
     list' = [list EXCEPT
       !.entries = Append(@, list.cursor), !.seen = @ \cup {next}, !.cursor = next,
       !.at = IF next = "" THEN "returned" ELSE IF next \in list.seen THEN "protocol" ELSE @]
  /\ UNCHANGED <<file, legacy, name, pull, sunk, pages>>

Init ==
  /\ file \in [version : {1}, size : Sizes] /\ legacy \in BOOLEAN /\ name \in Names
  /\ \E start \in 0..file.size, first \in {"list", "open"} :
       pull = [at |-> first, offset |-> start, first |-> start, idle_opens |-> 0,
               opened |-> [version |-> 0, size |-> 0], expect |-> Unchecked]
  /\ sunk = <<>>
  /\ pages \in [Cursors \cup {"first"} -> Cursors \cup {""}]
  /\ list = [at |-> "page", cursor |-> "first", seen |-> {}, entries |-> <<>>]

Pulls == ListSession \/ Opens \/ (\E n \in 0..pull.opened.size : Receive(n)) \/ SinkFails
Next == Pulls \/ Replace \/ ListPage

Spec == Init /\ [][Next]_vars /\ WF_vars(Pulls) /\ WF_vars(ListPage)

-----------------------------------------------------------------------------
(* A file that changes between two opens is never spliced: what a pull     *)
(* returned is every byte from its first offset on, in order and of one    *)
(* version (pull_file pins the identity of its first open).  A device that *)
(* reports no version is told apart by size alone.                         *)
PulledWhole ==
  pull.at = "returned" =>
    /\ Len(sunk) = pull.opened.size - pull.first
    /\ \A i \in DOMAIN sunk : sunk[i][1] = pull.first + i - 1
    /\ ~legacy => \A i \in DOMAIN sunk : sunk[i][2] = pull.opened.version

(* A listing returns each page once, and only when the last was reached.   *)
ListedOnce ==
  /\ \A i, j \in DOMAIN list.entries : i # j => list.entries[i] # list.entries[j]
  /\ list.at = "returned" => pages[list.entries[Len(list.entries)]] = ""

(* What a pull and a listing come to, however often the device opens and   *)
(* delivers nothing or repeats a cursor (idle_opens, seen).                *)
PullOver == (pull.at \notin {"list", "open", "receive"} /\ list.at # "page")
=============================================================================
