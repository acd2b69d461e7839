----------------------------- MODULE HostProofs -----------------------------
(***************************************************************************)
(* What is proved of the host's components, for every value of the         *)
(* constants of MCHost: in the module TLC explores, of the component in    *)
(* focus.                                                                  *)
(***************************************************************************)
EXTENDS MCHost, FiniteSetTheorems, TLAPS

-----------------------------------------------------------------------------
(***************************************************************************)
(* The keyring (RecordingKeys).  Every ring a power loss may leave holds   *)
(* the keys remember_key wrote and settled, and the ring all those it      *)
(* wrote since the power last went; a program past Enter has the lock, and *)
(* what it read is still the ring; the console sends no change whose key   *)
(* it has not written; and a change that is out is of such a key, of one   *)
(* in a key file, or of one that a power loss could take.                  *)
(***************************************************************************)
AnyKey == Keys \cup {Elsewhere}
Rings == [keys : SUBSET AnyKey, ok : {TRUE}, synced : {TRUE}]
Changes ==
  [op : {"nothing", "set", "rotate", "clear"}, new : AnyKey \cup {"none"},
   old : AnyKey \cup {"none"}, devs : SUBSET Rigs]
Places == {"idle", "lock", "write", "replace", "sync", "send"}

KeyTypes ==
  /\ disk \in [ring : Rings, other : SUBSET Rings, tmp : Rings,
               files : SUBSET Keys, fresh : SUBSET Keys]
  /\ lock \in {"console", "qr", "none"}
  /\ prog \in [{"console", "qr"} ->
                 [at : Places, change : Changes, key : AnyKey \cup {"none"},
                  entries : SUBSET AnyKey]]
  /\ sealed \in SUBSET Changes /\ made \in SUBSET AnyKey
  /\ stored \in SUBSET AnyKey /\ durable \in SUBSET stored

HoldsLock ==
  \A p \in {"console", "qr"} :
    /\ lock = p <=> prog[p].at \in {"write", "replace", "sync"}
    /\ prog[p].at = "write" => prog[p].entries = disk.ring.keys
    /\ prog[p].at = "replace" =>
         disk.tmp.keys = disk.ring.keys \cup {prog[p].key}
    /\ prog[p].at = "sync" => prog[p].key \in disk.ring.keys
    /\ prog[p].at \in {"lock", "write", "replace", "sync"} => prog[p].key \in AnyKey
    /\ prog[p].at = "idle" => prog[p].key = "none"

Settled ==
  /\ \A r \in {disk.ring} \cup disk.other : durable \subseteq r.keys
  /\ stored \subseteq disk.ring.keys

SendsWhatItWrote ==
  /\ prog["qr"].change.new = "none"
  /\ prog["console"].change.new # "none" =>
       /\ prog["console"].key = prog["console"].change.new
       /\ prog["console"].at = "lock" =>
            prog["console"].key \notin disk.ring.keys \cup {prog["qr"].key}
       /\ prog["console"].at = "send" => prog["console"].key \in stored

Kept(k) == k \in stored \/ k \in disk.files \/ k \in exposed

Owned ==
  /\ \A c \in sealed : c.new # "none" => Kept(c.new)
  /\ \A k \in made \ {Elsewhere} : Kept(k)

KeysIInv == KeyTypes /\ HoldsLock /\ Settled /\ SendsWhatItWrote /\ Owned

(* No key kept, no lock held and nothing sealed.                           *)
LEMMA KeysInit == Ring!Init => KeysIInv
<1> SUFFICES ASSUME Ring!Init PROVE KeysIInv
  OBVIOUS
<1> USE DEF Ring!Init, Ring!Absent, Ring!Idle, Ring!Busy, Ring!Nothing, Ring!Change,
            Ring!Programs
<1>1. KeyTypes
  BY DEF KeyTypes, AnyKey, Rings, Changes, Places
<1>2. HoldsLock /\ Settled /\ SendsWhatItWrote /\ Owned
  BY DEF HoldsLock, Settled, SendsWhatItWrote, Owned
<1> QED BY <1>1, <1>2 DEF KeysIInv

(* Reading, sending and printing. *)
LEMMA ReadStateKeys ==
  ASSUME KeysIInv, NEW d \in Rigs, Ring!ReadState(d) PROVE KeysIInv'
BY DEF KeysIInv, KeyTypes, HoldsLock, Settled, SendsWhatItWrote, Owned, Kept,
       Ring!ReadState, Ring!returns

(* A change taken up by a program: the lock is sought before any of it is  *)
(* sent (remember_key).                                                    *)
LEMMA SealKeys ==
  ASSUME KeysIInv, NEW d \in Rigs, Ring!SealKeyChange(d) PROVE KeysIInv'
<1> USE KeysAssumption
<1>0. PICK op \in {"set", "rotate", "clear"}, to \in {{d}, Rigs},
           new \in Ring!Minted \cup {"none"} :
        \E old \in IF op = "set" THEN {"none"} ELSE Ring!ProofOfOwnership(d) :
          /\ (op = "clear") <=> (new = "none")
          /\ prog' = [prog EXCEPT !["console"] =
                        Ring!Busy(IF op = "clear" THEN "send" ELSE "lock",
                                  Ring!Change(op, new, old, to), new)]
  BY DEF Ring!SealKeyChange
<1>1. PICK old \in IF op = "set" THEN {"none"} ELSE Ring!ProofOfOwnership(d) :
        /\ (op = "clear") <=> (new = "none")
        /\ prog' = [prog EXCEPT !["console"] =
                      Ring!Busy(IF op = "clear" THEN "send" ELSE "lock",
                                Ring!Change(op, new, old, to), new)]
  BY <1>0
<1>2. UNCHANGED <<disk, lock, sealed, made, stored, durable, exposed>> /\ prog["console"].at = "idle"
  BY DEF Ring!SealKeyChange, Ring!returns
<1>3. old \in AnyKey \cup {"none"}
  BY DEF Ring!ProofOfOwnership, Ring!FindKey, KeysIInv, KeyTypes, Rings, AnyKey
<1>4. /\ new \in Keys \cup {"none"} /\ new \notin disk.ring.keys
      /\ new # "none" => new # prog["qr"].key
  BY DEF Ring!Minted, Ring!Programs, KeysIInv, KeyTypes, Rings, AnyKey
<1> DEFINE c == [op |-> op, new |-> new, old |-> old, devs |-> to]
           mine == [at |-> IF op = "clear" THEN "send" ELSE "lock",
                    change |-> c, key |-> new, entries |-> {}]
<1>5. c \in Changes
  BY <1>3, <1>4 DEF Changes, AnyKey
<1>6. prog' = [prog EXCEPT !["console"] = mine]
  BY <1>1 DEF Ring!Busy, Ring!Change
<1>7. prog'["console"] = mine /\ prog'["qr"] = prog["qr"]
  BY <1>6 DEF KeysIInv, KeyTypes
<1>8. KeyTypes'
  BY <1>2, <1>4, <1>5, <1>6 DEF KeysIInv, KeyTypes, Places, AnyKey
<1>9. HoldsLock'
  BY <1>1, <1>2, <1>4, <1>7 DEF KeysIInv, HoldsLock, AnyKey
<1>10. SendsWhatItWrote'
  BY <1>1, <1>2, <1>4, <1>7 DEF KeysIInv, SendsWhatItWrote
<1>11. Settled' /\ Owned'
  BY <1>2, <1>7 DEF KeysIInv, Settled, Owned, Kept
<1> QED BY <1>8, <1>9, <1>10, <1>11 DEF KeysIInv

(* A key that opens a recording is remembered; a key file is written. *)
LEMMA AdoptKeys ==
  ASSUME KeysIInv, NEW key \in AnyKey, Ring!AdoptKeyFor(key) PROVE KeysIInv'
<1> DEFINE mine == [at |-> "lock", change |-> Ring!Nothing, key |-> key, entries |-> {}]
<1>1. prog' = [prog EXCEPT !["console"] = mine]
      /\ UNCHANGED <<disk, lock, sealed, made, stored, durable, exposed>> /\ prog["console"].at = "idle"
  BY DEF Ring!AdoptKeyFor, Ring!Busy, Ring!returns
<1>2. Ring!Nothing \in Changes /\ Ring!Nothing.new = "none"
  BY DEF Ring!Nothing, Ring!Change, Changes
<1>3. prog'["console"] = mine /\ prog'["qr"] = prog["qr"]
  BY <1>1 DEF KeysIInv, KeyTypes
<1>4. KeyTypes'
  BY <1>1, <1>2 DEF KeysIInv, KeyTypes, Places
<1>5. HoldsLock' /\ Settled' /\ SendsWhatItWrote' /\ Owned'
  BY <1>1, <1>2, <1>3
  DEF KeysIInv, HoldsLock, Settled, SendsWhatItWrote, Owned, Kept
<1> QED BY <1>4, <1>5 DEF KeysIInv

(* The settings-QR generator mints a key and writes its file before the    *)
(* lock.                                                                   *)
LEMMA MintKeys == KeysIInv /\ Ring!WriteMintedKey => KeysIInv'
<1> SUFFICES ASSUME KeysIInv, Ring!WriteMintedKey PROVE KeysIInv'
  OBVIOUS
<1>1. PICK key \in Ring!Minted :
        /\ disk' = [disk EXCEPT !.files = @ \cup {key}, !.fresh = @ \cup {key}]
        /\ prog' = [prog EXCEPT !["qr"] = Ring!Busy("lock", Ring!Nothing, key)]
  BY DEF Ring!WriteMintedKey
<1>2. UNCHANGED <<lock, sealed, made, stored, durable, exposed>> /\ prog["qr"].at = "idle"
  BY DEF Ring!WriteMintedKey, Ring!returns
<1> DEFINE mine == [at |-> "lock", change |-> Ring!Nothing, key |-> key, entries |-> {}]
<1>3. Ring!Nothing \in Changes /\ Ring!Nothing.new = "none"
  BY DEF Ring!Nothing, Ring!Change, Changes
<1>4. key \in Keys /\ key \notin disk.files /\ key # prog["console"].key
  BY DEF Ring!Minted, Ring!Programs
<1>5. prog'["qr"] = mine /\ prog'["console"] = prog["console"]
  BY <1>1 DEF KeysIInv, KeyTypes, Ring!Busy
<1>6. disk'.ring = disk.ring /\ disk'.other = disk.other /\ disk'.tmp = disk.tmp
      /\ disk'.files = disk.files \cup {key}
  BY <1>1 DEF KeysIInv, KeyTypes
<1>7. KeyTypes'
  BY <1>1, <1>2, <1>3, <1>4 DEF KeysIInv, KeyTypes, Places, AnyKey, Ring!Busy
<1>8. HoldsLock' /\ Settled' /\ SendsWhatItWrote'
  BY <1>2, <1>3, <1>4, <1>5, <1>6
  DEF KeysIInv, HoldsLock, Settled, SendsWhatItWrote, AnyKey
<1>9. Owned'
  BY <1>2, <1>4, <1>5, <1>6 DEF KeysIInv, Owned, Kept
<1> QED BY <1>7, <1>8, <1>9 DEF KeysIInv

(* A printed code carries the key of a file that is whole.                 *)
LEMMA PrintKeys == KeysIInv /\ Ring!PrintCode => KeysIInv'
<1> SUFFICES ASSUME KeysIInv, Ring!PrintCode PROVE KeysIInv'
  OBVIOUS
<1> USE KeysAssumption
<1>1. UNCHANGED <<disk, lock, prog, made, stored, durable, exposed>> /\ prog["qr"].at = "idle"
  BY DEF Ring!PrintCode, Ring!returns
<1>2. PICK key \in disk.files,
           old \in disk.files \cup disk.ring.keys \cup {"none"},
           to \in {{d} : d \in Rigs} \cup {Rigs} :
        sealed' = sealed \cup
          {Ring!Change(IF old = "none" THEN "set" ELSE "rotate", key, old, to)}
  BY DEF Ring!PrintCode
<1> DEFINE c == [op |-> IF old = "none" THEN "set" ELSE "rotate", new |-> key,
                 old |-> old, devs |-> to]
<1>3. sealed' = sealed \cup {c} /\ c.new = key
  BY <1>2 DEF Ring!Change
<1>4. key \in Keys /\ old \in AnyKey \cup {"none"}
  BY DEF KeysIInv, KeyTypes, AnyKey, Rings
<1>5. c \in Changes
  BY <1>4 DEF Changes, AnyKey
<1>6. prog["qr"].key = "none"
  BY <1>1 DEF KeysIInv, HoldsLock
<1>7. Owned'
  BY <1>1, <1>3, <1>4, <1>6 DEF KeysIInv, Owned, Kept
<1>8. KeyTypes' /\ HoldsLock' /\ Settled' /\ SendsWhatItWrote'
  BY <1>1, <1>3, <1>5 DEF KeysIInv, KeyTypes, HoldsLock, Settled, SendsWhatItWrote
<1> QED BY <1>7, <1>8 DEF KeysIInv

(* remember_key, step by step. *)
LEMMA EnterKeys ==
  ASSUME KeysIInv, NEW p \in {"console", "qr"}, Ring!Enter(p) PROVE KeysIInv'
<1> USE KeysAssumption
<1>1. prog[p].at = "lock" /\ lock = "none" /\ UNCHANGED <<disk, sealed, made, stored, durable, exposed>>
  BY DEF Ring!Enter, Ring!Locked, Ring!returns, KeysIInv, KeyTypes, Rings
<1>2. disk.ring.ok /\ disk.ring.keys \in SUBSET AnyKey
  BY DEF KeysIInv, KeyTypes, Rings
<1>3. CASE prog[p].key \in disk.ring.keys
  <2>1. prog' = [prog EXCEPT ![p].at = "send"] /\ UNCHANGED lock
    BY <1>2, <1>3 DEF Ring!Enter, Ring!Goes
  <2>2. /\ prog'[p].at = "send" /\ prog'[p].key = prog[p].key
        /\ prog'[p].change = prog[p].change
        /\ \A q \in {"console", "qr"} \ {p} : prog'[q] = prog[q]
    BY <2>1 DEF KeysIInv, KeyTypes
  <2>3. KeyTypes'
    BY <1>1, <2>1 DEF KeysIInv, KeyTypes, Places
  <2>4. HoldsLock' /\ Settled'
    BY <1>1, <2>1, <2>2 DEF KeysIInv, HoldsLock, Settled
  <2>5. SendsWhatItWrote'
    BY <1>1, <1>3, <2>2 DEF KeysIInv, SendsWhatItWrote
  <2>6. prog'["qr"].key = prog["qr"].key
    BY <2>2
  <2>7. Owned'
    BY <1>1, <2>6 DEF KeysIInv, Owned, Kept
  <2> QED BY <2>3, <2>4, <2>5, <2>7 DEF KeysIInv
<1>4. CASE prog[p].key \notin disk.ring.keys
  <2> DEFINE mine == [at |-> "write", change |-> prog[p].change, key |-> prog[p].key,
                      entries |-> disk.ring.keys]
  <2>0. prog' = [prog EXCEPT ![p] = mine]
    BY <1>2, <1>4 DEF Ring!Enter, KeysIInv, KeyTypes
  <2>1. lock' = p
    BY <1>2, <1>4 DEF Ring!Enter
  <2>2. /\ prog'[p].at = "write" /\ prog'[p].key = prog[p].key
        /\ prog'[p].change = prog[p].change
        /\ prog'[p].entries = disk.ring.keys
        /\ \A q \in {"console", "qr"} \ {p} : prog'[q] = prog[q]
    <3>1. /\ mine.at = "write" /\ mine.key = prog[p].key
          /\ mine.change = prog[p].change /\ mine.entries = disk.ring.keys
      BY DEF KeysIInv, KeyTypes
    <3>2. prog'[p] = mine /\ \A q \in {"console", "qr"} \ {p} : prog'[q] = prog[q]
      BY <2>0 DEF KeysIInv, KeyTypes
    <3> QED BY <3>1, <3>2
  <2>3. KeyTypes'
    <3>1. mine \in [at : Places, change : Changes, key : AnyKey \cup {"none"},
                     entries : SUBSET AnyKey]
      BY <1>2 DEF KeysIInv, KeyTypes, Places
    <3> QED BY <1>1, <2>0, <2>1, <3>1 DEF KeysIInv, KeyTypes
  <2>4. HoldsLock' /\ Settled'
    BY <1>1, <2>1, <2>2 DEF KeysIInv, HoldsLock, Settled
  <2>5. SendsWhatItWrote' /\ Owned'
    BY <1>1, <2>2 DEF KeysIInv, SendsWhatItWrote, Owned, Kept
  <2> QED BY <2>3, <2>4, <2>5 DEF KeysIInv
<1> QED BY <1>3, <1>4

(* The temporary file is written from what was read under the lock         *)
(* (remember_key).                                                         *)
LEMMA WriteKeys ==
  ASSUME KeysIInv, NEW p \in {"console", "qr"}, Ring!Write(p) PROVE KeysIInv'
<1> USE KeysAssumption
<1> DEFINE new == [keys |-> prog[p].entries \cup {prog[p].key}, ok |-> TRUE,
                   synced |-> TRUE]
<1>1. /\ prog[p].at = "write" /\ UNCHANGED <<lock, sealed, made, stored, durable, exposed>>
      /\ disk' = [disk EXCEPT !.tmp = new]
      /\ prog' = [prog EXCEPT ![p].at = "replace"]
  BY DEF Ring!Write, Ring!Fsynced, Ring!Goes, Ring!returns
<1>2. prog[p].key \in AnyKey /\ prog[p].entries = disk.ring.keys
      /\ disk.ring.keys \in SUBSET AnyKey /\ lock = p
  BY <1>1 DEF KeysIInv, KeyTypes, HoldsLock, Rings
<1>3. new \in Rings
  BY <1>2 DEF Rings
<1>4. /\ disk'.ring = disk.ring /\ disk'.other = disk.other
      /\ disk'.files = disk.files /\ disk'.tmp = new
  BY <1>1 DEF KeysIInv, KeyTypes
<1>5. /\ prog'[p].at = "replace" /\ prog'[p].key = prog[p].key
      /\ prog'[p].change = prog[p].change
      /\ \A q \in {"console", "qr"} \ {p} : prog'[q] = prog[q]
  BY <1>1 DEF KeysIInv, KeyTypes
<1>6. KeyTypes'
  BY <1>1, <1>3 DEF KeysIInv, KeyTypes, Places
<1>7. HoldsLock'
  BY <1>1, <1>2, <1>4, <1>5 DEF KeysIInv, HoldsLock
<1>8. Settled' /\ SendsWhatItWrote' /\ Owned'
  BY <1>1, <1>4, <1>5 DEF KeysIInv, Settled, SendsWhatItWrote, Owned, Kept
<1> QED BY <1>6, <1>7, <1>8 DEF KeysIInv

(* A program that ends in the middle, however it does. *)
LEMMA IdleKeys ==
  ASSUME KeysIInv, NEW p \in {"console", "qr"},
         prog' = [prog EXCEPT ![p] = Ring!Idle],
         lock' = (IF lock = p THEN "none" ELSE lock),
         UNCHANGED <<made, stored, durable, exposed>>,
         sealed' = sealed \/ (prog[p].at = "send" /\ sealed' = sealed \cup {prog[p].change}),
         disk' = disk \/ (lock = p /\ disk' = [disk EXCEPT !.tmp = Ring!Absent])
  PROVE  KeysIInv'
<1> USE KeysAssumption
<1>1. /\ Ring!Idle = [at |-> "idle", change |-> Ring!Nothing, key |-> "none",
                      entries |-> {}]
      /\ Ring!Nothing \in Changes /\ Ring!Nothing.new = "none"
      /\ Ring!Absent \in Rings
  BY DEF Ring!Idle, Ring!Busy, Ring!Nothing, Ring!Change, Changes, Ring!Absent, Rings
<1>2. /\ prog'[p] = Ring!Idle
      /\ \A q \in {"console", "qr"} \ {p} : prog'[q] = prog[q]
  BY DEF KeysIInv, KeyTypes
<1>3. /\ disk'.ring = disk.ring /\ disk'.other = disk.other
      /\ disk'.files = disk.files /\ (lock # p => disk'.tmp = disk.tmp)
  BY DEF KeysIInv, KeyTypes
<1>4. KeyTypes'
  BY <1>1 DEF KeysIInv, KeyTypes, Places
<1>5. HoldsLock'
  BY <1>1, <1>2, <1>3 DEF KeysIInv, HoldsLock
<1>6. Settled' /\ SendsWhatItWrote'
  BY <1>1, <1>2, <1>3 DEF KeysIInv, KeyTypes, Settled, SendsWhatItWrote, AnyKey
<1>7. ASSUME NEW k \in AnyKey, Kept(k) PROVE Kept(k)'
  BY <1>1, <1>2, <1>3, <1>7 DEF KeysIInv, Kept, AnyKey
<1>8. \A c \in sealed' \ sealed : c.new # "none" => c.new \in stored
  BY DEF KeysIInv, SendsWhatItWrote
<1>9. Owned'
  BY <1>4, <1>7, <1>8 DEF KeysIInv, KeyTypes, Owned, Kept, Changes
<1> QED BY <1>4, <1>5, <1>6, <1>9 DEF KeysIInv

(* os.replace: the new ring takes the place of the old one.                *)
LEMMA ReplaceKeys ==
  ASSUME KeysIInv, NEW p \in {"console", "qr"}, Ring!Replace(p) PROVE KeysIInv'
<1> USE KeysAssumption
<1>1. /\ prog[p].at = "replace" /\ UNCHANGED <<lock, sealed, made, stored, durable, exposed>>
      /\ prog' = [prog EXCEPT ![p].at = "sync"]
  BY DEF Ring!Replace, Ring!Goes, Ring!returns
<1>2. lock = p /\ disk.tmp.keys = disk.ring.keys \cup {prog[p].key}
      /\ disk.tmp.synced
  BY <1>1 DEF KeysIInv, KeyTypes, HoldsLock, Rings
<1>3. disk' = [disk EXCEPT !.ring = disk.tmp, !.tmp = Ring!Absent,
                           !.other = @ \cup {disk.ring}]
  BY <1>2 DEF Ring!Replace
<1>4. Ring!Absent \in Rings
  BY DEF Ring!Absent, Rings
<1>5. /\ disk'.ring = disk.tmp /\ disk'.other = disk.other \cup {disk.ring}
      /\ disk'.files = disk.files
  BY <1>3 DEF KeysIInv, KeyTypes
<1>6. /\ prog'[p].at = "sync" /\ prog'[p].key = prog[p].key
      /\ prog'[p].change = prog[p].change
      /\ \A q \in {"console", "qr"} \ {p} : prog'[q] = prog[q]
  BY <1>1 DEF KeysIInv, KeyTypes
<1>7. KeyTypes'
  <2>1. disk' \in [ring : Rings, other : SUBSET Rings, tmp : Rings,
                   files : SUBSET Keys, fresh : SUBSET Keys]
    BY <1>3, <1>4 DEF KeysIInv, KeyTypes
  <2> QED BY <1>1, <2>1 DEF KeysIInv, KeyTypes, Places
<1>8. HoldsLock' /\ Settled'
  BY <1>1, <1>2, <1>5, <1>6 DEF KeysIInv, HoldsLock, Settled
<1>9. SendsWhatItWrote'
  BY <1>1, <1>2, <1>5, <1>6 DEF KeysIInv, HoldsLock, SendsWhatItWrote
<1>10. Owned'
  BY <1>1, <1>5, <1>6 DEF KeysIInv, Owned, Kept
<1> QED BY <1>7, <1>8, <1>9, <1>10 DEF KeysIInv

(* The directory is synced, and from here on no power loss brings the old  *)
(* ring back; or the filesystem refuses.                                   *)
LEMMA FsyncKeys ==
  ASSUME KeysIInv, NEW p \in {"console", "qr"}, Ring!FsyncDir(p) PROVE KeysIInv'
<1> USE KeysAssumption
<1>1. /\ prog[p].at = "sync" /\ UNCHANGED <<sealed, made, exposed>> /\ lock' = "none"
      /\ prog' = [prog EXCEPT ![p].at = "send"]
      /\ stored' = stored \cup {prog[p].key}
  BY DEF Ring!FsyncDir, Ring!Goes
<1>2. lock = p /\ prog[p].key \in AnyKey /\ prog[p].key \in disk.ring.keys
      /\ disk.ring.synced
  BY <1>1 DEF KeysIInv, KeyTypes, HoldsLock, Rings
<1>3. \/ disk' = [disk EXCEPT !.other = {}] /\ durable' = durable \cup {prog[p].key}
      \/ UNCHANGED <<disk, durable>>
  BY <1>2 DEF Ring!FsyncDir
<1>4. /\ disk'.ring = disk.ring /\ disk'.tmp = disk.tmp /\ disk'.files = disk.files
      /\ \/ disk'.other = {} /\ durable' = durable \cup {prog[p].key}
         \/ disk'.other = disk.other /\ durable' = durable
  BY <1>3 DEF KeysIInv, KeyTypes
<1>5. /\ prog'[p].at = "send" /\ prog'[p].key = prog[p].key
      /\ prog'[p].change = prog[p].change
      /\ \A q \in {"console", "qr"} \ {p} : prog'[q] = prog[q]
  BY <1>1 DEF KeysIInv, KeyTypes
<1>6. KeyTypes'
  BY <1>1, <1>2, <1>3 DEF KeysIInv, KeyTypes, Places
<1>7. HoldsLock'
  BY <1>1, <1>2, <1>4, <1>5 DEF KeysIInv, HoldsLock
<1>8. Settled'
  BY <1>1, <1>2, <1>4 DEF KeysIInv, Settled
<1>9. SendsWhatItWrote'
  BY <1>1, <1>4, <1>5 DEF KeysIInv, SendsWhatItWrote
<1>10. Owned'
  BY <1>1, <1>4, <1>5 DEF KeysIInv, Owned, Kept
<1> QED BY <1>6, <1>7, <1>8, <1>9, <1>10 DEF KeysIInv

(* A rig applies a change; the power goes. *)
LEMMA ApplyKeys ==
  ASSUME KeysIInv, NEW d \in Rigs, Ring!Apply(d) PROVE KeysIInv'
<1>1. PICK c \in sealed : made' = made \cup ({c.new} \ {"none"})
  BY DEF Ring!Apply
<1>2. UNCHANGED <<disk, lock, prog, sealed, stored, durable, exposed>>
  BY DEF Ring!Apply, Ring!returns
<1>3. c.new \in AnyKey \cup {"none"} /\ (c.new # "none" => Kept(c.new))
  BY DEF KeysIInv, KeyTypes, Changes, Owned
<1>4. KeyTypes' /\ HoldsLock' /\ Settled' /\ SendsWhatItWrote'
  BY <1>1, <1>2, <1>3
  DEF KeysIInv, KeyTypes, HoldsLock, Settled, SendsWhatItWrote
<1>5. Owned'
  BY <1>1, <1>2, <1>3 DEF KeysIInv, Owned, Kept
<1> QED BY <1>4, <1>5 DEF KeysIInv

(* A power loss leaves some ring that was not superseded by a synced one;  *)
(* what it could take is exposed.                                          *)
LEMMA PowerLossKeys == KeysIInv /\ Ring!PowerLoss => KeysIInv'
<1> SUFFICES ASSUME KeysIInv, Ring!PowerLoss PROVE KeysIInv'
  OBVIOUS
<1> USE KeysAssumption
<1>1. PICK r \in {disk.ring} \cup disk.other, gone \in SUBSET disk.fresh :
        disk' = [disk EXCEPT !.ring = r, !.other = {}, !.tmp = Ring!Absent,
                             !.files = @ \ gone, !.fresh = {}]
  BY DEF Ring!PowerLoss
<1>2. /\ UNCHANGED <<sealed, made, durable>> /\ lock' = "none" /\ stored' = durable
      /\ prog' = [p \in {"console", "qr"} |-> Ring!Idle]
      /\ exposed' = exposed \cup ((stored \cup disk.fresh) \ (durable \cup (disk.files \ disk.fresh)))
  BY DEF Ring!PowerLoss, Ring!Programs
<1>3. /\ Ring!Idle = [at |-> "idle", change |-> Ring!Nothing, key |-> "none",
                      entries |-> {}]
      /\ Ring!Nothing \in Changes /\ Ring!Nothing.new = "none"
      /\ Ring!Absent \in Rings
  BY DEF Ring!Idle, Ring!Busy, Ring!Nothing, Ring!Change, Changes, Ring!Absent, Rings
<1>4. r \in Rings /\ durable \subseteq r.keys
  BY DEF KeysIInv, KeyTypes, Settled
<1>5. /\ disk'.ring = r /\ disk'.other = {} /\ disk'.files = disk.files \ gone
      /\ disk'.files \in SUBSET Keys
  BY <1>1 DEF KeysIInv, KeyTypes
<1>6. KeyTypes'
  <2>1. disk' \in [ring : Rings, other : SUBSET Rings, tmp : Rings,
                   files : SUBSET Keys, fresh : SUBSET Keys]
    BY <1>1, <1>3, <1>4 DEF KeysIInv, KeyTypes
  <2> QED BY <1>2, <1>3, <2>1 DEF KeysIInv, KeyTypes, Places
<1>7. HoldsLock' /\ SendsWhatItWrote'
  BY <1>2, <1>3, <1>4, <1>5 DEF KeysIInv, HoldsLock, SendsWhatItWrote
<1>8. Settled'
  BY <1>2, <1>4, <1>5 DEF KeysIInv, KeyTypes, Settled
<1>9. ASSUME NEW k, Kept(k) PROVE Kept(k)'
  BY <1>2, <1>5, <1>9 DEF KeysIInv, KeyTypes, Kept
<1>10. Owned'
  BY <1>2, <1>9 DEF KeysIInv, Owned
<1> QED BY <1>6, <1>7, <1>8, <1>10 DEF KeysIInv

(* Every step of the two programs, of the rigs and of the machine.         *)
LEMMA KeysNext == KeysIInv /\ [Ring!Next]_keys_v => KeysIInv'
<1> SUFFICES ASSUME KeysIInv, [Ring!Next]_keys_v PROVE KeysIInv'
  OBVIOUS
<1>1. CASE UNCHANGED keys_v
  BY <1>1 DEF keys_v, KeysIInv, KeyTypes, HoldsLock, Settled, SendsWhatItWrote,
              Owned, Kept
<1>2. ASSUME NEW p \in {"console", "qr"}, Ring!RememberKey(p) \/ Ring!Crash(p)
      PROVE  KeysIInv'
  <2>1. CASE Ring!Enter(p) \/ Ring!Write(p) \/ Ring!Replace(p) \/ Ring!FsyncDir(p)
    BY <2>1, EnterKeys, WriteKeys, ReplaceKeys, FsyncKeys
  <2>2. CASE Ring!WriteFails(p)
    <3>1. lock = p
      BY <2>2 DEF Ring!WriteFails, KeysIInv, HoldsLock
    <3>2. /\ prog' = [prog EXCEPT ![p] = Ring!Idle]
          /\ lock' = (IF lock = p THEN "none" ELSE lock)
          /\ UNCHANGED <<made, stored, durable, exposed>> /\ sealed' = sealed
          /\ disk' = [disk EXCEPT !.tmp = Ring!Absent]
      BY <2>2, <3>1 DEF Ring!WriteFails, Ring!returns
    <3> QED BY <3>1, <3>2, IdleKeys
  <2>3. CASE Ring!Send(p)
    <3>1. lock # p
      BY <2>3 DEF Ring!Send, KeysIInv, HoldsLock
    <3>2. /\ prog' = [prog EXCEPT ![p] = Ring!Idle]
          /\ lock' = (IF lock = p THEN "none" ELSE lock)
          /\ UNCHANGED <<made, stored, durable, exposed>> /\ disk' = disk /\ prog[p].at = "send"
          /\ sealed' = sealed \/ sealed' = sealed \cup {prog[p].change}
      BY <2>3, <3>1 DEF Ring!Send, Ring!returns
    <3> QED BY <3>2, IdleKeys
  <2>4. CASE Ring!Crash(p)
    <3>1. /\ prog' = [prog EXCEPT ![p] = Ring!Idle]
          /\ lock' = (IF lock = p THEN "none" ELSE lock)
          /\ UNCHANGED <<made, stored, durable, exposed>> /\ sealed' = sealed /\ disk' = disk
      BY <2>4 DEF Ring!Crash, Ring!returns
    <3> QED BY <3>1, IdleKeys
  <2> QED BY <1>2, <2>1, <2>2, <2>3, <2>4 DEF Ring!RememberKey
<1> QED
  BY <1>1, <1>2, ReadStateKeys, SealKeys, ApplyKeys, AdoptKeys, MintKeys,
     PrintKeys, PowerLossKeys
  DEF Ring!Next, Ring!Programs, AnyKey

(* What is stored resolves (resolve_key), and what is minted is stored or  *)
(* in its file, unless a power loss could take it.                         *)
LEMMA KeysSafe == KeysIInv => Ring!OwnerHolds
<1> SUFFICES ASSUME KeysIInv PROVE Ring!OwnerHolds
  OBVIOUS
<1>1. ASSUME NEW k \in disk.ring.keys PROVE Ring!ResolveKey(k, "none") = k
  BY <1>1 DEF KeysIInv, KeyTypes, Rings, Ring!ResolveKey, Ring!FindKey
<1>2. stored \subseteq disk.ring.keys
  BY DEF KeysIInv, Settled
<1>3. \A k \in made \ ({Elsewhere} \cup exposed) : k \in disk.files \/ k \in stored
  BY DEF KeysIInv, Owned, Kept
<1> QED BY <1>1, <1>2, <1>3 DEF Ring!OwnerHolds

(* Every key this computer minted that footage was recorded under is in a    *)
(* key file or resolves from the ring, and so does every key remember_key    *)
(* wrote, for any rigs, keys, crashes and power losses; but a key that had   *)
(* no durable copy when the power went is excepted from then on.             *)
THEOREM KeysAreKept == MCSpec => []OwnerHolds
<1> DEFINE Inv == focus = "keys" => KeysIInv
<1>1. MCInit => Inv
  BY KeysInit, Zenon DEF MCInit
<1>2. Inv /\ [MCNext]_vars => Inv'
  <2>1. [MCNext]_vars => focus' = focus /\ (focus = "keys" => [Ring!Next]_keys_v)
    BY Zenon DEF MCNext, vars
  <2> QED BY <2>1, KeysNext, Zenon
<1>3. Inv => OwnerHolds
  BY KeysSafe, Zenon DEF OwnerHolds
<1> QED BY <1>1, <1>2, <1>3, PTL DEF MCSpec

-----------------------------------------------------------------------------
(* What the consumer was given, what waits in the queue and what the       *)
(* worker has in hand are together a prefix of what the source yields,     *)
(* until the consumer leaves; what it was given stays one.                 *)
LastItem == IF source.fails THEN Ahead!Err ELSE Ahead!DONE
Yields(i) == IF i <= source.stops THEN i ELSE LastItem
Serves == consumer \in {"get", "leave"}
AheadTypes ==
  /\ source \in [n : Nat, stops : Nat, fails : BOOLEAN] /\ source.n <= source.stops
  /\ worker \in [at : {"next", "put", "put last", "ended"}, item : Int]
  /\ buffer \in Seq(Int) /\ yielded \in Seq(Int)
  /\ consumer \in {"get", "leave", "drain", "left"}
(* n of stops asked for, ahead of them given or queued, item in hand.      *)
InHandIs(n, ends, ahead, at, item, last) ==
  /\ at = "next" => n = ahead
  /\ at = "put" => n = ahead + 1 /\ item = n
  /\ at = "put last" => n = ends /\ ahead = ends /\ item = last
  /\ at = "ended" => n = ends /\ ahead = ends + 1
Given == \A i \in 1..Len(yielded) : i <= source.stops + 1 /\ yielded[i] = Yields(i)
Queued ==
  \A i \in 1..Len(buffer) : /\ Len(yielded) + i <= source.stops + 1
                           /\ buffer[i] = Yields(Len(yielded) + i)
InHand ==
  InHandIs(source.n, source.stops, Len(yielded) + Len(buffer), worker.at, worker.item, LastItem)

(* While the consumer serves itself the queue and the hand are intact; the *)
(* drain breaks both, and by then nothing more is given (_prefetch_consume *)
(* and the finally of prefetch).                                           *)
AheadIInv ==
  /\ AheadTypes /\ Given /\ Len(buffer) <= Depth
  /\ Serves => Queued /\ InHand
  /\ Serves <=> ~stop

(* A fact of numbers alone: the item put is the next of the source.        *)
LEMMA NextIsNext ==
  ASSUME NEW ends \in Int, NEW ahead \in Int, NEW last, ahead + 1 <= ends
  PROVE  /\ ahead + 1 <= ends + 1
         /\ ahead + 1 = IF ahead + 1 <= ends THEN ahead + 1 ELSE last
  OBVIOUS

(* Past the last item the end or the failure is put, and nothing else.     *)
LEMMA LastIsLast ==
  ASSUME NEW ends \in Int, NEW last
  PROVE  ends + 1 <= ends + 1 /\ last = IF ends + 1 <= ends THEN ends + 1 ELSE last
  OBVIOUS

(* However the hand stands, one item is ahead of the queue at most.        *)
LEMMA AtMostOne ==
  ASSUME NEW n \in Int, NEW ahead \in Int,
         n = ahead \/ n = ahead + 1 \/ ahead = n + 1
  PROVE  n <= ahead + 1
  OBVIOUS

(* What has been asked for is ahead by the item in hand at most.           *)
LEMMA OneInHand ==
  ASSUME NEW n \in Int, NEW ends \in Int, NEW ahead \in Int,
         NEW at \in {"next", "put", "put last", "ended"}, NEW item, NEW last,
         InHandIs(n, ends, ahead, at, item, last)
  PROVE  n <= ahead + 1
<1>1. n = ahead \/ n = ahead + 1 \/ ahead = n + 1 BY Zenon DEF InHandIs
<1> QED BY <1>1, AtMostOne, Zenon

(* The queue of prefetch has a depth.                                      *)
LEMMA DepthIs == Depth \in Nat \ {0}
BY ReadsAssumption

(* Nothing given, queued or in hand, and the source at its start.          *)
LEMMA AheadInit == ASSUME Ahead!Init PROVE AheadIInv
<1>0. Depth \in Nat \ {0} BY DepthIs
<1>1. /\ source \in [n : Nat, stops : Nat, fails : BOOLEAN] /\ source.n = 0 /\ source.stops \in Nat
      /\ worker = [at |-> "next", item |-> 0] /\ buffer = <<>> /\ yielded = <<>> /\ consumer = "get"
  BY DEF Ahead!Init, Ahead!DONE
<1>2. AheadTypes BY <1>1 DEF AheadTypes
<1>3. Given /\ Queued /\ Len(buffer) <= Depth BY <1>0, <1>1 DEF Given, Queued
<1>4. InHand BY <1>1 DEF InHand, InHandIs
<1>5. Serves /\ ~stop BY <1>1 DEF Ahead!Init, Serves
<1> QED BY <1>2, <1>3, <1>4, <1>5 DEF AheadIInv

(* Every blocking call of the worker and of the consumer keeps it.         *)
LEMMA AheadNext == ASSUME AheadIInv, [Ahead!Next]_prefetch_v PROVE AheadIInv'
<1>0. AheadTypes /\ Given /\ Len(buffer) <= Depth BY DEF AheadIInv
<1>g. Depth \in Nat \ {0} BY DepthIs
<1>a. source \in [n : Nat, stops : Nat, fails : BOOLEAN] /\ source.n <= source.stops
  BY <1>0 DEF AheadTypes
<1>b. source.n \in Nat /\ source.stops \in Nat /\ LastItem \in Int BY <1>a DEF LastItem, Ahead!Err, Ahead!DONE
<1>c. buffer \in Seq(Int) /\ yielded \in Seq(Int) BY <1>0 DEF AheadTypes
<1>d. Len(buffer) \in Nat /\ Len(yielded) \in Nat BY <1>c
<1>e. worker \in [at : {"next", "put", "put last", "ended"}, item : Int]
  BY <1>0 DEF AheadTypes
<1>f. worker.item \in Int BY <1>e
<1>1. CASE Ahead!Produce
  <2>1. UNCHANGED <<buffer, yielded, stop, consumer>> BY <1>1 DEF Ahead!Produce
  <2>2. CASE source.n = source.stops
    <3>1. UNCHANGED source BY <1>1, <2>2 DEF Ahead!Produce
    <3>2. worker' = [at |-> "put last", item |-> LastItem] /\ worker.at = "next"
      BY <1>1, <2>2 DEF Ahead!Produce, LastItem
    <3>3. worker' \in [at : {"next", "put", "put last", "ended"}, item : Int]
      BY <1>b, <3>2
    <3>4. AheadTypes' BY <1>0, <2>1, <3>1, <3>3 DEF AheadTypes
    <3>5. LastItem' = LastItem BY <3>1 DEF LastItem
    <3>6. Given' /\ (Queued => Queued') BY <1>0, <2>1, <3>1, <3>5 DEF Given, Queued, Yields
    <3>7. InHand => InHand' BY <2>1, <2>2, <3>1, <3>2, <3>5 DEF InHand, InHandIs
    <3> QED BY <1>0, <2>1, <3>4, <3>6, <3>7 DEF AheadIInv, Serves
  <2>3. CASE source.n # source.stops
    <3>1. /\ source' = [source EXCEPT !.n = @ + 1] /\ worker.at = "next"
          /\ worker' = IF stop THEN [at |-> "ended", item |-> 0] ELSE [at |-> "put", item |-> source.n + 1]
      BY <1>1, <2>3 DEF Ahead!Produce, Ahead!DONE
    <3>2. source'.n = source.n + 1 /\ source'.stops = source.stops /\ source'.fails = source.fails
      BY <1>a, <3>1
    <3>3. LastItem' = LastItem BY <3>2 DEF LastItem
    <3>4. Serves => worker' = [at |-> "put", item |-> source.n + 1] BY <3>1 DEF AheadIInv
    <3>5. source' \in [n : Nat, stops : Nat, fails : BOOLEAN] /\ source'.n <= source'.stops
      BY <1>a, <1>b, <2>3, <3>1
    <3>6. worker' \in [at : {"next", "put", "put last", "ended"}, item : Int]
      <4>1. CASE stop BY <3>1, <4>1
      <4>2. CASE ~stop BY <3>1, <4>2, <1>b
      <4> QED BY <4>1, <4>2
    <3>7. AheadTypes' BY <1>0, <2>1, <3>5, <3>6 DEF AheadTypes
    <3>8. Given' BY <1>0, <1>b, <1>d, <2>1, <3>2, <3>3 DEF Given, Yields
    <3>9. Queued => Queued' BY <1>b, <1>d, <2>1, <3>2, <3>3 DEF Queued, Yields
    <3>10. Serves /\ InHand => InHand' BY <1>b, <1>d, <2>1, <3>1, <3>2, <3>4 DEF InHand, InHandIs
    <3> QED BY <1>0, <2>1, <3>7, <3>8, <3>9, <3>10 DEF AheadIInv, Serves
  <2> QED BY <2>2, <2>3
<1>2. CASE Ahead!Put
  <2>1. /\ UNCHANGED <<source, yielded, stop, consumer>> /\ LastItem' = LastItem
        /\ Len(buffer) < Depth /\ buffer' = Append(buffer, worker.item)
    BY <1>2 DEF Ahead!Put, LastItem
  <2>b. worker.at \in {"put", "put last"} BY <1>2 DEF Ahead!Put
  <2>2. /\ Len(buffer') = Len(buffer) + 1 /\ buffer'[Len(buffer) + 1] = worker.item
        /\ \A i \in 1..Len(buffer) : buffer'[i] = buffer[i]
    BY <1>c, <1>f, <2>1
  <2>3. /\ worker'.at = IF worker.at = "put" THEN "next" ELSE "ended"
        /\ worker' \in [at : {"next", "put", "put last", "ended"}, item : Int]
    BY <1>e, <1>2 DEF Ahead!Put
  <2>a. buffer' \in Seq(Int) BY <1>c, <1>f, <2>1
  <2>4. AheadTypes' BY <1>0, <2>1, <2>3, <2>a DEF AheadTypes
  <2>5. Given' /\ Len(buffer') <= Depth BY <1>g, <1>0, <1>d, <2>1, <2>2 DEF Given, Yields
  <2>c. /\ Len(yielded) + Len(buffer) \in Int /\ source.n <= source.stops
        /\ source.n \in Int /\ source.stops \in Int
        /\ Len(yielded') + Len(buffer') = (Len(yielded) + Len(buffer)) + 1
        /\ worker'.item = worker.item
    <3>1. worker'.item = worker.item BY <1>e, <1>2 DEF Ahead!Put
    <3>2. source.n \in Int /\ source.stops \in Int BY <1>b
    <3> QED BY <1>a, <1>d, <2>1, <2>2, <3>1, <3>2
  <2>d. ASSUME NEW a \in Int, InHandIs(source.n, source.stops, a, worker.at, worker.item, LastItem)
        PROVE  /\ InHandIs(source.n, source.stops, a + 1, worker'.at, worker.item, LastItem)
               /\ a + 1 <= source.stops + 1 /\ worker.item = Yields(a + 1)
    <3>1. CASE worker.at = "put"
      <4>1. source.n = a + 1 /\ worker.item = source.n BY <2>d, <3>1, Zenon DEF InHandIs
      <4>2. a + 1 <= source.stops BY <2>c, <4>1, Zenon
      <4>3. a + 1 <= source.stops + 1 /\ worker.item = Yields(a + 1)
        BY <2>c, <4>1, <4>2, NextIsNext, Zenon DEF Yields
      <4>4. InHandIs(source.n, source.stops, a + 1, "next", worker.item, LastItem)
        BY <4>1, Zenon DEF InHandIs
      <4> QED BY <2>3, <3>1, <4>3, <4>4, Zenon
    <3>2. CASE worker.at = "put last"
      <4>1. source.n = source.stops /\ a = source.stops /\ worker.item = LastItem
        BY <2>d, <3>2, Zenon DEF InHandIs
      <4>2. a + 1 <= source.stops + 1 /\ worker.item = Yields(a + 1)
        BY <2>c, <4>1, LastIsLast, Zenon DEF Yields
      <4>3. InHandIs(source.n, source.stops, a + 1, "ended", worker.item, LastItem)
        BY <4>1, Zenon DEF InHandIs
      <4> QED BY <2>3, <3>2, <4>2, <4>3, Zenon
    <3> QED BY <2>b, <3>1, <3>2, Zenon
  <2>e. InHand => /\ InHandIs(source.n, source.stops, (Len(yielded) + Len(buffer)) + 1,
                           worker'.at, worker.item, LastItem)
                  /\ (Len(yielded) + Len(buffer)) + 1 <= source.stops + 1
                  /\ worker.item = Yields((Len(yielded) + Len(buffer)) + 1)
    BY <2>c, <2>d, Zenon DEF InHand
  <2>6. InHand => /\ Len(yielded) + (Len(buffer) + 1) <= source.stops + 1
                  /\ worker.item = Yields(Len(yielded) + (Len(buffer) + 1))
    <3>1. Len(yielded) + (Len(buffer) + 1) = (Len(yielded) + Len(buffer)) + 1 BY <1>d
    <3> QED BY <2>e, <3>1
  <2>7. Queued /\ InHand => Queued'
    <3> SUFFICES ASSUME Queued, InHand, NEW i \in 1..(Len(buffer) + 1)
                 PROVE  /\ Len(yielded) + i <= source.stops + 1
                        /\ buffer'[i] = Yields(Len(yielded) + i)
      BY <2>1, <2>2 DEF Queued, Yields
    <3>1. CASE i \in 1..Len(buffer) BY <2>2, <3>1 DEF Queued
    <3>2. CASE i = Len(buffer) + 1 BY <2>2, <2>6, <3>2
    <3>3. i \in 1..Len(buffer) \/ i = Len(buffer) + 1 BY <1>d
    <3> QED BY <3>1, <3>2, <3>3
  <2>8. InHand => InHand' BY <2>1, <2>c, <2>e, Zenon DEF InHand
  <2> QED BY <2>1, <2>4, <2>5, <2>7, <2>8 DEF AheadIInv, Serves
<1>3. CASE Ahead!Get
  <2>1. /\ UNCHANGED <<source, worker, stop>> /\ LastItem' = LastItem
        /\ buffer # <<>> /\ buffer' = Tail(buffer) /\ yielded' = Append(yielded, Head(buffer))
        /\ consumer = "get" /\ consumer' \in {"get", "leave"}
    BY <1>3 DEF Ahead!Get, LastItem
  <2>2. /\ Len(buffer) > 0 /\ Len(buffer') = Len(buffer) - 1 /\ Len(yielded') = Len(yielded) + 1
        /\ yielded'[Len(yielded) + 1] = buffer[1]
        /\ \A i \in 1..Len(yielded) : yielded'[i] = yielded[i]
        /\ \A i \in 1..Len(buffer') : buffer'[i] = buffer[i + 1]
    <3>1. Len(buffer) > 0 /\ buffer[1] \in Int /\ Head(buffer) = buffer[1] BY <1>c, <2>1
    <3>2. Len(buffer') = Len(buffer) - 1 /\ \A i \in 1..Len(buffer') : buffer'[i] = buffer[i + 1]
      BY <1>c, <2>1
    <3>3. /\ Len(yielded') = Len(yielded) + 1 /\ yielded'[Len(yielded) + 1] = buffer[1]
          /\ \A i \in 1..Len(yielded) : yielded'[i] = yielded[i]
      BY <1>c, <2>1, <3>1
    <3> QED BY <3>1, <3>2, <3>3
  <2>3. AheadTypes'
    <3>1. buffer' \in Seq(Int) /\ Head(buffer) \in Int BY <1>c, <2>1
    <3>2. yielded' \in Seq(Int) BY <1>c, <2>1, <3>1
    <3> QED BY <1>0, <2>1, <3>1, <3>2 DEF AheadTypes
  <2>4. Serves /\ Queued /\ InHand BY <2>1 DEF AheadIInv, Serves
  <2>5. Given' BY <1>0, <1>b, <1>d, <2>1, <2>2, <2>4 DEF Given, Queued, Yields
  <2>6. Queued' /\ Len(buffer') <= Depth BY <1>g, <1>0, <1>b, <1>d, <2>1, <2>2, <2>4 DEF Queued, Yields
  <2>7. InHand'
    <3>1. Len(yielded') + Len(buffer') = Len(yielded) + Len(buffer) BY <1>d, <2>2
    <3> QED BY <2>1, <2>4, <3>1, Zenon DEF InHand
  <2>8. Serves' /\ ~stop' BY <2>1, <2>4 DEF Serves, AheadIInv
  <2> QED BY <2>3, <2>5, <2>6, <2>7, <2>8 DEF AheadIInv
<1>4. CASE Ahead!Leave \/ Ahead!Drain
  <2>1. UNCHANGED <<source, worker, yielded>> /\ LastItem' = LastItem
    BY <1>4 DEF Ahead!Leave, Ahead!Drain, LastItem
  <2>2. /\ buffer' \in Seq(Int) /\ Len(buffer') <= Depth
        /\ consumer' \in {"drain", "left"}
    <3>1. CASE Ahead!Leave BY <1>0, <1>c, <3>1 DEF Ahead!Leave
    <3>2. CASE Ahead!Drain /\ buffer = <<>> BY <1>0, <1>c, <3>2 DEF Ahead!Drain
    <3>3. CASE Ahead!Drain /\ buffer # <<>>
      <4>1. buffer' = Tail(buffer) /\ consumer' = "drain" BY <3>3 DEF Ahead!Drain
      <4>2. buffer' \in Seq(Int) /\ Len(buffer') = Len(buffer) - 1 BY <1>c, <3>3, <4>1
      <4> QED BY <1>0, <1>d, <1>g, <4>1, <4>2
    <3> QED BY <1>4, <3>1, <3>2, <3>3
  <2>3. stop'
    <3>1. CASE Ahead!Leave BY <3>1 DEF Ahead!Leave
    <3>2. CASE Ahead!Drain BY <3>2 DEF Ahead!Drain, AheadIInv, Serves
    <3> QED BY <1>4, <3>1, <3>2
  <2>4. AheadTypes' /\ Given' BY <1>0, <2>1, <2>2 DEF AheadTypes, Given, Yields
  <2>5. ~Serves' BY <2>2 DEF Serves
  <2> QED BY <2>2, <2>3, <2>4, <2>5 DEF AheadIInv
<1>5. CASE UNCHANGED prefetch_v
  BY <1>5 DEF prefetch_v, AheadIInv, AheadTypes, Given, Queued, InHand, InHandIs, Serves, Yields, LastItem
<1> QED BY <1>1, <1>2, <1>3, <1>4, <1>5 DEF Ahead!Next, Ahead!Worker, Ahead!Consumer

(* prefetch gives what the source yields, in order, none missing, and its    *)
(* end or its failure last; and never runs further ahead than its queue and  *)
(* the item in hand (_prefetch_worker, _prefetch_consume).                   *)
LEMMA AheadSafe == AheadIInv => Ahead!InOrder /\ Ahead!Bounded
<1>3. AheadIInv => Ahead!InOrder
  <2> SUFFICES ASSUME AheadIInv, NEW i \in DOMAIN yielded
               PROVE IF yielded[i] \in {Ahead!DONE, Ahead!Err}
                     THEN /\ i = Len(yielded) /\ i = source.stops + 1
                          /\ (yielded[i] = Ahead!Err) = source.fails
                     ELSE yielded[i] = i
    BY DEF Ahead!InOrder
  <2>1. /\ i \in 1..Len(yielded) /\ Len(yielded) \in Nat /\ source.stops \in Nat
        /\ i <= source.stops + 1 /\ Len(yielded) <= source.stops + 1 /\ yielded[i] = Yields(i)
    <3>1. source \in [n : Nat, stops : Nat, fails : BOOLEAN] /\ yielded \in Seq(Int) /\ Given
      BY DEF AheadIInv, AheadTypes
    <3>2. source.stops \in Nat BY <3>1
    <3>3. DOMAIN yielded = 1..Len(yielded) /\ Len(yielded) \in Nat BY <3>1
    <3> QED BY <3>1, <3>2, <3>3 DEF Given
  <2>2. CASE i <= source.stops BY <2>1, <2>2 DEF Yields, Ahead!DONE, Ahead!Err
  <2>3. CASE ~(i <= source.stops)
    <3>1. i = Len(yielded) /\ i = source.stops + 1 /\ yielded[i] = LastItem
      BY <2>1, <2>3 DEF Yields
    <3>2. source.fails \in BOOLEAN BY DEF AheadIInv, AheadTypes
    <3>3. LastItem \in {Ahead!DONE, Ahead!Err} /\ ((LastItem = Ahead!Err) = source.fails)
      BY <3>2 DEF LastItem, Ahead!DONE, Ahead!Err
    <3> QED BY <3>1, <3>3
  <2> QED BY <2>2, <2>3
<1>4. AheadIInv => Ahead!Bounded
  <2> SUFFICES ASSUME AheadIInv PROVE Ahead!Bounded OBVIOUS
  <2>1. Len(buffer) <= Depth BY DEF AheadIInv
  <2>2. Len(buffer) \in Nat /\ Len(yielded) \in Nat
    <3>1. buffer \in Seq(Int) /\ yielded \in Seq(Int) BY DEF AheadIInv, AheadTypes
    <3> QED BY <3>1
  <2>3. source.n \in Nat /\ source.stops \in Nat
    <3>1. source \in [n : Nat, stops : Nat, fails : BOOLEAN] BY DEF AheadIInv, AheadTypes
    <3> QED BY <3>1
  <2>4. worker.at \in {"next", "put", "put last", "ended"}
    <3>1. worker \in [at : {"next", "put", "put last", "ended"}, item : Int]
      BY DEF AheadIInv, AheadTypes
    <3> QED BY <3>1
  <2>5. CASE stop BY <2>1, <2>5 DEF Ahead!Bounded
  <2>6. CASE ~stop
    <3>1. InHand BY <2>6 DEF AheadIInv
    <3>2. Len(yielded) + Len(buffer) \in Int /\ source.n \in Int /\ source.stops \in Int
      BY <2>2, <2>3
    <3>3. source.n <= (Len(yielded) + Len(buffer)) + 1
      BY <2>4, <3>1, <3>2, OneInHand, Zenon DEF InHand
    <3> QED BY <2>1, <2>2, <2>3, <3>3, DepthIs DEF Ahead!Bounded
  <2> QED BY <2>5, <2>6
<1> QED BY <1>3, <1>4

-----------------------------------------------------------------------------
(***************************************************************************)
(* A pull (RecordingsPull).  What reached the sink is the file from the    *)
(* first offset to the one asked for next; every byte of it is of the      *)
(* version that was pinned, and the file opened is that version.           *)
(***************************************************************************)
Stages == {"list", "open", "receive", "returned", "changed", "protocol",
           "ValueError", "no_progress", "sink error"}
Identities == [version : Nat, size : Nat]

PullTypes ==
  /\ file \in Identities /\ file.version > 0 /\ legacy \in BOOLEAN
  /\ pull \in [at : Stages, offset : Nat, first : Nat, idle_opens : Nat,
               opened : Identities, expect : [size : Nat, version : Nat]]
  /\ sunk \in Seq(Nat \X Nat)

(* sunk of the offsets from first on, all of one version unless legacy.    *)
Contiguous ==
  /\ Len(sunk) = pull.offset - pull.first
  /\ \A i \in 1..Len(sunk) : sunk[i][1] = pull.first + i - 1
OfVersion(v) == ~legacy => \A i \in 1..Len(sunk) : sunk[i][2] = v

PullIInv ==
  /\ PullTypes /\ Contiguous
  /\ pull.at = "list" => sunk = <<>>
  /\ pull.at \in {"open", "receive", "returned"} =>
       /\ OfVersion(pull.expect.version)
       /\ sunk # <<>> /\ ~legacy => pull.expect.version > 0
  /\ pull.at \in {"receive", "returned"} =>
       /\ pull.offset <= pull.opened.size
       /\ ~legacy => pull.expect.version = pull.opened.version /\ pull.expect.version > 0
  /\ pull.at = "returned" => pull.offset = pull.opened.size

(* Two sequences joined, by index.                                         *)
LEMMA Joined ==
  ASSUME NEW S, NEW a \in Seq(S), NEW b \in Seq(S)
  PROVE  /\ a \o b \in Seq(S) /\ Len(a \o b) = Len(a) + Len(b)
         /\ \A i \in 1..Len(a) : (a \o b)[i] = a[i]
         /\ \A i \in (Len(a) + 1)..(Len(a) + Len(b)) :
              (a \o b)[i] = b[i - Len(a)] /\ i - Len(a) \in 1..Len(b)
OBVIOUS

(* Before a pull nothing reached the sink.                                 *)
LEMMA PullInit == Pull!Init => PullIInv
<1> SUFFICES ASSUME Pull!Init PROVE PullIInv
  OBVIOUS
<1>0. file \in [version : {1}, size : Sizes] /\ Sizes \subseteq Nat /\ legacy \in BOOLEAN
  BY ReadsAssumption DEF Pull!Init
<1>1. file \in Identities /\ file.version = 1 /\ file.size \in Nat
  <2>1. file = [version |-> file.version, size |-> file.size]
    BY <1>0
  <2>2. file.version = 1 /\ file.size \in Nat
    BY <1>0
  <2> QED BY <2>1, <2>2 DEF Identities
<1>2. PICK start \in 0..file.size, first \in {"list", "open"} :
        pull = [at |-> first, offset |-> start, first |-> start, idle_opens |-> 0,
                opened |-> [version |-> 0, size |-> 0], expect |-> [size |-> 0, version |-> 0]]
  BY DEF Pull!Init, Pull!Unchecked
<1>3. start \in Nat
  BY <1>1
<1>4. sunk = <<>>
  BY DEF Pull!Init
<1>5. PullTypes
  <2>1. pull \in [at : Stages, offset : Nat, first : Nat, idle_opens : Nat,
                 opened : Identities, expect : [size : Nat, version : Nat]]
    BY <1>2, <1>3 DEF Stages, Identities
  <2> QED BY <1>0, <1>1, <1>4, <2>1 DEF PullTypes
<1>6. Contiguous
  <2>1. pull.offset = start /\ pull.first = start
    BY <1>2
  <2> QED BY <1>3, <1>4, <2>1 DEF Contiguous
<1>7. pull.at \in {"list", "open"}
  BY <1>2
<1> QED BY <1>4, <1>5, <1>6, <1>7 DEF PullIInv, OfVersion

(* Every step of the pull, of the caller of a listing and of the device.   *)
LEMMA PullNext == PullIInv /\ [Pull!Next]_pull_v => PullIInv'
<1> SUFFICES ASSUME PullIInv, [Pull!Next]_pull_v PROVE PullIInv'
  OBVIOUS
<1>0. PullTypes /\ Contiguous
  BY DEF PullIInv
<1>1. ASSUME Pull!ListSession PROVE PullIInv'
  <2>1. UNCHANGED <<file, legacy, sunk>> /\ pull.at = "list" /\ sunk = <<>>
    BY <1>1 DEF Pull!ListSession, PullIInv
  <2>2. \/ pull' = [pull EXCEPT !.at = "ValueError"]
        \/ pull' = [pull EXCEPT !.at = "protocol"]
        \/ pull' = [pull EXCEPT !.at = "open", !.expect = Pull!Identity]
    BY <1>1 DEF Pull!ListSession
  <2>3. Pull!Identity \in [size : Nat, version : Nat]
    BY <1>0 DEF PullTypes, Identities, Pull!Identity
  <2>4. /\ pull' \in [at : Stages, offset : Nat, first : Nat, idle_opens : Nat,
                      opened : Identities, expect : [size : Nat, version : Nat]]
        /\ pull'.at \in {"ValueError", "protocol", "open"}
        /\ pull'.offset = pull.offset /\ pull'.first = pull.first
    BY <1>0, <2>2, <2>3 DEF PullTypes, Stages
  <2>5. PullTypes' /\ Contiguous'
    BY <1>0, <2>1, <2>4 DEF PullTypes, Contiguous
  <2>6. OfVersion(pull.expect.version)' /\ sunk' = <<>>
    BY <2>1 DEF OfVersion
  <2> QED BY <2>4, <2>5, <2>6 DEF PullIInv
<1>2. ASSUME Pull!Opens PROVE PullIInv'
  <2>1. UNCHANGED <<file, legacy, sunk>> /\ pull.at = "open"
    BY <1>2 DEF Pull!Opens
  <2>2. PICK o \in Pull!OpenRecordingFile :
          pull' = IF o # "opened" THEN [pull EXCEPT !.at = o]
                  ELSE [pull EXCEPT !.expect = Pull!Identity, !.opened = file,
                          !.at = IF pull.offset = file.size THEN "returned" ELSE "receive"]
    BY <1>2 DEF Pull!Opens
  <2>3. Pull!Identity \in [size : Nat, version : Nat]
    BY <1>0 DEF PullTypes, Identities, Pull!Identity
  <2>4. CASE o # "opened"
    <3>1. o \in {"ValueError", "changed", "protocol"}
      BY <2>4 DEF Pull!OpenRecordingFile
    <3>2. /\ pull' \in [at : Stages, offset : Nat, first : Nat, idle_opens : Nat,
                        opened : Identities, expect : [size : Nat, version : Nat]]
          /\ pull'.at \in {"ValueError", "changed", "protocol"}
          /\ pull'.offset = pull.offset /\ pull'.first = pull.first
      BY <1>0, <2>2, <2>4, <3>1 DEF PullTypes, Stages
    <3>3. PullTypes' /\ Contiguous'
      BY <1>0, <2>1, <3>2 DEF PullTypes, Contiguous
    <3> QED BY <3>2, <3>3 DEF PullIInv
  <2>5. CASE o = "opened"
    <3>1. Pull!Matches(pull.expect) /\ ~(pull.offset > file.size)
      BY <2>5 DEF Pull!OpenRecordingFile
    <3>2. /\ pull' \in [at : Stages, offset : Nat, first : Nat, idle_opens : Nat,
                        opened : Identities, expect : [size : Nat, version : Nat]]
          /\ pull'.at = IF pull.offset = file.size THEN "returned" ELSE "receive"
          /\ pull'.offset = pull.offset /\ pull'.first = pull.first
          /\ pull'.opened = file /\ pull'.expect = Pull!Identity
      BY <1>0, <2>2, <2>3, <2>5 DEF PullTypes, Stages
    <3>3. PullTypes' /\ Contiguous'
      BY <1>0, <2>1, <3>2 DEF PullTypes, Contiguous
    <3>4. ~legacy => Pull!Identity.version = file.version
      BY DEF Pull!Identity
    <3>5. sunk # <<>> /\ ~legacy => pull.expect.version = file.version
      BY <2>1, <3>1, <3>4 DEF PullIInv, Pull!Matches
    <3>6. OfVersion(pull.expect.version)'
      <4>1. CASE sunk = <<>> BY <2>1, <4>1 DEF OfVersion
      <4>2. CASE legacy BY <2>1, <4>2 DEF OfVersion
      <4>3. CASE sunk # <<>> /\ ~legacy
        <5>1. OfVersion(pull.expect.version) BY <2>1 DEF PullIInv
        <5> QED BY <2>1, <3>2, <3>4, <3>5, <4>3, <5>1 DEF OfVersion
      <4> QED BY <4>1, <4>2, <4>3
    <3>7. ~legacy => pull'.expect.version = pull'.opened.version /\ pull'.expect.version > 0
      BY <1>0, <3>2, <3>4 DEF PullTypes
    <3>8. pull.offset \in Nat /\ file.size \in Nat
      BY <1>0 DEF PullTypes, Identities
    <3>9. pull'.offset <= pull'.opened.size /\ (pull'.at = "returned" => pull'.offset = pull'.opened.size)
      BY <3>1, <3>2, <3>8
    <3>10. pull'.at # "list"
      BY <3>2
    <3> QED BY <2>1, <3>3, <3>6, <3>7, <3>9, <3>10 DEF PullIInv
  <2> QED BY <2>4, <2>5
<1>3. ASSUME NEW n \in 0..pull.opened.size, Pull!Receive(n) PROVE PullIInv'
  <2> DEFINE idle == IF n > 0 THEN 0 ELSE pull.idle_opens + 1
             stage == IF pull.offset + n = pull.opened.size THEN "returned"
                      ELSE IF idle >= MaxOpens THEN "no_progress" ELSE "open"
             more == [i \in 1..n |-> <<pull.offset + i - 1, pull.opened.version>>]
  <2>1. /\ UNCHANGED <<file, legacy>> /\ pull.at = "receive"
        /\ n <= pull.opened.size - pull.offset /\ sunk' = sunk \o more
        /\ pull' = [pull EXCEPT !.offset = @ + n, !.idle_opens = idle, !.at = stage]
    BY <1>3 DEF Pull!Receive
  <2>2. /\ pull.offset \in Nat /\ pull.first \in Nat /\ pull.idle_opens \in Nat
        /\ pull.opened.size \in Nat /\ pull.opened.version \in Nat /\ n \in Nat
        /\ pull.expect.version \in Nat /\ sunk \in Seq(Nat \X Nat)
    BY <1>0 DEF PullTypes, Identities
  <2>3. idle \in Nat
    BY <2>2
  <2>4. stage \in {"returned", "no_progress", "open"}
    OBVIOUS
  <2>5. /\ pull' \in [at : Stages, offset : Nat, first : Nat, idle_opens : Nat,
                      opened : Identities, expect : [size : Nat, version : Nat]]
        /\ pull'.at = stage /\ pull'.offset = pull.offset + n /\ pull'.first = pull.first
        /\ pull'.opened = pull.opened /\ pull'.expect = pull.expect
    <3> HIDE DEF idle, stage
    <3>1. stage \in Stages
      BY <2>4 DEF Stages
    <3>2. pull.offset + n \in Nat
      BY <2>2
    <3> QED BY <1>0, <2>1, <2>3, <3>1, <3>2 DEF PullTypes
  <2>6. more \in Seq(Nat \X Nat) /\ Len(more) = n
    <3>1. \A i \in 1..n : <<pull.offset + i - 1, pull.opened.version>> \in Nat \X Nat
      BY <2>2
    <3> QED BY <2>2, <3>1
  <2>7. \A i \in 1..n : more[i] = <<pull.offset + i - 1, pull.opened.version>>
    OBVIOUS
  <2> HIDE DEF more
  <2>8. /\ sunk' \in Seq(Nat \X Nat) /\ Len(sunk') = Len(sunk) + n
        /\ \A i \in 1..Len(sunk) : sunk'[i] = sunk[i]
        /\ \A i \in (Len(sunk) + 1)..(Len(sunk) + n) :
             sunk'[i] = <<pull.offset + (i - Len(sunk)) - 1, pull.opened.version>>
    <3>1. sunk' = sunk \o more
      BY <2>1
    <3>2. sunk' \in Seq(Nat \X Nat) /\ Len(sunk') = Len(sunk) + n
      BY <2>2, <2>6, <3>1, Joined, Zenon
    <3>3. \A i \in 1..Len(sunk) : sunk'[i] = sunk[i]
      BY <2>2, <2>6, <3>1, Joined, Zenon
    <3>4. \A i \in (Len(sunk) + 1)..(Len(sunk) + n) :
            sunk'[i] = more[i - Len(sunk)] /\ i - Len(sunk) \in 1..n
      BY <2>2, <2>6, <3>1, Joined, Zenon
    <3> QED BY <2>7, <3>2, <3>3, <3>4, Zenon
  <2>9. PullTypes'
    BY <1>0, <2>1, <2>5, <2>8 DEF PullTypes
  <2>10. \A i \in 1..Len(sunk') : i \in 1..Len(sunk) \/ i \in (Len(sunk) + 1)..(Len(sunk) + n)
    BY <2>2, <2>8
  <2>11. Contiguous'
    <3>1. Len(sunk') = pull'.offset - pull'.first
      BY <1>0, <2>2, <2>5, <2>8 DEF Contiguous
    <3>2. ASSUME NEW i \in 1..Len(sunk') PROVE sunk'[i][1] = pull.first + i - 1
      <4>1. CASE i \in 1..Len(sunk)
        BY <1>0, <2>8, <4>1 DEF Contiguous
      <4>2. CASE i \in (Len(sunk) + 1)..(Len(sunk) + n)
        <5>1. sunk'[i][1] = pull.offset + (i - Len(sunk)) - 1
          BY <2>8, <4>2
        <5>2. i \in Nat /\ Len(sunk) \in Nat
          BY <2>2, <4>2
        <5> QED BY <1>0, <2>2, <5>1, <5>2 DEF Contiguous
      <4> QED BY <2>10, <4>1, <4>2
    <3> QED BY <2>5, <3>1, <3>2 DEF Contiguous
  <2>12. ~legacy => pull.expect.version = pull.opened.version
    BY <2>1 DEF PullIInv
  <2>13. OfVersion(pull.expect.version)'
    <3> SUFFICES ASSUME ~legacy, NEW i \in 1..Len(sunk') PROVE sunk'[i][2] = pull.expect.version
      BY <2>1, <2>5 DEF OfVersion
    <3>1. CASE i \in 1..Len(sunk)
      <4>1. OfVersion(pull.expect.version) BY <2>1 DEF PullIInv
      <4> QED BY <2>8, <3>1, <4>1 DEF OfVersion
    <3>2. CASE i \in (Len(sunk) + 1)..(Len(sunk) + n)
      BY <2>8, <2>12, <3>2
    <3> QED BY <2>10, <3>1, <3>2
  <2>14. ~legacy => pull.expect.version > 0
    BY <2>1 DEF PullIInv
  <2>15. pull'.offset <= pull'.opened.size /\ (pull'.at = "returned" => pull'.offset = pull'.opened.size)
    BY <2>1, <2>2, <2>5
  <2>16. pull'.at # "list"
    BY <2>4, <2>5
  <2> QED BY <2>1, <2>5, <2>9, <2>11, <2>12, <2>13, <2>14, <2>15, <2>16 DEF PullIInv
<1>4. ASSUME Pull!SinkFails PROVE PullIInv'
  <2>1. UNCHANGED <<file, legacy, sunk>> /\ pull' = [pull EXCEPT !.at = "sink error"]
    BY <1>4 DEF Pull!SinkFails
  <2>2. /\ pull' \in [at : Stages, offset : Nat, first : Nat, idle_opens : Nat,
                      opened : Identities, expect : [size : Nat, version : Nat]]
        /\ pull'.at = "sink error" /\ pull'.offset = pull.offset /\ pull'.first = pull.first
    BY <1>0, <2>1 DEF PullTypes, Stages
  <2> QED BY <1>0, <2>1, <2>2 DEF PullIInv, PullTypes, Contiguous
<1>5. ASSUME Pull!Replace PROVE PullIInv'
  <2>1. UNCHANGED <<legacy, pull, sunk>>
    BY <1>5 DEF Pull!Replace
  <2>2. file' \in Identities /\ file'.version > 0
    <3>1. PICK s \in Sizes : file' = [version |-> file.version + 1, size |-> s]
      BY <1>5 DEF Pull!Replace
    <3>2. s \in Nat
      BY ReadsAssumption
    <3>3. file.version \in Nat
      BY <1>0 DEF PullTypes, Identities
    <3> QED BY <3>1, <3>2, <3>3 DEF Identities
  <2> QED BY <2>1, <2>2 DEF PullIInv, PullTypes, Contiguous, OfVersion
<1>6. ASSUME UNCHANGED <<file, legacy, pull, sunk>> PROVE PullIInv'
  BY <1>6 DEF PullIInv, PullTypes, Contiguous, OfVersion
<1> QED
  BY <1>1, <1>2, <1>3, <1>4, <1>5, <1>6
  DEF Pull!Next, Pull!Pulls, Pull!ListPage, pull_v

(* A pull that returned is at the end of the file it pinned (pull_file).   *)
LEMMA PullSafe == PullIInv => Pull!PulledWhole
<1> SUFFICES ASSUME PullIInv, pull.at = "returned"
             PROVE  /\ Len(sunk) = pull.opened.size - pull.first
                    /\ \A i \in DOMAIN sunk : sunk[i][1] = pull.first + i - 1
                    /\ ~legacy => \A i \in DOMAIN sunk : sunk[i][2] = pull.opened.version
  BY DEF Pull!PulledWhole
<1>1. Contiguous /\ OfVersion(pull.expect.version) /\ pull.offset = pull.opened.size
      /\ (~legacy => pull.expect.version = pull.opened.version)
  BY DEF PullIInv
<1>2. DOMAIN sunk = 1..Len(sunk)
  BY DEF PullIInv, PullTypes
<1> QED BY <1>1, <1>2 DEF Contiguous, OfVersion

-----------------------------------------------------------------------------
(***************************************************************************)
(* A listing (RecordingsPull).  The pages taken are the first and cursors  *)
(* seen; the cursor asked for next is none of them.                        *)
(***************************************************************************)
Pages == Cursors \cup {"first"}
Taken == {list.entries[i] : i \in 1..Len(list.entries)}

ListIInv ==
  /\ pages \in [Pages -> Cursors \cup {""}]
  /\ list.entries \in Seq(Pages) /\ Taken \subseteq {"first"} \cup list.seen
  /\ \A i, j \in 1..Len(list.entries) : i # j => list.entries[i] # list.entries[j]
  /\ list.at = "page" => list.cursor \in (Pages \cap ({"first"} \cup list.seen)) \ Taken
  /\ list.at = "returned" =>
       Len(list.entries) > 0 /\ pages[list.entries[Len(list.entries)]] = ""
  /\ list = [at |-> list.at, cursor |-> list.cursor, seen |-> list.seen, entries |-> list.entries]

(* Before a listing no page is taken.                                      *)
LEMMA ListInit == Pull!Init => ListIInv
<1> SUFFICES ASSUME Pull!Init PROVE ListIInv
  OBVIOUS
<1>1. list = [at |-> "page", cursor |-> "first", seen |-> {}, entries |-> <<>>]
  BY DEF Pull!Init
<1>2. list.at = "page" /\ list.cursor = "first" /\ list.entries = <<>>
  BY <1>1
<1>3. Taken = {}
  BY <1>2 DEF Taken
<1>4. pages \in [Pages -> Cursors \cup {""}]
  BY DEF Pull!Init, Pages
<1>5. list.entries \in Seq(Pages) /\ Len(list.entries) = 0
  BY <1>2
<1>6. list = [at |-> list.at, cursor |-> list.cursor, seen |-> list.seen, entries |-> list.entries]
  BY <1>1
<1>7. list.cursor \in (Pages \cap ({"first"} \cup list.seen)) \ Taken
  BY <1>2, <1>3 DEF Pages
<1>8. \A i, j \in 1..Len(list.entries) : i # j => list.entries[i] # list.entries[j]
  BY <1>5
<1>9. list.at # "returned"
  BY <1>2
<1> QED BY <1>3, <1>4, <1>5, <1>6, <1>7, <1>8, <1>9 DEF ListIInv

(* A sequence with one element more, by index.                             *)
LEMMA Appended ==
  ASSUME NEW S, NEW s \in Seq(S), NEW e \in S
  PROVE  /\ Append(s, e) \in Seq(S) /\ Len(Append(s, e)) = Len(s) + 1 /\ Len(s) \in Nat
         /\ Append(s, e)[Len(s) + 1] = e
         /\ \A i \in 1..Len(s) : Append(s, e)[i] = s[i]
         /\ \A i \in 1..(Len(s) + 1) : i \in 1..Len(s) \/ i = Len(s) + 1
OBVIOUS

(* A page more, of a cursor never asked for before (list_all_recordings).  *)
LEMMA ListNext == ListIInv /\ [Pull!Next]_pull_v => ListIInv'
<1> SUFFICES ASSUME ListIInv, [Pull!Next]_pull_v PROVE ListIInv'
  OBVIOUS
<1>1. CASE UNCHANGED <<list, pages>>
  BY <1>1 DEF ListIInv, Taken
<1>2. CASE Pull!ListPage
  <2> DEFINE next == pages[list.cursor]
             verdict == IF next = "" THEN "returned"
                        ELSE IF next \in list.seen THEN "protocol" ELSE list.at
  <2>1. /\ list.at = "page" /\ UNCHANGED pages
        /\ list' = [list EXCEPT !.entries = Append(@, list.cursor), !.seen = @ \cup {next},
                               !.cursor = next, !.at = verdict]
    BY <1>2 DEF Pull!ListPage
  <2>2. list.cursor \in Pages /\ list.cursor \notin Taken /\ list.cursor \in {"first"} \cup list.seen
    BY <2>1 DEF ListIInv
  <2>3. next \in Cursors \cup {""}
    BY <2>2 DEF ListIInv
  <2>4. /\ list'.entries = Append(list.entries, list.cursor) /\ list'.seen = list.seen \cup {next}
        /\ list'.cursor = next /\ list'.at = verdict
        /\ list' = [at |-> verdict, cursor |-> next, seen |-> list.seen \cup {next},
                    entries |-> Append(list.entries, list.cursor)]
    <3> HIDE DEF next, verdict
    <3>1. list = [at |-> list.at, cursor |-> list.cursor, seen |-> list.seen, entries |-> list.entries]
      BY DEF ListIInv
    <3> QED BY <2>1, <3>1
  <2>5. /\ list'.entries \in Seq(Pages) /\ Len(list'.entries) = Len(list.entries) + 1
        /\ Len(list.entries) \in Nat /\ list'.entries[Len(list.entries) + 1] = list.cursor
        /\ \A i \in 1..Len(list.entries) : list'.entries[i] = list.entries[i]
        /\ \A i \in 1..(Len(list.entries) + 1) : i \in 1..Len(list.entries) \/ i = Len(list.entries) + 1
    <3>1. list.entries \in Seq(Pages)
      BY DEF ListIInv
    <3>2. list'.entries = Append(list.entries, list.cursor)
      BY <2>4, Zenon
    <3>3. /\ Append(list.entries, list.cursor) \in Seq(Pages)
          /\ Len(Append(list.entries, list.cursor)) = Len(list.entries) + 1 /\ Len(list.entries) \in Nat
          /\ Append(list.entries, list.cursor)[Len(list.entries) + 1] = list.cursor
          /\ \A i \in 1..Len(list.entries) : Append(list.entries, list.cursor)[i] = list.entries[i]
          /\ \A i \in 1..(Len(list.entries) + 1) : i \in 1..Len(list.entries) \/ i = Len(list.entries) + 1
      <4>1. list.cursor \in Pages
        BY <2>2
      <4> QED BY <3>1, <4>1, Appended
    <3> QED BY <3>2, <3>3, Zenon
  <2>6. Taken' = Taken \cup {list.cursor}
    BY <2>5 DEF Taken
  <2>7. Taken' \subseteq {"first"} \cup list.seen
    BY <2>2, <2>6 DEF ListIInv
  <2>8. \A i, j \in 1..Len(list'.entries) : i # j => list'.entries[i] # list'.entries[j]
    <3>1. \A i \in 1..Len(list.entries) : list.entries[i] # list.cursor
      BY <2>2 DEF Taken
    <3> SUFFICES ASSUME NEW i \in 1..Len(list'.entries), NEW j \in 1..Len(list'.entries), i # j
                 PROVE  list'.entries[i] # list'.entries[j]
      OBVIOUS
    <3>2. CASE i \in 1..Len(list.entries) /\ j \in 1..Len(list.entries)
      BY <2>5, <3>2 DEF ListIInv
    <3>3. CASE i \in 1..Len(list.entries) /\ j = Len(list.entries) + 1
      BY <2>5, <3>1, <3>3
    <3>4. CASE i = Len(list.entries) + 1 /\ j \in 1..Len(list.entries)
      BY <2>5, <3>1, <3>4
    <3> QED BY <2>5, <3>2, <3>3, <3>4
  <2>9. list'.at = "page" => list'.cursor \in (Pages \cap ({"first"} \cup list'.seen)) \ Taken'
    <3> SUFFICES ASSUME list'.at = "page" PROVE next \in Pages /\ next \notin Taken'
      BY <2>4
    <3>1. next # "" /\ next \notin list.seen
      BY <2>4
    <3>2. next \in Cursors /\ next # "first"
      BY <2>3, <3>1, ReadsAssumption
    <3> QED BY <2>7, <3>1, <3>2 DEF Pages
  <2>10. list'.at = "returned" =>
           Len(list'.entries) > 0 /\ pages'[list'.entries[Len(list'.entries)]] = ""
    <3> SUFFICES ASSUME list'.at = "returned"
                 PROVE  Len(list'.entries) > 0 /\ pages[list'.entries[Len(list'.entries)]] = ""
      BY <2>1
    <3>1. next = ""
      BY <2>1, <2>4
    <3>2. list'.entries[Len(list'.entries)] = list.cursor /\ Len(list'.entries) > 0
      BY <2>5
    <3> QED BY <3>1, <3>2
  <2>11. pages' \in [Pages -> Cursors \cup {""}]
    BY <2>1 DEF ListIInv
  <2>12. Taken' \subseteq {"first"} \cup list'.seen
    BY <2>4, <2>7
  <2>13. list' = [at |-> list'.at, cursor |-> list'.cursor, seen |-> list'.seen, entries |-> list'.entries]
    <3> HIDE DEF next, verdict
    <3> QED BY <2>4
  <2> HIDE DEF next, verdict
  <2> QED BY <2>5, <2>8, <2>9, <2>10, <2>11, <2>12, <2>13 DEF ListIInv
<1> QED
  BY <1>1, <1>2
  DEF Pull!Next, Pull!Pulls, Pull!ListSession, Pull!Opens, Pull!Receive,
      Pull!SinkFails, Pull!Replace, pull_v

(* The entries of a listing are of distinct pages.                         *)
LEMMA ListSafe == ListIInv => Pull!ListedOnce
<1> SUFFICES ASSUME ListIInv PROVE Pull!ListedOnce
  OBVIOUS
<1>1. DOMAIN list.entries = 1..Len(list.entries)
  <2>1. list.entries \in Seq(Pages)
    BY DEF ListIInv
  <2> QED BY <2>1
<1> QED BY <1>1 DEF ListIInv, Pull!ListedOnce

-----------------------------------------------------------------------------
(***************************************************************************)
(* A log read (Diag).  While no reply was lost, the replies in flight are  *)
(* some of earlier requests and then those of this one, each the next      *)
(* byte after what was taken and what is before it; a DONE comes after     *)
(* the last; and the device goes on where they end.                        *)
(***************************************************************************)
Wanted == {"nothing", "read", "list"}
Verdicts == {"idle", "reading", "returned", "gap", "failed", "timeout"}
Kinds == {"chunk", "DONE", "listing", "FAILED"}
Replies ==
  {r \in [session : Nat, kind : Kinds, at : Nat, last : BOOLEAN] :
     r.last => r.at = FileChunks - 1}

LogTypes ==
  /\ rd \in [want : Wanted, at : Verdicts, session : Nat, out : Seq(Nat)]
  /\ device \in [session : Nat, want : Wanted, next : Nat]
  /\ wire \in Seq(Replies) /\ losses_left \in 0..MaxLost

InSession ==
  /\ device.session \in {0, rd.session}
  /\ device.session = rd.session /\ rd.want = "read" => device.want # "list"
  /\ \A i \in 1..Len(wire) : wire[i].session <= rd.session
  /\ rd.at = "reading" => rd.session > 0

Wants == rd.at = "reading" /\ rd.want = "read"
(* r follows n chunks of the file.                                         *)
Follows(r, n) ==
  /\ r.kind = "chunk" => r.at = n
  /\ r.kind = "DONE" => n = FileChunks
  /\ r.kind # "listing"
InFlight(stale) ==
  /\ \A i \in 1..stale : wire[i].session < rd.session
  /\ \A i \in (stale + 1)..Len(wire) :
       /\ wire[i].session = rd.session
       /\ Wants => Follows(wire[i], Len(rd.out) + i - 1 - stale)
  /\ Wants /\ device.session = rd.session =>
       device.next = Len(rd.out) + Len(wire) - stale

LogsIInv ==
  /\ LogTypes /\ InSession
  /\ \A i \in 1..Len(rd.out) : rd.out[i] = i - 1
  /\ losses_left = MaxLost =>
       /\ \E stale \in 0..Len(wire) : InFlight(stale)
       /\ rd.at = "returned" /\ rd.want = "read" => Len(rd.out) >= FileChunks

(* The bounds of a log read are numbers.                                   *)
LEMMA LogBounds == MaxLost \in Nat /\ FileChunks \in Nat
BY ReadsAssumption

(* Before the first request nothing is in flight.                          *)
LEMMA LogsInit == Logs!Init => LogsIInv
<1> SUFFICES ASSUME Logs!Init PROVE LogsIInv
  OBVIOUS
<1>1. /\ rd = [want |-> "nothing", at |-> "idle", session |-> 0, out |-> <<>>]
      /\ device = [session |-> 0, want |-> "nothing", next |-> 0]
      /\ wire = <<>> /\ losses_left = MaxLost
  BY DEF Logs!Init, Logs!Quiet
<1>2. rd.at = "idle" /\ rd.session = 0 /\ rd.want = "nothing" /\ rd.out = <<>> /\ device.session = 0
  BY <1>1
<1>3. rd \in [want : Wanted, at : Verdicts, session : Nat, out : Seq(Nat)]
  BY <1>1 DEF Wanted, Verdicts
<1>4. device \in [session : Nat, want : Wanted, next : Nat]
  BY <1>1 DEF Wanted
<1>5. wire \in Seq(Replies) /\ Len(wire) = 0 /\ Len(rd.out) = 0 /\ losses_left \in 0..MaxLost
  <2>1. wire = <<>> /\ rd.out = <<>> /\ losses_left = MaxLost /\ MaxLost \in Nat
    BY <1>1, <1>2, ReadsAssumption
  <2> QED BY <2>1
<1>6. ~Wants
  BY <1>2 DEF Wants
<1>7. InFlight(0)
  BY <1>5, <1>6 DEF InFlight
<1>8. LogTypes
  BY <1>3, <1>4, <1>5 DEF LogTypes
<1>9. InSession
  BY <1>2, <1>5 DEF InSession
<1>10. 0 \in 0..Len(wire)
  BY <1>5
<1> QED BY <1>2, <1>5, <1>7, <1>8, <1>9, <1>10 DEF LogsIInv

(* A sequence without its first element, by index.                         *)
LEMMA Tailed ==
  ASSUME NEW S, NEW s \in Seq(S), s # <<>>
  PROVE  /\ Tail(s) \in Seq(S) /\ Len(s) \in Nat \ {0} /\ Len(Tail(s)) = Len(s) - 1
         /\ Head(s) = s[1] /\ s[1] \in S
         /\ \A i \in 1..Len(Tail(s)) : Tail(s)[i] = s[i + 1] /\ i + 1 \in 1..Len(s)
OBVIOUS

(* A sequence with one element taken out holds no element it did not       *)
(* hold.                                                                   *)
LEMMA Dropped ==
  ASSUME NEW S, NEW s \in Seq(S), NEW i \in 1..Len(s)
  PROVE  /\ SubSeq(s, 1, i - 1) \o SubSeq(s, i + 1, Len(s)) \in Seq(S)
         /\ \A j \in 1..Len(SubSeq(s, 1, i - 1) \o SubSeq(s, i + 1, Len(s))) :
              \E k \in 1..Len(s) :
                (SubSeq(s, 1, i - 1) \o SubSeq(s, i + 1, Len(s)))[j] = s[k]
<1> DEFINE a == SubSeq(s, 1, i - 1)
           b == SubSeq(s, i + 1, Len(s))
<1>1. a \in Seq(S) /\ Len(a) = i - 1 /\ \A j \in 1..Len(a) : a[j] = s[j]
  OBVIOUS
<1>2. b \in Seq(S) /\ Len(b) = Len(s) - i /\ \A j \in 1..Len(b) : b[j] = s[i + j]
  OBVIOUS
<1>3. Len(s) \in Nat
  OBVIOUS
<1> HIDE DEF a, b
<1>4. /\ a \o b \in Seq(S) /\ Len(a \o b) = Len(a) + Len(b)
      /\ \A j \in 1..Len(a) : (a \o b)[j] = a[j]
      /\ \A j \in (Len(a) + 1)..(Len(a) + Len(b)) :
           (a \o b)[j] = b[j - Len(a)] /\ j - Len(a) \in 1..Len(b)
  BY <1>1, <1>2, Joined, Zenon
<1>5. ASSUME NEW j \in 1..Len(a \o b) PROVE \E k \in 1..Len(s) : (a \o b)[j] = s[k]
  <2>1. CASE j \in 1..Len(a)
    <3>1. (a \o b)[j] = s[j] /\ j \in 1..Len(s)
      BY <1>1, <1>3, <1>4, <2>1
    <3> QED BY <3>1
  <2>2. CASE j \in (Len(a) + 1)..(Len(a) + Len(b))
    <3>1. (a \o b)[j] = s[i + (j - Len(a))] /\ i + (j - Len(a)) \in 1..Len(s)
      BY <1>1, <1>2, <1>3, <1>4, <2>2
    <3> QED BY <3>1
  <2>3. j \in 1..Len(a) \/ j \in (Len(a) + 1)..(Len(a) + Len(b))
    BY <1>1, <1>2, <1>3, <1>4
  <2> QED BY <2>1, <2>2, <2>3
<1> QED BY <1>4, <1>5 DEF a, b

(* A request: what is in flight is of earlier ones, and its reply fits.    *)
LEMMA RequestKeeps ==
  ASSUME LogsIInv, NEW want \in {"read", "list"}, Logs!Request(want)
  PROVE  LogsIInv'
<1>0. LogTypes /\ InSession
  BY DEF LogsIInv
<1>1. /\ UNCHANGED <<wire, losses_left>>
      /\ rd' = [want |-> want, at |-> "reading", session |-> rd.session + 1, out |-> <<>>]
      /\ device' = [session |-> rd.session + 1, want |-> want, next |-> 0]
  BY DEF Logs!Request
<1>2. rd.session \in Nat /\ want \in Wanted
  BY <1>0 DEF LogTypes, Wanted
<1>3. /\ rd'.session = rd.session + 1 /\ rd'.out = <<>> /\ rd'.at = "reading" /\ rd'.want = want
      /\ device'.session = rd.session + 1 /\ device'.next = 0 /\ device'.want = want
  BY <1>1
<1>4. wire \in Seq(Replies) /\ Len(wire) \in Nat
  <2>1. wire \in Seq(Replies)
    BY <1>0 DEF LogTypes
  <2> QED BY <2>1
<1>5. LogTypes'
  <2>1. rd' \in [want : Wanted, at : Verdicts, session : Nat, out : Seq(Nat)]
    BY <1>1, <1>2 DEF Verdicts
  <2>2. device' \in [session : Nat, want : Wanted, next : Nat]
    BY <1>1, <1>2
  <2> QED BY <1>0, <1>1, <2>1, <2>2 DEF LogTypes
<1>6. \A i \in 1..Len(wire) : wire[i].session <= rd.session /\ wire[i].session \in Nat
  <2>1. \A i \in 1..Len(wire) : wire[i] \in Replies
    BY <1>4
  <2> QED BY <1>0, <2>1 DEF InSession, Replies
<1>7. InSession'
  <2>1. \A i \in 1..Len(wire') : wire'[i].session <= rd'.session
    BY <1>1, <1>2, <1>3, <1>6
  <2> QED BY <1>2, <1>3, <2>1 DEF InSession
<1>8. InFlight(Len(wire))'
  <2>1. \A i \in 1..Len(wire') : wire'[i].session < rd'.session
    BY <1>1, <1>2, <1>3, <1>6
  <2>2. (Len(wire') + 1)..Len(wire') = {}
    BY <1>1, <1>4
  <2>3. device'.next = Len(rd'.out) + Len(wire') - Len(wire')
    BY <1>1, <1>3, <1>4
  <2> QED BY <2>1, <2>2, <2>3 DEF InFlight
<1>9. \A i \in 1..Len(rd'.out) : rd'.out[i] = i - 1
  BY <1>3
<1>10. Len(wire)' \in 0..Len(wire')
  BY <1>1, <1>4
<1> QED BY <1>3, <1>5, <1>7, <1>8, <1>9, <1>10 DEF LogsIInv

(* Taking a reply, in the fields of rd.                                    *)
LEMMA TakeIs ==
  ASSUME LogsIInv, NEW verdict \in Verdicts, NEW got \in Seq(Nat), Logs!Take(verdict, got)
  PROVE  /\ rd' \in [want : Wanted, at : Verdicts, session : Nat, out : Seq(Nat)]
         /\ rd'.want = rd.want /\ rd'.at = verdict /\ rd'.session = rd.session /\ rd'.out = got
         /\ wire' = Tail(wire) /\ losses_left' = losses_left /\ rd.at = "reading"
<1>1. rd \in [want : Wanted, at : Verdicts, session : Nat, out : Seq(Nat)]
  BY DEF LogsIInv, LogTypes
<1>2. /\ rd' = [rd EXCEPT !.at = verdict, !.out = got]
      /\ wire' = Tail(wire) /\ losses_left' = losses_left /\ rd.at = "reading"
  BY DEF Logs!Take
<1> QED BY <1>1, <1>2

(* The reply taken is of an earlier request, or the one that follows what  *)
(* was taken before; and what is left in flight is as it was.              *)
LEMMA HeadIs ==
  ASSUME LogsIInv, wire # <<>>, losses_left = MaxLost, rd.at = "reading"
  PROVE  \E stale \in 0..Len(Tail(wire)) :
           /\ \A i \in 1..stale : Tail(wire)[i].session < rd.session
           /\ \A i \in (stale + 1)..Len(Tail(wire)) : Tail(wire)[i].session = rd.session
           /\ Logs!Mine(Head(wire)) /\ Wants => Follows(Head(wire), Len(rd.out))
           /\ Wants => \A i \in (stale + 1)..Len(Tail(wire)) :
                Follows(Tail(wire)[i],
                  (IF Logs!Mine(Head(wire)) THEN Len(rd.out) + 1 ELSE Len(rd.out)) + i - 1 - stale)
           /\ Wants /\ device.session = rd.session =>
                device.next = (IF Logs!Mine(Head(wire)) THEN Len(rd.out) + 1 ELSE Len(rd.out))
                                + Len(Tail(wire)) - stale
<1>1. PICK stale \in 0..Len(wire) : InFlight(stale)
  BY DEF LogsIInv
<1>2. wire \in Seq(Replies)
  BY DEF LogsIInv, LogTypes
<1>3. /\ Len(wire) \in Nat \ {0} /\ Len(Tail(wire)) = Len(wire) - 1
      /\ Head(wire) = wire[1] /\ wire[1] \in Replies
      /\ \A i \in 1..Len(Tail(wire)) : Tail(wire)[i] = wire[i + 1] /\ i + 1 \in 1..Len(wire)
  BY <1>2, Tailed, Zenon
<1>4. wire[1].session \in Nat /\ rd.session \in Nat
  BY <1>3 DEF LogsIInv, LogTypes, Replies
<1>5. Len(rd.out) \in Nat
  <2>1. rd.out \in Seq(Nat)
    BY DEF LogsIInv, LogTypes
  <2> QED BY <2>1
<1>6. CASE stale > 0
  <2>1. ~Logs!Mine(Head(wire))
    BY <1>1, <1>3, <1>4, <1>6 DEF InFlight, Logs!Mine
  <2>2. stale - 1 \in 0..Len(Tail(wire))
    BY <1>1, <1>3, <1>6
  <2>3. \A i \in 1..(stale - 1) : Tail(wire)[i].session < rd.session
    BY <1>1, <1>3, <1>6 DEF InFlight
  <2>4. \A i \in (stale - 1 + 1)..Len(Tail(wire)) :
          /\ i + 1 \in (stale + 1)..Len(wire) /\ Tail(wire)[i] = wire[i + 1]
          /\ Len(rd.out) + (i + 1) - 1 - stale = Len(rd.out) + i - 1 - (stale - 1)
    BY <1>1, <1>3, <1>5, <1>6
  <2>5. \A i \in (stale - 1 + 1)..Len(Tail(wire)) :
          /\ Tail(wire)[i].session = rd.session
          /\ Wants => Follows(Tail(wire)[i], Len(rd.out) + i - 1 - (stale - 1))
    <3> SUFFICES ASSUME NEW i \in (stale - 1 + 1)..Len(Tail(wire))
                 PROVE  /\ Tail(wire)[i].session = rd.session
                        /\ Wants => Follows(Tail(wire)[i], Len(rd.out) + i - 1 - (stale - 1))
      OBVIOUS
    <3>1. /\ wire[i + 1].session = rd.session
          /\ Wants => Follows(wire[i + 1], Len(rd.out) + (i + 1) - 1 - stale)
      BY <1>1, <2>4, Zenon DEF InFlight
    <3> QED BY <2>4, <3>1, Zenon
  <2>6. Wants /\ device.session = rd.session =>
          device.next = Len(rd.out) + Len(Tail(wire)) - (stale - 1)
    BY <1>1, <1>3, <1>5, <1>6 DEF InFlight
  <2> DEFINE s == stale - 1
  <2>7. /\ s \in 0..Len(Tail(wire))
        /\ \A i \in 1..s : Tail(wire)[i].session < rd.session
        /\ \A i \in (s + 1)..Len(Tail(wire)) :
             /\ Tail(wire)[i].session = rd.session
             /\ Wants => Follows(Tail(wire)[i], Len(rd.out) + i - 1 - s)
        /\ Wants /\ device.session = rd.session => device.next = Len(rd.out) + Len(Tail(wire)) - s
    BY <2>2, <2>3, <2>5, <2>6
  <2> HIDE DEF s
  <2> QED BY <2>1, <2>7, Zenon
<1>7. CASE ~(stale > 0)
  <2>1. stale = 0
    BY <1>1, <1>7
  <2>2. 1 \in (stale + 1)..Len(wire)
    BY <1>3, <2>1
  <2>3. wire[1].session = rd.session
    BY <1>1, <2>2, Zenon DEF InFlight
  <2>4. Logs!Mine(Head(wire))
    BY <1>3, <2>3 DEF Logs!Mine
  <2>5. Len(rd.out) + 1 - 1 - stale = Len(rd.out)
    BY <1>5, <2>1
  <2>6. Wants => Follows(Head(wire), Len(rd.out))
    <3>1. Wants => Follows(wire[1], Len(rd.out) + 1 - 1 - stale)
      BY <1>1, <2>2, Zenon DEF InFlight
    <3> QED BY <1>3, <2>5, <3>1, Zenon
  <2>7. \A i \in (0 + 1)..Len(Tail(wire)) :
          /\ i + 1 \in (stale + 1)..Len(wire) /\ Tail(wire)[i] = wire[i + 1]
          /\ Len(rd.out) + (i + 1) - 1 - stale = (Len(rd.out) + 1) + i - 1 - 0
    BY <1>3, <1>5, <2>1
  <2>8. \A i \in (0 + 1)..Len(Tail(wire)) :
          /\ Tail(wire)[i].session = rd.session
          /\ Wants => Follows(Tail(wire)[i], (Len(rd.out) + 1) + i - 1 - 0)
    <3> SUFFICES ASSUME NEW i \in (0 + 1)..Len(Tail(wire))
                 PROVE  /\ Tail(wire)[i].session = rd.session
                        /\ Wants => Follows(Tail(wire)[i], (Len(rd.out) + 1) + i - 1 - 0)
      OBVIOUS
    <3>1. /\ wire[i + 1].session = rd.session
          /\ Wants => Follows(wire[i + 1], Len(rd.out) + (i + 1) - 1 - stale)
      BY <1>1, <2>7, Zenon DEF InFlight
    <3> QED BY <2>7, <3>1, Zenon
  <2>9. Wants /\ device.session = rd.session =>
          device.next = (Len(rd.out) + 1) + Len(Tail(wire)) - 0
    BY <1>1, <1>3, <1>5, <2>1 DEF InFlight
  <2>10. 0 \in 0..Len(Tail(wire)) /\ \A i \in 1..0 : Tail(wire)[i].session < rd.session
    BY <1>3
  <2> QED BY <2>4, <2>6, <2>8, <2>9, <2>10, Zenon
<1> QED BY <1>6, <1>7

(* Any reply taken: what the handlers have in common.  The request is over *)
(* with it, or goes on with one chunk more if the reply was its own.       *)
LEMMA TakeKeeps ==
  ASSUME LogsIInv, wire # <<>>, NEW verdict \in Verdicts, NEW got \in Seq(Nat),
         Logs!Take(verdict, got),
         device' = device \/ device' = Logs!Quiet,
         verdict = "reading" =>
           /\ device' = device
           /\ Len(got) = IF Logs!Mine(Head(wire)) THEN Len(rd.out) + 1 ELSE Len(rd.out),
         \A i \in 1..Len(got) : got[i] = i - 1,
         losses_left = MaxLost /\ verdict = "returned" /\ rd.want = "read" => Len(got) >= FileChunks
  PROVE  LogsIInv'
<1>0. LogTypes /\ InSession
  BY DEF LogsIInv
<1>1. /\ rd' \in [want : Wanted, at : Verdicts, session : Nat, out : Seq(Nat)]
      /\ rd'.want = rd.want /\ rd'.at = verdict /\ rd'.session = rd.session /\ rd'.out = got
      /\ wire' = Tail(wire) /\ losses_left' = losses_left /\ rd.at = "reading"
  BY TakeIs
<1>2. /\ Tail(wire) \in Seq(Replies)
      /\ \A i \in 1..Len(Tail(wire)) : Tail(wire)[i] = wire[i + 1] /\ i + 1 \in 1..Len(wire)
  <2>1. wire \in Seq(Replies)
    BY <1>0 DEF LogTypes
  <2> QED BY <2>1, Tailed, Zenon
<1>3. device' \in [session : Nat, want : Wanted, next : Nat]
  <2>1. Logs!Quiet \in [session : Nat, want : Wanted, next : Nat]
    BY DEF Logs!Quiet, Wanted
  <2> QED BY <1>0, <2>1 DEF LogTypes
<1>4. LogTypes'
  BY <1>0, <1>1, <1>2, <1>3 DEF LogTypes
<1>5. InSession'
  <2>1. \A i \in 1..Len(wire') : wire'[i].session <= rd'.session
    BY <1>0, <1>1, <1>2, Zenon DEF InSession
  <2>2. device'.session \in {0, rd'.session} /\ rd'.session > 0
    BY <1>0, <1>1 DEF InSession, Logs!Quiet
  <2>3. device'.session = rd'.session /\ rd'.want = "read" => device'.want # "list"
    BY <1>0, <1>1 DEF InSession, Logs!Quiet
  <2> QED BY <2>1, <2>2, <2>3 DEF InSession
<1>6. ASSUME losses_left = MaxLost PROVE \E stale \in 0..Len(wire') : InFlight(stale)'
  <2>1. PICK stale \in 0..Len(Tail(wire)) :
           /\ \A i \in 1..stale : Tail(wire)[i].session < rd.session
           /\ \A i \in (stale + 1)..Len(Tail(wire)) : Tail(wire)[i].session = rd.session
           /\ Logs!Mine(Head(wire)) /\ Wants => Follows(Head(wire), Len(rd.out))
           /\ Wants => \A i \in (stale + 1)..Len(Tail(wire)) :
                Follows(Tail(wire)[i],
                  (IF Logs!Mine(Head(wire)) THEN Len(rd.out) + 1 ELSE Len(rd.out)) + i - 1 - stale)
           /\ Wants /\ device.session = rd.session =>
                device.next = (IF Logs!Mine(Head(wire)) THEN Len(rd.out) + 1 ELSE Len(rd.out))
                                + Len(Tail(wire)) - stale
    BY <1>1, <1>6, HeadIs, Zenon
  <2>2. CASE verdict # "reading"
    <3>1. ~Wants'
      BY <1>1, <2>2, Zenon DEF Wants
    <3>2. InFlight(stale)'
      BY <1>1, <2>1, <3>1, Zenon DEF InFlight
    <3> QED BY <1>1, <2>1, <3>2, Zenon
  <2>3. CASE verdict = "reading"
    <3>1. /\ device' = device
          /\ Len(got) = IF Logs!Mine(Head(wire)) THEN Len(rd.out) + 1 ELSE Len(rd.out)
      BY <2>3, Zenon
    <3>2. Wants' <=> Wants
      BY <1>1, <2>3, Zenon DEF Wants
    <3>3. Wants => \A i \in (stale + 1)..Len(Tail(wire)) :
                     Follows(Tail(wire)[i], Len(got) + i - 1 - stale)
      BY <2>1, <3>1, Zenon
    <3>4. Wants /\ device.session = rd.session => device.next = Len(got) + Len(Tail(wire)) - stale
      BY <2>1, <3>1, Zenon
    <3>5. InFlight(stale)'
      BY <1>1, <2>1, <3>1, <3>2, <3>3, <3>4, Zenon DEF InFlight, Follows
    <3> QED BY <1>1, <2>1, <3>5, Zenon
  <2> QED BY <2>2, <2>3
<1>7. losses_left' = MaxLost /\ rd'.at = "returned" /\ rd'.want = "read" => Len(rd'.out) >= FileChunks
  BY <1>1, Zenon
<1>8. \A i \in 1..Len(rd'.out) : rd'.out[i] = i - 1
  BY <1>1, Zenon
<1> QED BY <1>1, <1>4, <1>5, <1>6, <1>7, <1>8, Zenon DEF LogsIInv

(* Every reply read_file and list_files handle, a request and a timeout    *)
(* (_replies).                                                             *)
LEMMA HostKeeps == LogsIInv /\ Logs!Host => LogsIInv'
<1> SUFFICES ASSUME LogsIInv, Logs!Host PROVE LogsIInv'
  OBVIOUS
<1>0. /\ rd \in [want : Wanted, at : Verdicts, session : Nat, out : Seq(Nat)]
      /\ \A i \in 1..Len(rd.out) : rd.out[i] = i - 1
  BY DEF LogsIInv, LogTypes
<1>a. rd.out \in Seq(Nat)
  BY <1>0
<1>b. Len(rd.out) \in Nat
  BY <1>a
<1>c. {"reading", "returned", "gap", "failed"} \subseteq Verdicts
  BY DEF Verdicts
<1>1. CASE Logs!Request("read") \/ Logs!Request("list")
  BY <1>1, RequestKeeps
<1>2. CASE Logs!Timeout
  <2>1. /\ UNCHANGED <<device, wire, losses_left>>
        /\ rd' = [rd EXCEPT !.at = "timeout"]
    BY <1>2 DEF Logs!Timeout
  <2>2. /\ rd' \in [want : Wanted, at : Verdicts, session : Nat, out : Seq(Nat)]
        /\ rd'.at = "timeout" /\ rd'.want = rd.want /\ rd'.session = rd.session /\ rd'.out = rd.out
    BY <1>0, <2>1 DEF Verdicts
  <2>3. ~Wants'
    BY <2>2 DEF Wants
  <2>4. \A stale \in 0..Len(wire) : InFlight(stale) => InFlight(stale)'
    BY <2>1, <2>2, <2>3, Zenon DEF InFlight
  <2>5. LogTypes' /\ InSession'
    BY <2>1, <2>2 DEF LogsIInv, LogTypes, InSession
  <2> QED BY <2>1, <2>2, <2>4, <2>5 DEF LogsIInv
<1>3. CASE wire # <<>> /\ Logs!SomeoneElses(Head(wire))
  <2>1. Logs!Take("reading", rd.out) /\ device' = device /\ ~Logs!Mine(Head(wire))
    BY <1>3 DEF Logs!SomeoneElses
  <2> QED BY <1>0, <1>3, <1>a, <1>c, <2>1, TakeKeeps
<1>4. CASE wire # <<>> /\ Logs!NextChunk(Head(wire))
  <2> DEFINE r == Head(wire)
             verdict == IF r.last THEN "returned" ELSE "reading"
  <2>1. /\ Logs!Mine(r) /\ r.at = Len(rd.out) /\ device' = device
        /\ Logs!Take(verdict, Append(rd.out, r.at))
    BY <1>4 DEF Logs!NextChunk
  <2>2. r \in Replies
    <3>1. wire \in Seq(Replies)
      BY DEF LogsIInv, LogTypes
    <3> QED BY <1>4, <3>1
  <2>3. r.last => r.at = FileChunks - 1
    BY <2>2 DEF Replies
  <2>4. /\ Append(rd.out, r.at) \in Seq(Nat) /\ Len(Append(rd.out, r.at)) = Len(rd.out) + 1
        /\ \A i \in 1..Len(Append(rd.out, r.at)) : Append(rd.out, r.at)[i] = i - 1
    <3> HIDE DEF r
    <3>1. Len(rd.out) \in Nat
      BY <1>b
    <3>2. r.at \in Nat
      BY <2>1, <3>1
    <3>3. /\ Append(rd.out, r.at) \in Seq(Nat) /\ Len(Append(rd.out, r.at)) = Len(rd.out) + 1
          /\ Append(rd.out, r.at)[Len(rd.out) + 1] = r.at
          /\ \A i \in 1..Len(rd.out) : Append(rd.out, r.at)[i] = rd.out[i]
          /\ \A i \in 1..(Len(rd.out) + 1) : i \in 1..Len(rd.out) \/ i = Len(rd.out) + 1
      BY <1>a, <3>2, Appended
    <3>4. ASSUME NEW i \in 1..(Len(rd.out) + 1) PROVE Append(rd.out, r.at)[i] = i - 1
      <4>1. CASE i \in 1..Len(rd.out)
        BY <1>0, <3>3, <4>1
      <4>2. CASE i = Len(rd.out) + 1
        BY <2>1, <3>1, <3>3, <4>2
      <4> QED BY <3>3, <4>1, <4>2
    <3> QED BY <3>3, <3>4
  <2>5. verdict = "returned" => Len(Append(rd.out, r.at)) >= FileChunks
    <3>1. verdict = "returned" => r.last
      OBVIOUS
    <3> HIDE DEF r, verdict
    <3>2. FileChunks \in Nat
      BY ReadsAssumption
    <3> QED BY <1>b, <2>1, <2>3, <2>4, <3>1, <3>2
  <2>6. verdict \in Verdicts /\ (verdict = "reading" => Len(Append(rd.out, r.at)) =
          IF Logs!Mine(Head(wire)) THEN Len(rd.out) + 1 ELSE Len(rd.out))
    BY <1>c, <2>1, <2>4
  <2> HIDE DEF verdict, r
  <2> QED BY <1>4, <2>1, <2>4, <2>5, <2>6, TakeKeeps
<1>5. ASSUME wire # <<>>, rd.at = "reading", losses_left = MaxLost, rd.want = "read", Logs!Mine(Head(wire))
      PROVE  Follows(Head(wire), Len(rd.out))
  BY <1>5, HeadIs, Zenon DEF Wants
<1>6. CASE wire # <<>> /\ Logs!Gap(Head(wire))
  <2>1. Logs!Take("gap", rd.out) /\ device' = Logs!Quiet
    BY <1>6 DEF Logs!Gap
  <2> QED BY <1>0, <1>6, <1>a, <1>c, <2>1, TakeKeeps
<1>7. CASE wire # <<>> /\ Logs!Finished(Head(wire))
  <2>1. Logs!Take("returned", rd.out) /\ device' = device /\ rd.at = "reading"
    BY <1>7 DEF Logs!Finished, Logs!Take
  <2>2. losses_left = MaxLost /\ rd.want = "read" => Len(rd.out) = FileChunks
    BY <1>5, <1>7, <2>1, Zenon DEF Logs!Finished, Follows
  <2>3. losses_left = MaxLost /\ rd.want = "read" => Len(rd.out) >= FileChunks
    BY <1>b, <2>2
  <2> QED BY <1>0, <1>7, <1>a, <1>c, <2>1, <2>3, TakeKeeps
<1>8. CASE wire # <<>> /\ Logs!Declined(Head(wire))
  <2>1. Logs!Take("failed", rd.out) /\ device' = device
    BY <1>8 DEF Logs!Declined
  <2> QED BY <1>0, <1>8, <1>a, <1>c, <2>1, TakeKeeps
<1>9. CASE wire # <<>> /\ Logs!Listed(Head(wire))
  <2>1. Logs!Take("returned", rd.out) /\ device' = device /\ rd.at = "reading"
    BY <1>9 DEF Logs!Listed, Logs!Take
  <2>2. ~(losses_left = MaxLost /\ rd.want = "read")
    BY <1>5, <1>9, <2>1, Zenon DEF Logs!Listed, Follows
  <2> QED BY <1>0, <1>9, <1>a, <1>c, <2>1, <2>2, TakeKeeps
<1> QED BY <1>1, <1>2, <1>3, <1>4, <1>6, <1>7, <1>8, <1>9 DEF Logs!Host

(* A fact of numbers alone.                                                *)
LEMMA OneMore ==
  ASSUME NEW a \in Nat, NEW b \in Nat, NEW c \in Nat
  PROVE  a + (b + 1) - c = (a + b - c) + 1
OBVIOUS

(* The device adds the reply that follows what it sent, or ends.           *)
LEMMA DeviceKeeps == LogsIInv /\ Logs!DeviceSends => LogsIInv'
<1> SUFFICES ASSUME LogsIInv, Logs!DeviceSends PROVE LogsIInv'
  OBVIOUS
<1>0. LogTypes /\ InSession
  BY DEF LogsIInv
<1>1. UNCHANGED <<rd, losses_left>> /\ device.session > 0 /\ device.session = rd.session
  BY <1>0 DEF Logs!DeviceSends, InSession
<1>2. PICK r \in Replies :
        /\ wire' = Append(wire, r) /\ r.session = rd.session
        /\ rd.want = "read" => r.kind # "listing"
        /\ r.kind = "chunk" => r.at = device.next
        /\ r.kind = "DONE" => device.next = FileChunks
        /\ \/ device' = Logs!Quiet
           \/ device' = [device EXCEPT !.next = @ + 1]
  <2>a. device.session \in Nat /\ device.next \in Nat /\ FileChunks \in Nat
    BY <1>0, ReadsAssumption DEF LogTypes
  <2>1. CASE /\ device.want = "read" /\ device.next < FileChunks
             /\ wire' = Append(wire, Logs!Chunk(device.session, device.next))
             /\ device' = [device EXCEPT !.next = @ + 1]
    <3> DEFINE r == Logs!Chunk(device.session, device.next)
    <3>1. r \in Replies /\ r.session = device.session /\ r.kind = "chunk" /\ r.at = device.next
      BY <2>a DEF Logs!Chunk, Replies, Kinds
    <3> HIDE DEF r
    <3>2. r.kind # "listing" /\ r.kind # "DONE"
      BY <3>1
    <3>3. wire' = Append(wire, r)
      BY <2>1 DEF r
    <3> QED BY <1>1, <2>1, <3>1, <3>2, <3>3, Zenon
  <2>2. CASE /\ device.want = "read" /\ device.next = FileChunks
             /\ wire' = Append(wire, Logs!Reply(device.session, "DONE")) /\ device' = Logs!Quiet
    <3> DEFINE r == Logs!Reply(device.session, "DONE")
    <3>1. r \in Replies /\ r.session = device.session /\ r.kind = "DONE"
      BY <2>a DEF Logs!Reply, Replies, Kinds
    <3> HIDE DEF r
    <3>2. r.kind # "listing" /\ r.kind # "chunk"
      BY <3>1
    <3>3. wire' = Append(wire, r)
      BY <2>2 DEF r
    <3> QED BY <1>1, <2>2, <3>1, <3>2, <3>3, Zenon
  <2>3. CASE /\ wire' = Append(wire, Logs!Reply(device.session,
                            IF device.want = "list" THEN "listing" ELSE "FAILED"))
             /\ device' = Logs!Quiet
    <3> DEFINE r == Logs!Reply(device.session, IF device.want = "list" THEN "listing" ELSE "FAILED")
    <3>1. /\ r \in Replies /\ r.session = device.session /\ r.kind \in {"listing", "FAILED"}
          /\ device.want # "list" => r.kind = "FAILED"
      BY <2>a DEF Logs!Reply, Replies, Kinds
    <3>2. rd.want = "read" => r.kind # "listing"
      BY <1>0, <1>1, <3>1 DEF InSession
    <3> HIDE DEF r
    <3>3. wire' = Append(wire, r)
      BY <2>3 DEF r
    <3>4. r.kind # "chunk" /\ r.kind # "DONE"
      BY <3>1
    <3> QED BY <1>1, <2>3, <3>1, <3>2, <3>3, <3>4, Zenon
  <2> QED BY <2>1, <2>2, <2>3 DEF Logs!DeviceSends
<1>3. wire \in Seq(Replies) /\ Len(wire) \in Nat /\ Len(rd.out) \in Nat
  <2>1. wire \in Seq(Replies) /\ rd.out \in Seq(Nat)
    BY <1>0 DEF LogTypes
  <2> QED BY <2>1
<1>4. /\ wire' \in Seq(Replies) /\ Len(wire') = Len(wire) + 1 /\ wire'[Len(wire) + 1] = r
      /\ \A i \in 1..Len(wire) : wire'[i] = wire[i]
      /\ \A i \in 1..(Len(wire) + 1) : i \in 1..Len(wire) \/ i = Len(wire) + 1
  <2>1. wire \in Seq(Replies) /\ r \in Replies
    BY <1>2, <1>3
  <2>2. /\ Append(wire, r) \in Seq(Replies) /\ Len(Append(wire, r)) = Len(wire) + 1
        /\ Append(wire, r)[Len(wire) + 1] = r
        /\ \A i \in 1..Len(wire) : Append(wire, r)[i] = wire[i]
        /\ \A i \in 1..(Len(wire) + 1) : i \in 1..Len(wire) \/ i = Len(wire) + 1
    BY <2>1, Appended
  <2>3. wire' = Append(wire, r)
    BY <1>2
  <2> QED BY <2>2, <2>3, Zenon
<1>5. device' \in [session : Nat, want : Wanted, next : Nat]
  <2>1. Logs!Quiet \in [session : Nat, want : Wanted, next : Nat]
    BY DEF Logs!Quiet, Wanted
  <2>2. [device EXCEPT !.next = @ + 1] \in [session : Nat, want : Wanted, next : Nat]
    <3>1. device \in [session : Nat, want : Wanted, next : Nat]
      BY <1>0 DEF LogTypes
    <3> QED BY <3>1
  <2> QED BY <1>2, <2>1, <2>2
<1>6. \/ device'.session = 0
      \/ device'.session = device.session /\ device'.want = device.want /\ device'.next = device.next + 1
  BY <1>0, <1>2 DEF LogTypes, Logs!Quiet
<1>7. LogTypes'
  BY <1>0, <1>1, <1>4, <1>5 DEF LogTypes
<1>8. InSession'
  <2>1. rd.session \in Nat
    BY <1>0 DEF LogTypes
  <2>2. \A i \in 1..Len(wire') : wire'[i].session <= rd'.session
    BY <1>0, <1>1, <1>2, <1>4, <2>1 DEF InSession
  <2>3. device'.session \in {0, rd'.session} /\ (rd'.at = "reading" => rd'.session > 0)
    BY <1>0, <1>1, <1>6 DEF InSession
  <2>4. device'.session = rd'.session /\ rd'.want = "read" => device'.want # "list"
    BY <1>0, <1>1, <1>6, <2>1 DEF InSession
  <2> QED BY <2>2, <2>3, <2>4 DEF InSession
<1>9. ASSUME losses_left = MaxLost PROVE \E stale \in 0..Len(wire') : InFlight(stale)'
  <2>1. PICK stale \in 0..Len(wire) : InFlight(stale)
    BY <1>9 DEF LogsIInv
  <2>2. stale \in 0..Len(wire')
    BY <1>3, <1>4
  <2>3. \A i \in 1..stale : wire'[i].session < rd'.session
    <3>1. \A i \in 1..stale : i \in 1..Len(wire)
      BY <1>3
    <3> QED BY <1>1, <1>4, <2>1, <3>1 DEF InFlight
  <2>4. Wants' <=> Wants
    BY <1>1, Zenon DEF Wants
  <2>5. ASSUME NEW i \in (stale + 1)..Len(wire')
        PROVE  /\ wire'[i].session = rd'.session
               /\ Wants' => Follows(wire'[i], Len(rd'.out) + i - 1 - stale)
    <3>1. CASE i \in 1..Len(wire)
      <4>1. i \in (stale + 1)..Len(wire)
        BY <1>3, <2>5, <3>1
      <4>2. wire[i].session = rd.session /\ (Wants => Follows(wire[i], Len(rd.out) + i - 1 - stale))
        BY <2>1, <4>1, Zenon DEF InFlight
      <4> QED BY <1>1, <1>4, <2>4, <3>1, <4>2, Zenon
    <3>2. CASE i = Len(wire) + 1
      <4>1. Wants => device.next = Len(rd.out) + Len(wire) - stale
        BY <1>1, <2>1 DEF InFlight
      <4>2. Len(rd.out) + Len(wire) - stale = Len(rd.out) + i - 1 - stale
        BY <1>3, <3>2
      <4>3. Wants => Follows(r, device.next)
        BY <1>2, Zenon DEF Follows, Wants
      <4>4. wire'[i] = r
        BY <1>4, <3>2, Zenon
      <4> QED BY <1>1, <1>2, <2>4, <4>1, <4>2, <4>3, <4>4, Zenon
    <3>3. i \in 1..Len(wire) \/ i = Len(wire) + 1
      BY <1>3, <1>4, <2>5
    <3> QED BY <3>1, <3>2, <3>3
  <2>6. Wants' /\ device'.session = rd'.session => device'.next = Len(rd'.out) + Len(wire') - stale
    <3>1. rd.session > 0
      BY <1>1
    <3>2. Wants => device.next = Len(rd.out) + Len(wire) - stale
      BY <1>1, <2>1 DEF InFlight
    <3>3. device'.session = rd'.session => device'.next = device.next + 1
      BY <1>1, <1>6, <3>1
    <3>4. rd' = rd /\ Len(wire') = Len(wire) + 1
      BY <1>1, <1>4
    <3> SUFFICES ASSUME Wants', device'.session = rd'.session
                 PROVE  device'.next = Len(rd.out) + Len(wire') - stale
      BY <3>4
    <3>6. device.next = Len(rd.out) + Len(wire) - stale /\ device'.next = device.next + 1
      BY <2>4, <3>2, <3>3, <3>4, Zenon
    <3>7. Len(rd.out) \in Nat /\ Len(wire) \in Nat /\ stale \in Nat
      BY <1>3, <2>1
    <3>8. Len(rd.out) + (Len(wire) + 1) - stale = (Len(rd.out) + Len(wire) - stale) + 1
      BY <3>7, OneMore, Zenon
    <3> QED BY <3>4, <3>6, <3>8, Zenon
  <2>7. InFlight(stale)'
    BY <2>3, <2>5, <2>6, Zenon DEF InFlight
  <2> QED BY <2>2, <2>7, Zenon
<1> QED BY <1>1, <1>7, <1>8, <1>9 DEF LogsIInv

(* A reply lost: from here on nothing is claimed of what is in flight.     *)
LEMMA LosesKeeps == LogsIInv /\ Logs!Loses => LogsIInv'
<1> SUFFICES ASSUME LogsIInv, Logs!Loses PROVE LogsIInv'
  OBVIOUS
<1>0. LogTypes /\ InSession
  BY DEF LogsIInv
<1>1. UNCHANGED <<rd, device>> /\ losses_left > 0 /\ losses_left' = losses_left - 1
  BY DEF Logs!Loses
<1>2. losses_left' \in 0..MaxLost /\ losses_left' # MaxLost
  <2>1. losses_left \in 0..MaxLost
    BY <1>0 DEF LogTypes
  <2> QED BY <1>1, <2>1, LogBounds
<1>3. PICK i \in 1..Len(wire) :
        wire' = SubSeq(wire, 1, i - 1) \o SubSeq(wire, i + 1, Len(wire))
  BY DEF Logs!Loses
<1>4. wire \in Seq(Replies)
  BY <1>0 DEF LogTypes
<1>5. wire' \in Seq(Replies) /\ \A j \in 1..Len(wire') : \E k \in 1..Len(wire) : wire'[j] = wire[k]
  BY <1>3, <1>4, Dropped, Zenon
<1>6. LogTypes'
  BY <1>0, <1>1, <1>2, <1>5 DEF LogTypes
<1>7. InSession'
  <2>1. \A j \in 1..Len(wire') : wire'[j].session <= rd'.session
    BY <1>0, <1>1, <1>5, Zenon DEF InSession
  <2> QED BY <1>0, <1>1, <2>1 DEF InSession
<1> QED BY <1>1, <1>2, <1>6, <1>7 DEF LogsIInv

(* Every step of the host, the device and the link.                        *)
LEMMA LogsNext == LogsIInv /\ [Logs!Next]_logs_v => LogsIInv'
<1>1. LogsIInv /\ UNCHANGED logs_v => LogsIInv'
  BY DEF logs_v, LogsIInv, LogTypes, InSession, InFlight, Wants
<1> QED BY <1>1, HostKeeps, DeviceKeeps, LosesKeeps DEF Logs!Next

(* A read that returned is a run of the file from its start, short only    *)
(* if a reply was lost.                                                    *)
LEMMA LogsSafe == LogsIInv => Logs!ReadUnspliced
<1> SUFFICES ASSUME LogsIInv, rd.at = "returned", rd.want = "read"
             PROVE  /\ rd.out = [i \in 1..Len(rd.out) |-> i - 1]
                    /\ Len(rd.out) < FileChunks => losses_left < MaxLost
  BY DEF Logs!ReadUnspliced
<1>1. rd.out \in Seq(Nat)
  BY DEF LogsIInv, LogTypes
<1>2. \A i \in 1..Len(rd.out) : rd.out[i] = i - 1
  BY DEF LogsIInv
<1>3. rd.out = [i \in 1..Len(rd.out) |-> i - 1]
  BY <1>1, <1>2
<1>4. losses_left \in 0..MaxLost
  BY DEF LogsIInv, LogTypes
<1>6. Len(rd.out) \in Nat
  BY <1>1
<1>5. losses_left = MaxLost => Len(rd.out) >= FileChunks
  BY DEF LogsIInv
<1> QED BY <1>3, <1>4, <1>5, <1>6, LogBounds

(* What is handed over is what was asked for, from its first byte or item    *)
(* and with no hole: a pulled recording of one version, each page of a       *)
(* listing once, a log, a prefetched source; for any sizes, versions and     *)
(* replacements of the file, any cursors, any replies lost, any source.      *)
THEOREM ReadsAreExact == MCSpec => []ReadsExact
<1> DEFINE Inv == /\ focus = "pull" => PullIInv /\ ListIInv
                  /\ focus = "logs" => LogsIInv
                  /\ focus = "prefetch" => AheadIInv
<1>1. MCInit => Inv
  BY PullInit, ListInit, LogsInit, AheadInit, Zenon DEF MCInit
<1>2. Inv /\ [MCNext]_vars => Inv'
  <2>1. [MCNext]_vars => /\ focus' = focus /\ (focus = "pull" => [Pull!Next]_pull_v)
                         /\ focus = "logs" => [Logs!Next]_logs_v
                         /\ focus = "prefetch" => [Ahead!Next]_prefetch_v
    BY Zenon DEF MCNext, vars
  <2> QED BY <2>1, PullNext, ListNext, LogsNext, AheadNext, Zenon
<1>3. Inv => ReadsExact
  BY PullSafe, ListSafe, LogsSafe, AheadSafe, Zenon DEF ReadsExact
<1> QED BY <1>1, <1>2, <1>3, PTL DEF MCSpec

-----------------------------------------------------------------------------
(***************************************************************************)
(* The bridge manager (Bridge).  A connect that was started is the newest  *)
(* or has its stop set; one whose stop is set runs only while the operator *)
(* waits for it; what is shown is of the newest.                           *)
(***************************************************************************)
Runs == {"running", "closing"}
ReaderStates ==
  [at : {"none", "opening", "check", "running", "closing", "over"},
   dev : Sources \cup {"none"}, cause : {"none", "stop", "end", "error"}]

BridgeTypes ==
  /\ mgr \in [stop : 0..MaxConnects, current : Sources \cup {"none"},
              endpoint : 0..MaxConnects, video : 0..MaxConnects,
              error : BOOLEAN, ended : BOOLEAN]
  /\ stops \subseteq Switch!Gens
  /\ reader \in [Switch!Gens -> ReaderStates]
  /\ status \in [rows : SUBSET Switch!Gens, serial : Sources \cup {"none"}]
  /\ ui \in [at : {"idle", "joining", "failing", "setting"},
             to : Sources \cup {"none"}, old : 0..MaxConnects, done : Nat]

(* Connects are numbered in order, and one asked for has a number left.    *)
InTurn ==
  /\ \E k \in 0..MaxConnects : Switch!Started = 1..k
  /\ ui.at # "idle" /\ ui.to # "none" => Switch!Started # Switch!Gens

OneUnstopped ==
  /\ stops \subseteq Switch!Started
  /\ mgr.stop \in {0} \cup (Switch!Started \ stops)
  /\ Switch!Started \subseteq stops \cup {mgr.stop}
  /\ ui.at # "idle" => mgr.stop = 0

StoppedLeaves ==
  /\ \A g \in stops : reader[g].at \in Runs => ui.at = "joining" /\ ui.old = g
  /\ mgr.endpoint # 0 => reader[mgr.endpoint].at \in Runs
  /\ ui.at = "idle" => mgr.video \in {0, mgr.stop}

NewestShown ==
  /\ mgr.stop # 0 => reader[mgr.stop].dev = mgr.current /\ status.rows \subseteq {mgr.stop}
  /\ ui.at = "idle" /\ mgr.stop = 0 => mgr.current = "none"
  /\ ui.at = "setting" /\ ui.to # "none" => status.rows = {}
  /\ mgr.stop # 0 /\ mgr.error =>
       reader[mgr.stop].cause = "error" /\ reader[mgr.stop].at \in {"closing", "over"}
  /\ mgr.stop # 0 /\ mgr.ended =>
       reader[mgr.stop].cause = "end" /\ reader[mgr.stop].at \in {"closing", "over"}

ShownIInv == BridgeTypes /\ InTurn /\ OneUnstopped /\ StoppedLeaves /\ NewestShown

(* Connects are numbered from one.                                         *)
LEMMA GensAre == Switch!Gens = 1..MaxConnects /\ MaxConnects \in Nat
BY BridgeAssumption DEF Switch!Gens

(* Nothing connected and nothing asked for.                                *)
LEMMA ShownInit == Switch!Init => ShownIInv
<1> SUFFICES ASSUME Switch!Init PROVE ShownIInv
  OBVIOUS
<1>1. /\ mgr = [stop |-> 0, current |-> "none", endpoint |-> 0, video |-> 0,
                error |-> FALSE, ended |-> FALSE]
      /\ stops = {} /\ status = [rows |-> {}, serial |-> "none"]
      /\ reader = [g \in Switch!Gens |-> [at |-> "none", dev |-> "none", cause |-> "none"]]
      /\ ui = [at |-> "idle", to |-> "none", old |-> 0, done |-> 0]
  BY DEF Switch!Init, Switch!NoOne
<1>2. BridgeTypes
  BY <1>1, GensAre DEF BridgeTypes, ReaderStates
<1>3. Switch!Started = {}
  BY <1>1 DEF Switch!Started
<1>4. InTurn
  BY <1>1, <1>3, GensAre DEF InTurn
<1> QED BY <1>1, <1>2, <1>3, <1>4 DEF ShownIInv, OneUnstopped, StoppedLeaves, NewestShown

(* A reader that neither starts nor unstarts.                              *)
LEMMA StartedStays ==
  ASSUME \A g \in Switch!Gens : reader'[g].at = "none" <=> reader[g].at = "none"
  PROVE  Switch!Started' = Switch!Started
BY DEF Switch!Started, Switch!Gens

(* While fewer connects were started than there are numbers, one is left.  *)
LEMMA StartedCount ==
  ASSUME InTurn, Cardinality(Switch!Started) < MaxConnects
  PROVE  Switch!Started # Switch!Gens
<1>1. PICK k \in 0..MaxConnects : Switch!Started = 1..k
  BY DEF InTurn
<1>2. k \in Nat /\ Cardinality(1..k) = k
  BY <1>1, FS_Interval, GensAre
<1>3. Cardinality(Switch!Gens) = MaxConnects
  BY FS_Interval, GensAre
<1> QED BY <1>1, <1>2, <1>3, GensAre

(* The instance's cardinality is the library's.                            *)
LEMMA CardinalityIs == \A S : Switch!Cardinality(S) = Cardinality(S)
BY Zenon DEF Cardinality, Switch!Cardinality

(* The operator asks for another source, or for none (_stop_current).      *)
LEMMA SwitchShown ==
  ASSUME ShownIInv, NEW to \in Sources \cup {"none"}, Switch!Switch(to)
  PROVE  ShownIInv'
<1>0. BridgeTypes /\ InTurn /\ OneUnstopped /\ StoppedLeaves /\ NewestShown
  BY DEF ShownIInv
<1>1. /\ ui.at = "idle" /\ UNCHANGED <<reader, status>>
      /\ ui' = [at |-> "joining", to |-> to, old |-> mgr.stop, done |-> ui.done + 1]
      /\ stops' = (stops \cup {mgr.stop}) \ {0}
      /\ mgr' = [mgr EXCEPT !.stop = 0]
      /\ to # "none" => Cardinality(Switch!Started) < MaxConnects
  BY CardinalityIs DEF Switch!Switch, Switch!NoOne
<1>2. /\ ui' \in [at : {"idle", "joining", "failing", "setting"},
                  to : Sources \cup {"none"}, old : 0..MaxConnects, done : Nat]
      /\ ui'.at = "joining" /\ ui'.to = to /\ ui'.old = mgr.stop
  BY <1>0, <1>1, GensAre DEF BridgeTypes
<1>3. /\ mgr' \in [stop : 0..MaxConnects, current : Sources \cup {"none"},
                   endpoint : 0..MaxConnects, video : 0..MaxConnects,
                   error : BOOLEAN, ended : BOOLEAN]
      /\ mgr'.stop = 0 /\ mgr'.endpoint = mgr.endpoint
  BY <1>0, <1>1, GensAre DEF BridgeTypes
<1>4. mgr.stop \in 0..MaxConnects /\ 0 \notin Switch!Gens
  BY <1>0, GensAre DEF BridgeTypes
<1>5. BridgeTypes'
  BY <1>0, <1>1, <1>2, <1>3, <1>4, GensAre DEF BridgeTypes, Switch!Gens
<1>6. Switch!Started' = Switch!Started /\ Switch!Started \subseteq Switch!Gens
  BY <1>1 DEF Switch!Started, Switch!Gens
<1>7. InTurn'
  <2>1. to # "none" => Switch!Started # Switch!Gens
    BY <1>0, <1>1, StartedCount
  <2> QED BY <1>0, <1>2, <1>6, <2>1 DEF InTurn, Switch!Gens
<1>8. OneUnstopped'
  BY <1>0, <1>1, <1>3, <1>4, <1>6 DEF OneUnstopped
<1>9. StoppedLeaves'
  BY <1>0, <1>1, <1>2, <1>3 DEF StoppedLeaves
<1>10. NewestShown'
  BY <1>2, <1>3 DEF NewestShown
<1> QED BY <1>5, <1>7, <1>8, <1>9, <1>10 DEF ShownIInv

(* The operator goes on: the old reader ended or hangs opening, what waits *)
(* is failed, and the new source takes its place (connect, disconnect).    *)
LEMMA OperatorShown ==
  ASSUME ShownIInv, Switch!Join \/ Switch!FailPending \/ Switch!Set
  PROVE  ShownIInv'
<1>0. BridgeTypes /\ InTurn /\ OneUnstopped /\ StoppedLeaves /\ NewestShown
  BY DEF ShownIInv
<1>1. CASE Switch!Join
  <2>1. /\ ui.at = "joining" /\ UNCHANGED <<mgr, stops, reader, status>>
        /\ ui.old # 0 => reader[ui.old].at \in {"over", "opening"}
        /\ ui' = [ui EXCEPT !.at = "failing"]
    BY <1>1 DEF Switch!Join
  <2>2. /\ ui' \in [at : {"idle", "joining", "failing", "setting"},
                    to : Sources \cup {"none"}, old : 0..MaxConnects, done : Nat]
        /\ ui'.at = "failing" /\ ui'.to = ui.to
    BY <1>0, <2>1 DEF BridgeTypes
  <2>3. Switch!Started' = Switch!Started
    BY <2>1 DEF Switch!Started, Switch!Gens
  <2>4. BridgeTypes' /\ InTurn' /\ OneUnstopped'
    BY <1>0, <2>1, <2>2, <2>3 DEF BridgeTypes, InTurn, OneUnstopped, Switch!Gens
  <2>5. StoppedLeaves'
    <3>1. \A g \in stops : g # 0
      BY <1>0, GensAre DEF BridgeTypes
    <3> QED BY <1>0, <2>1, <2>2, <3>1 DEF StoppedLeaves, Runs
  <2>6. NewestShown'
    BY <1>0, <2>1, <2>2 DEF NewestShown, OneUnstopped
  <2> QED BY <2>4, <2>5, <2>6 DEF ShownIInv
<1>2. CASE Switch!FailPending
  <2>1. /\ ui.at = "failing" /\ UNCHANGED <<mgr, stops, reader>>
        /\ ui' = [ui EXCEPT !.at = "setting"]
        /\ status' = IF ui.to = "none" THEN status ELSE [rows |-> {}, serial |-> "none"]
    BY <1>2 DEF Switch!FailPending, Switch!NoOne
  <2>2. /\ ui' \in [at : {"idle", "joining", "failing", "setting"},
                    to : Sources \cup {"none"}, old : 0..MaxConnects, done : Nat]
        /\ ui'.at = "setting" /\ ui'.to = ui.to
    BY <1>0, <2>1 DEF BridgeTypes
  <2>3. status' \in [rows : SUBSET Switch!Gens, serial : Sources \cup {"none"}]
        /\ (ui.to # "none" => status'.rows = {})
    BY <1>0, <2>1 DEF BridgeTypes
  <2>4. Switch!Started' = Switch!Started
    BY <2>1 DEF Switch!Started, Switch!Gens
  <2>5. BridgeTypes' /\ InTurn' /\ OneUnstopped'
    BY <1>0, <2>1, <2>2, <2>3, <2>4 DEF BridgeTypes, InTurn, OneUnstopped, Switch!Gens
  <2>6. StoppedLeaves'
    BY <1>0, <2>1, <2>2 DEF StoppedLeaves
  <2>7. NewestShown'
    BY <1>0, <2>1, <2>2, <2>3 DEF NewestShown, OneUnstopped
  <2> QED BY <2>5, <2>6, <2>7 DEF ShownIInv
<1>3. CASE Switch!Set
  <2>1. /\ ui.at = "setting" /\ UNCHANGED <<stops, status>>
        /\ ui' = [ui EXCEPT !.at = "idle"]
    BY <1>3 DEF Switch!Set
  <2>2. /\ ui' \in [at : {"idle", "joining", "failing", "setting"},
                    to : Sources \cup {"none"}, old : 0..MaxConnects, done : Nat]
        /\ ui'.at = "idle" /\ ui'.to = ui.to
    BY <1>0, <2>1 DEF BridgeTypes
  <2>3. mgr.stop = 0
    BY <1>0, <2>1 DEF OneUnstopped
  <2>4. CASE ui.to = "none"
    <3>1. UNCHANGED reader /\ mgr' = [mgr EXCEPT !.current = "none", !.video = 0]
      BY <1>3, <2>4 DEF Switch!Set, Switch!NoOne
    <3>2. /\ mgr' \in [stop : 0..MaxConnects, current : Sources \cup {"none"},
                       endpoint : 0..MaxConnects, video : 0..MaxConnects,
                       error : BOOLEAN, ended : BOOLEAN]
          /\ mgr'.stop = 0 /\ mgr'.endpoint = mgr.endpoint /\ mgr'.video = 0 /\ mgr'.current = "none"
      BY <1>0, <2>3, <3>1, GensAre DEF BridgeTypes
    <3>3. Switch!Started' = Switch!Started
      BY <3>1 DEF Switch!Started, Switch!Gens
    <3>4. BridgeTypes' /\ InTurn' /\ OneUnstopped'
      BY <1>0, <2>1, <2>2, <2>3, <3>1, <3>2, <3>3 DEF BridgeTypes, InTurn, OneUnstopped, Switch!Gens
    <3>5. StoppedLeaves'
      BY <1>0, <2>1, <2>2, <3>1, <3>2 DEF StoppedLeaves
    <3>6. NewestShown'
      BY <2>2, <3>2 DEF NewestShown
    <3> QED BY <3>4, <3>5, <3>6 DEF ShownIInv
  <2>5. CASE ui.to # "none"
    <3> DEFINE g == Cardinality(Switch!Started) + 1
               new == [at |-> "opening", dev |-> ui.to, cause |-> "none"]
    <3>1. /\ mgr' = [stop |-> g, current |-> ui.to, endpoint |-> mgr.endpoint, video |-> 0,
                    error |-> FALSE, ended |-> FALSE]
          /\ reader' = [reader EXCEPT ![g] = new]
      BY <1>3, <2>5, CardinalityIs DEF Switch!Set, Switch!NoOne
    <3>2. g \in Switch!Gens /\ g \notin Switch!Started /\ Switch!Started \cup {g} = 1..g
      <4>1. PICK k \in 0..MaxConnects : Switch!Started = 1..k
        BY <1>0 DEF InTurn
      <4>2. k \in Nat /\ Cardinality(1..k) = k
        BY <4>1, FS_Interval, GensAre
      <4>3. k # MaxConnects
        BY <1>0, <2>1, <2>5, <4>1, GensAre DEF InTurn
      <4>4. g = k + 1
        BY <4>1, <4>2
      <4> HIDE DEF g
      <4> QED BY <4>1, <4>2, <4>3, <4>4, GensAre
    <3>3. new \in ReaderStates /\ ui.to \in Sources \cup {"none"}
      BY <1>0 DEF BridgeTypes, ReaderStates
    <3>a. new.at = "opening" /\ new.dev = ui.to
      OBVIOUS
    <3> HIDE DEF g, new
    <3>4. g \in 0..MaxConnects /\ g # 0
      BY <3>2, GensAre
    <3>5. /\ mgr' \in [stop : 0..MaxConnects, current : Sources \cup {"none"},
                       endpoint : 0..MaxConnects, video : 0..MaxConnects,
                       error : BOOLEAN, ended : BOOLEAN]
          /\ mgr'.stop = g /\ mgr'.endpoint = mgr.endpoint /\ mgr'.video = 0 /\ mgr'.current = ui.to
          /\ ~mgr'.error /\ ~mgr'.ended
      <4>1. mgr.endpoint \in 0..MaxConnects /\ 0 \in 0..MaxConnects
        BY <1>0, GensAre DEF BridgeTypes
      <4>2. mgr'.stop = g /\ mgr'.endpoint = mgr.endpoint /\ mgr'.video = 0 /\ mgr'.current = ui.to
        BY <3>1
      <4>3. mgr'.error = FALSE /\ mgr'.ended = FALSE
        BY <3>1
      <4>4. mgr' \in [stop : 0..MaxConnects, current : Sources \cup {"none"},
                      endpoint : 0..MaxConnects, video : 0..MaxConnects,
                      error : BOOLEAN, ended : BOOLEAN]
        BY <3>1, <3>3, <3>4, <4>1
      <4> QED BY <4>2, <4>3, <4>4
    <3>6. /\ reader' \in [Switch!Gens -> ReaderStates] /\ reader'[g] = new
          /\ \A h \in Switch!Gens : h # g => reader'[h] = reader[h]
      BY <1>0, <3>1, <3>2, <3>3 DEF BridgeTypes
    <3>7. Switch!Started' = Switch!Started \cup {g}
      BY <3>2, <3>6, <3>a DEF Switch!Started, Switch!Gens
    <3>8. BridgeTypes'
      BY <1>0, <2>1, <2>2, <3>5, <3>6 DEF BridgeTypes, Switch!Gens
    <3>9. InTurn'
      BY <2>2, <3>2, <3>4, <3>7 DEF InTurn
    <3>10. OneUnstopped'
      BY <1>0, <2>1, <2>2, <2>3, <3>2, <3>5, <3>7 DEF OneUnstopped
    <3>b. stops \subseteq Switch!Gens /\ g \notin stops
      BY <1>0, <3>2 DEF BridgeTypes, OneUnstopped
    <3>c. mgr.endpoint # 0 => mgr.endpoint \in Switch!Gens /\ mgr.endpoint # g
      <4>1. mgr.endpoint # 0 => mgr.endpoint \in Switch!Gens
        BY <1>0, GensAre DEF BridgeTypes
      <4>2. reader[g].at = "none"
        BY <3>2 DEF Switch!Started
      <4> QED BY <1>0, <4>1, <4>2 DEF StoppedLeaves, Runs
    <3>11. StoppedLeaves'
      <4>1. \A h \in stops' : reader'[h].at \notin Runs
        BY <1>0, <2>1, <3>6, <3>b DEF StoppedLeaves
      <4>2. mgr'.endpoint # 0 => reader'[mgr'.endpoint].at \in Runs
        BY <1>0, <3>5, <3>6, <3>c DEF StoppedLeaves
      <4> QED BY <3>5, <4>1, <4>2 DEF StoppedLeaves
    <3>12. NewestShown'
      <4>1. status.rows = {}
        BY <1>0, <2>1, <2>5 DEF NewestShown
      <4> QED BY <2>1, <2>2, <3>4, <3>5, <3>6, <3>a, <4>1 DEF NewestShown
    <3> QED BY <3>8, <3>9, <3>10, <3>11, <3>12 DEF ShownIInv
  <2> QED BY <2>4, <2>5
<1> QED BY <1>1, <1>2, <1>3

(* A reader that was started and not stopped is the newest's.              *)
LEMMA Newest ==
  ASSUME ShownIInv, NEW g \in Switch!Gens, reader[g].at # "none", g \notin stops
  PROVE  g = mgr.stop /\ g # 0 /\ ui.at = "idle"
BY GensAre DEF ShownIInv, OneUnstopped, Switch!Started

(* A reader's step that ends or moves it on, in the fields of reader: what *)
(* the actions of _run have in common.                                     *)
LEMMA ReaderStep ==
  ASSUME BridgeTypes, NEW g \in Switch!Gens, NEW r \in ReaderStates,
         reader' = [reader EXCEPT ![g] = r], reader[g].at # "none", r.at # "none"
  PROVE  /\ reader' \in [Switch!Gens -> ReaderStates] /\ reader'[g] = r
         /\ \A h \in Switch!Gens : h # g => reader'[h] = reader[h]
         /\ Switch!Started' = Switch!Started
<1>1. /\ reader' \in [Switch!Gens -> ReaderStates] /\ reader'[g] = r
      /\ \A h \in Switch!Gens : h # g => reader'[h] = reader[h]
  BY DEF BridgeTypes
<1>2. \A h \in Switch!Gens : reader'[h].at = "none" <=> reader[h].at = "none"
  BY <1>1
<1> QED BY <1>1, <1>2, StartedStays

(* The endpoint opens or does not (_open_endpoint).                        *)
LEMMA OpenShown ==
  ASSUME ShownIInv, NEW g \in Switch!Gens, Switch!Open(g) PROVE ShownIInv'
<1>0. BridgeTypes /\ InTurn /\ OneUnstopped /\ StoppedLeaves /\ NewestShown
  BY DEF ShownIInv
<1>1. reader[g].at = "opening" /\ UNCHANGED <<stops, status, ui>>
  BY DEF Switch!Open
<1>2. reader[g].dev \in Sources \cup {"none"}
  BY <1>0 DEF BridgeTypes, ReaderStates
<1>3. PICK r \in ReaderStates :
        /\ reader' = [reader EXCEPT ![g] = r] /\ r.dev = reader[g].dev
        /\ \/ r.at = "check" /\ UNCHANGED mgr
           \/ /\ r.at = "over" /\ r.cause = "error"
              /\ mgr' = IF mgr.stop = g THEN [mgr EXCEPT !.error = TRUE] ELSE mgr
  <2>1. CASE Switch!Ends(g, "check", "none") /\ UNCHANGED mgr
    <3> DEFINE r == [at |-> "check", dev |-> reader[g].dev, cause |-> "none"]
    <3>1. r \in ReaderStates /\ r.at = "check" /\ r.dev = reader[g].dev
      BY <1>2 DEF ReaderStates
    <3>2. reader' = [reader EXCEPT ![g] = r]
      BY <2>1 DEF Switch!Ends
    <3> HIDE DEF r
    <3> QED BY <2>1, <3>1, <3>2
  <2>2. CASE /\ Switch!Ends(g, "over", "error")
             /\ mgr' = IF mgr.stop = g THEN [mgr EXCEPT !.error = TRUE] ELSE mgr
    <3> DEFINE r == [at |-> "over", dev |-> reader[g].dev, cause |-> "error"]
    <3>1. r \in ReaderStates /\ r.at = "over" /\ r.dev = reader[g].dev /\ r.cause = "error"
      BY <1>2 DEF ReaderStates
    <3>2. reader' = [reader EXCEPT ![g] = r]
      BY <2>2 DEF Switch!Ends
    <3> HIDE DEF r
    <3> QED BY <2>2, <3>1, <3>2, Zenon
  <2> QED BY <2>1, <2>2 DEF Switch!Open
<1>4. /\ reader' \in [Switch!Gens -> ReaderStates] /\ reader'[g] = r
      /\ \A h \in Switch!Gens : h # g => reader'[h] = reader[h]
      /\ Switch!Started' = Switch!Started
  <2>1. r.at # "none" /\ reader[g].at # "none"
    BY <1>1, <1>3
  <2> QED BY <1>0, <1>3, <2>1, ReaderStep, Zenon
<1>5. /\ mgr' \in [stop : 0..MaxConnects, current : Sources \cup {"none"},
                   endpoint : 0..MaxConnects, video : 0..MaxConnects,
                   error : BOOLEAN, ended : BOOLEAN]
      /\ mgr'.stop = mgr.stop /\ mgr'.endpoint = mgr.endpoint /\ mgr'.video = mgr.video
      /\ mgr'.current = mgr.current /\ mgr'.ended = mgr.ended
      /\ mgr'.error = mgr.error \/ (mgr.stop = g /\ r.at = "over" /\ r.cause = "error")
  BY <1>0, <1>3 DEF BridgeTypes
<1>6. BridgeTypes' /\ InTurn' /\ OneUnstopped'
  BY <1>0, <1>1, <1>4, <1>5 DEF BridgeTypes, InTurn, OneUnstopped, Switch!Gens
<1>7. r.at \notin Runs /\ reader[g].at \notin Runs \cup {"closing", "over"}
  BY <1>1, <1>3 DEF Runs
<1>8. stops \subseteq Switch!Gens /\ mgr.endpoint \in {0} \cup Switch!Gens /\ mgr.stop \in {0} \cup Switch!Gens
  BY <1>0, GensAre DEF BridgeTypes
<1>9. StoppedLeaves'
  <2>1. \A h \in stops' : reader'[h].at \in Runs => ui'.at = "joining" /\ ui'.old = h
    BY <1>0, <1>1, <1>4, <1>7, <1>8 DEF StoppedLeaves
  <2>2. mgr'.endpoint # 0 => reader'[mgr'.endpoint].at \in Runs
    BY <1>0, <1>4, <1>5, <1>7, <1>8 DEF StoppedLeaves
  <2> QED BY <1>0, <1>1, <1>5, <2>1, <2>2 DEF StoppedLeaves
<1>10. NewestShown'
  <2>1. mgr'.stop # 0 => reader'[mgr'.stop].dev = mgr'.current /\ status'.rows \subseteq {mgr'.stop}
    BY <1>0, <1>1, <1>3, <1>4, <1>5, <1>8 DEF NewestShown
  <2>2. mgr'.stop # 0 /\ mgr'.error =>
          reader'[mgr'.stop].cause = "error" /\ reader'[mgr'.stop].at \in {"closing", "over"}
    <3>1. CASE mgr'.error = mgr.error
      BY <1>0, <1>4, <1>5, <1>7, <1>8, <3>1 DEF NewestShown
    <3>2. CASE mgr.stop = g /\ r.at = "over" /\ r.cause = "error"
      BY <1>4, <1>5, <3>2
    <3> QED BY <1>5, <3>1, <3>2
  <2>3. mgr'.stop # 0 /\ mgr'.ended =>
          reader'[mgr'.stop].cause = "end" /\ reader'[mgr'.stop].at \in {"closing", "over"}
    BY <1>0, <1>4, <1>5, <1>7, <1>8 DEF NewestShown
  <2> QED BY <1>0, <1>1, <1>5, <2>1, <2>2, <2>3 DEF NewestShown
<1> QED BY <1>6, <1>9, <1>10 DEF ShownIInv

(* A connect superseded while it opened closes; the newest starts to run.  *)
LEMMA CheckShown ==
  ASSUME ShownIInv, NEW g \in Switch!Gens, Switch!Check(g) PROVE ShownIInv'
<1>0. BridgeTypes /\ InTurn /\ OneUnstopped /\ StoppedLeaves /\ NewestShown
  BY DEF ShownIInv
<1>1. reader[g].at = "check" /\ UNCHANGED <<stops, status, ui>>
  BY DEF Switch!Check
<1>2. PICK r \in ReaderStates :
        /\ reader' = [reader EXCEPT ![g] = r] /\ r.dev = reader[g].dev
        /\ \/ mgr.stop # g /\ r.at = "over" /\ UNCHANGED mgr
           \/ mgr.stop = g /\ r.at = "running" /\ mgr' = [mgr EXCEPT !.endpoint = g, !.video = g]
  <2>1. reader[g] \in ReaderStates
    BY <1>0 DEF BridgeTypes
  <2>2. CASE mgr.stop # g
    <3> DEFINE r == [reader[g] EXCEPT !.at = "over"]
    <3>1. r \in ReaderStates /\ r.at = "over" /\ r.dev = reader[g].dev
      BY <2>1 DEF ReaderStates
    <3>2. reader' = [reader EXCEPT ![g] = r] /\ UNCHANGED mgr
      BY <1>0, <2>2 DEF Switch!Check, Switch!Superseded, BridgeTypes
    <3> HIDE DEF r
    <3> QED BY <2>2, <3>1, <3>2
  <2>3. CASE mgr.stop = g
    <3> DEFINE r == [reader[g] EXCEPT !.at = "running"]
    <3>1. r \in ReaderStates /\ r.at = "running" /\ r.dev = reader[g].dev
      BY <2>1 DEF ReaderStates
    <3>2. reader' = [reader EXCEPT ![g] = r] /\ mgr' = [mgr EXCEPT !.endpoint = g, !.video = g]
      BY <1>0, <2>3 DEF Switch!Check, Switch!Superseded, BridgeTypes
    <3> HIDE DEF r
    <3> QED BY <2>3, <3>1, <3>2
  <2> QED BY <2>2, <2>3
<1>3. /\ reader' \in [Switch!Gens -> ReaderStates] /\ reader'[g] = r
      /\ \A h \in Switch!Gens : h # g => reader'[h] = reader[h]
      /\ Switch!Started' = Switch!Started
  <2>1. r.at # "none" /\ reader[g].at # "none"
    BY <1>1, <1>2
  <2> QED BY <1>0, <1>2, <2>1, ReaderStep, Zenon
<1>4. /\ stops \subseteq Switch!Gens /\ mgr.endpoint \in {0} \cup Switch!Gens
      /\ mgr.stop \in {0} \cup Switch!Gens /\ g \in 0..MaxConnects /\ g # 0
  BY <1>0, GensAre DEF BridgeTypes
<1>5. /\ mgr' \in [stop : 0..MaxConnects, current : Sources \cup {"none"},
                   endpoint : 0..MaxConnects, video : 0..MaxConnects,
                   error : BOOLEAN, ended : BOOLEAN]
      /\ mgr'.stop = mgr.stop /\ mgr'.current = mgr.current
      /\ mgr'.ended = mgr.ended /\ mgr'.error = mgr.error
      /\ \/ mgr.stop # g /\ r.at = "over" /\ mgr'.endpoint = mgr.endpoint /\ mgr'.video = mgr.video
         \/ mgr.stop = g /\ r.at = "running" /\ mgr'.endpoint = g /\ mgr'.video = g
  BY <1>0, <1>2, <1>4 DEF BridgeTypes
<1>6. BridgeTypes' /\ InTurn' /\ OneUnstopped'
  BY <1>0, <1>1, <1>3, <1>5 DEF BridgeTypes, InTurn, OneUnstopped, Switch!Gens
<1>7. g \in stops => r.at = "over"
  BY <1>0, <1>4, <1>5 DEF OneUnstopped
<1>8. StoppedLeaves'
  <2>1. \A h \in stops' : reader'[h].at \in Runs => ui'.at = "joining" /\ ui'.old = h
    BY <1>0, <1>1, <1>3, <1>4, <1>7 DEF StoppedLeaves, Runs
  <2>2. mgr'.endpoint # 0 => reader'[mgr'.endpoint].at \in Runs
    BY <1>0, <1>1, <1>3, <1>4, <1>5 DEF StoppedLeaves, Runs
  <2>3. ui'.at = "idle" => mgr'.video \in {0, mgr'.stop}
    BY <1>0, <1>1, <1>5 DEF StoppedLeaves
  <2> QED BY <2>1, <2>2, <2>3 DEF StoppedLeaves
<1>9. NewestShown'
  <2>1. mgr'.stop # 0 => reader'[mgr'.stop].dev = mgr'.current /\ status'.rows \subseteq {mgr'.stop}
    BY <1>0, <1>1, <1>2, <1>3, <1>4, <1>5 DEF NewestShown
  <2>2. mgr'.stop # 0 /\ mgr'.error =>
          reader'[mgr'.stop].cause = "error" /\ reader'[mgr'.stop].at \in {"closing", "over"}
    BY <1>0, <1>1, <1>3, <1>4, <1>5 DEF NewestShown
  <2>3. mgr'.stop # 0 /\ mgr'.ended =>
          reader'[mgr'.stop].cause = "end" /\ reader'[mgr'.stop].at \in {"closing", "over"}
    BY <1>0, <1>1, <1>3, <1>4, <1>5 DEF NewestShown
  <2> QED BY <1>0, <1>1, <1>5, <2>1, <2>2, <2>3 DEF NewestShown
<1> QED BY <1>6, <1>8, <1>9 DEF ShownIInv

(* A row reaches the sinks only from a reader that is not stopped.         *)
LEMMA PumpShown ==
  ASSUME ShownIInv, NEW g \in Switch!Gens, Switch!Pump(g) PROVE ShownIInv'
<1>0. BridgeTypes /\ InTurn /\ OneUnstopped /\ StoppedLeaves /\ NewestShown
  BY DEF ShownIInv
<1>1. /\ UNCHANGED <<mgr, stops, reader, ui>> /\ reader[g].at = "running" /\ g \notin stops
      /\ status' = [status EXCEPT !.rows = @ \cup {g}]
  BY DEF Switch!Pump
<1>2. g = mgr.stop /\ g # 0 /\ ui.at = "idle"
  <2>1. reader[g].at # "none"
    BY <1>1
  <2> QED BY <1>1, <2>1, Newest
<1>3. /\ status' \in [rows : SUBSET Switch!Gens, serial : Sources \cup {"none"}]
      /\ status'.rows = status.rows \cup {g}
  BY <1>0, <1>1 DEF BridgeTypes
<1>4. BridgeTypes' /\ InTurn' /\ OneUnstopped' /\ StoppedLeaves'
  BY <1>0, <1>1, <1>3 DEF BridgeTypes, InTurn, OneUnstopped, StoppedLeaves, Switch!Started, Switch!Gens
<1>5. NewestShown'
  BY <1>0, <1>1, <1>2, <1>3 DEF NewestShown
<1> QED BY <1>4, <1>5 DEF ShownIInv

(* The source ends: what ended it is noted if it is still the newest.      *)
LEMMA LeaveShown ==
  ASSUME ShownIInv, NEW g \in Switch!Gens, Switch!Leave(g) PROVE ShownIInv'
<1>0. BridgeTypes /\ InTurn /\ OneUnstopped /\ StoppedLeaves /\ NewestShown
  BY DEF ShownIInv
<1>1. reader[g].at = "running" /\ UNCHANGED <<stops, status, ui>>
  BY DEF Switch!Leave
<1>2. PICK why \in {"stop", "end", "error"} :
        /\ Switch!Ends(g, "closing", why)
        /\ mgr' = CASE why = "end" /\ mgr.stop = g /\ g \notin stops -> [mgr EXCEPT !.ended = TRUE]
                    [] why = "error" /\ mgr.stop = g -> [mgr EXCEPT !.error = TRUE]
                    [] OTHER -> mgr
  BY Zenon DEF Switch!Leave
<1> DEFINE r == [at |-> "closing", dev |-> reader[g].dev, cause |-> why]
<1>3. r \in ReaderStates /\ r.at = "closing" /\ r.dev = reader[g].dev /\ r.cause = why
  BY <1>0 DEF BridgeTypes, ReaderStates
<1>4. reader' = [reader EXCEPT ![g] = r]
  BY <1>2 DEF Switch!Ends
<1> HIDE DEF r
<1>5. /\ reader' \in [Switch!Gens -> ReaderStates] /\ reader'[g] = r
      /\ \A h \in Switch!Gens : h # g => reader'[h] = reader[h]
      /\ Switch!Started' = Switch!Started
  <2>1. r.at # "none" /\ reader[g].at # "none"
    BY <1>1, <1>3
  <2> QED BY <1>0, <1>3, <1>4, <2>1, ReaderStep, Zenon
<1>6. \/ why = "end" /\ mgr.stop = g /\ mgr' = [mgr EXCEPT !.ended = TRUE]
      \/ why = "error" /\ mgr.stop = g /\ mgr' = [mgr EXCEPT !.error = TRUE]
      \/ mgr' = mgr
  BY <1>2
<1>7. /\ mgr' \in [stop : 0..MaxConnects, current : Sources \cup {"none"},
                   endpoint : 0..MaxConnects, video : 0..MaxConnects,
                   error : BOOLEAN, ended : BOOLEAN]
      /\ mgr'.stop = mgr.stop /\ mgr'.current = mgr.current
      /\ mgr'.endpoint = mgr.endpoint /\ mgr'.video = mgr.video
      /\ mgr'.ended = mgr.ended \/ (mgr.stop = g /\ why = "end")
      /\ mgr'.error = mgr.error \/ (mgr.stop = g /\ why = "error")
  BY <1>0, <1>6 DEF BridgeTypes
<1>8. BridgeTypes' /\ InTurn' /\ OneUnstopped'
  BY <1>0, <1>1, <1>5, <1>7 DEF BridgeTypes, InTurn, OneUnstopped, Switch!Gens
<1>9. stops \subseteq Switch!Gens /\ mgr.endpoint \in {0} \cup Switch!Gens /\ mgr.stop \in {0} \cup Switch!Gens
  BY <1>0, GensAre DEF BridgeTypes
<1>10. StoppedLeaves'
  <2>1. \A h \in stops' : reader'[h].at \in Runs => ui'.at = "joining" /\ ui'.old = h
    BY <1>0, <1>1, <1>5, <1>9 DEF StoppedLeaves, Runs
  <2>2. mgr'.endpoint # 0 => reader'[mgr'.endpoint].at \in Runs
    BY <1>0, <1>3, <1>5, <1>7, <1>9 DEF StoppedLeaves, Runs
  <2> QED BY <1>0, <1>1, <1>7, <2>1, <2>2 DEF StoppedLeaves
<1>11. NewestShown'
  <2>1. mgr'.stop # 0 => reader'[mgr'.stop].dev = mgr'.current /\ status'.rows \subseteq {mgr'.stop}
    BY <1>0, <1>1, <1>3, <1>5, <1>7, <1>9 DEF NewestShown
  <2>2. mgr'.stop # 0 /\ mgr'.error =>
          reader'[mgr'.stop].cause = "error" /\ reader'[mgr'.stop].at \in {"closing", "over"}
    <3>1. CASE mgr'.error = mgr.error
      BY <1>0, <1>1, <1>5, <1>7, <1>9, <3>1 DEF NewestShown
    <3>2. CASE mgr.stop = g /\ why = "error"
      BY <1>3, <1>5, <1>7, <3>2
    <3> QED BY <1>7, <3>1, <3>2
  <2>3. mgr'.stop # 0 /\ mgr'.ended =>
          reader'[mgr'.stop].cause = "end" /\ reader'[mgr'.stop].at \in {"closing", "over"}
    <3>1. CASE mgr'.ended = mgr.ended
      BY <1>0, <1>1, <1>5, <1>7, <1>9, <3>1 DEF NewestShown
    <3>2. CASE mgr.stop = g /\ why = "end"
      BY <1>3, <1>5, <1>7, <3>2
    <3> QED BY <1>7, <3>1, <3>2
  <2> QED BY <1>0, <1>1, <1>7, <2>1, <2>2, <2>3 DEF NewestShown
<1> QED BY <1>8, <1>10, <1>11 DEF ShownIInv

(* The reader lets go of its endpoint, which no command can read any more. *)
LEMMA FinishShown ==
  ASSUME ShownIInv, NEW g \in Switch!Gens, Switch!Finish(g) PROVE ShownIInv'
<1>0. BridgeTypes /\ InTurn /\ OneUnstopped /\ StoppedLeaves /\ NewestShown
  BY DEF ShownIInv
<1>1. /\ reader[g].at = "closing" /\ UNCHANGED <<stops, status, ui>>
      /\ mgr' = IF mgr.endpoint = g THEN [mgr EXCEPT !.endpoint = 0] ELSE mgr
  BY DEF Switch!Finish
<1> DEFINE r == [reader[g] EXCEPT !.at = "over"]
<1>2. r \in ReaderStates /\ r.at = "over" /\ r.dev = reader[g].dev /\ r.cause = reader[g].cause
  BY <1>0 DEF BridgeTypes, ReaderStates
<1>3. reader' = [reader EXCEPT ![g] = r]
  BY <1>0 DEF Switch!Finish, BridgeTypes
<1> HIDE DEF r
<1>4. /\ reader' \in [Switch!Gens -> ReaderStates] /\ reader'[g] = r
      /\ \A h \in Switch!Gens : h # g => reader'[h] = reader[h]
      /\ Switch!Started' = Switch!Started
  <2>1. r.at # "none" /\ reader[g].at # "none"
    BY <1>1, <1>2
  <2> QED BY <1>0, <1>2, <1>3, <2>1, ReaderStep, Zenon
<1>5. stops \subseteq Switch!Gens /\ mgr.endpoint \in {0} \cup Switch!Gens /\ mgr.stop \in {0} \cup Switch!Gens
  BY <1>0, GensAre DEF BridgeTypes
<1>6. /\ mgr' \in [stop : 0..MaxConnects, current : Sources \cup {"none"},
                   endpoint : 0..MaxConnects, video : 0..MaxConnects,
                   error : BOOLEAN, ended : BOOLEAN]
      /\ mgr'.stop = mgr.stop /\ mgr'.current = mgr.current /\ mgr'.video = mgr.video
      /\ mgr'.endpoint = IF mgr.endpoint = g THEN 0 ELSE mgr.endpoint
      /\ mgr'.ended = mgr.ended /\ mgr'.error = mgr.error
  <2>1. CASE mgr.endpoint = g
    <3>1. mgr' = [mgr EXCEPT !.endpoint = 0]
      BY <1>1, <2>1
    <3> QED BY <1>0, <2>1, <3>1, GensAre DEF BridgeTypes
  <2>2. CASE mgr.endpoint # g
    <3>1. mgr' = mgr
      BY <1>1, <2>2
    <3> QED BY <1>0, <2>2, <3>1 DEF BridgeTypes
  <2> QED BY <2>1, <2>2, Zenon
<1>7. BridgeTypes' /\ InTurn' /\ OneUnstopped'
  BY <1>0, <1>1, <1>4, <1>6 DEF BridgeTypes, InTurn, OneUnstopped, Switch!Gens
<1>8. StoppedLeaves'
  <2>1. \A h \in stops' : reader'[h].at \in Runs => ui'.at = "joining" /\ ui'.old = h
    BY <1>0, <1>1, <1>2, <1>4, <1>5 DEF StoppedLeaves, Runs
  <2>2. mgr'.endpoint # 0 => reader'[mgr'.endpoint].at \in Runs
    BY <1>0, <1>4, <1>5, <1>6 DEF StoppedLeaves
  <2> QED BY <1>0, <1>1, <1>6, <2>1, <2>2 DEF StoppedLeaves
<1>9. NewestShown'
  <2>1. mgr'.stop # 0 => reader'[mgr'.stop].dev = mgr'.current /\ status'.rows \subseteq {mgr'.stop}
    BY <1>0, <1>1, <1>2, <1>4, <1>5, <1>6 DEF NewestShown
  <2>2. mgr'.stop # 0 /\ mgr'.error =>
          reader'[mgr'.stop].cause = "error" /\ reader'[mgr'.stop].at \in {"closing", "over"}
    BY <1>0, <1>1, <1>2, <1>4, <1>5, <1>6 DEF NewestShown
  <2>3. mgr'.stop # 0 /\ mgr'.ended =>
          reader'[mgr'.stop].cause = "end" /\ reader'[mgr'.stop].at \in {"closing", "over"}
    BY <1>0, <1>1, <1>2, <1>4, <1>5, <1>6 DEF NewestShown
  <2> QED BY <1>0, <1>1, <1>6, <2>1, <2>2, <2>3 DEF NewestShown
<1> QED BY <1>7, <1>8, <1>9 DEF ShownIInv

(* Nothing else touches what is shown but the serial of the announce.      *)
LEMMA RestShown ==
  ASSUME ShownIInv, UNCHANGED <<mgr, stops, reader, ui>>, status' = status \/
           \E g \in Switch!Gens : status' = [status EXCEPT !.serial = reader[g].dev]
  PROVE  ShownIInv'
<1>0. BridgeTypes /\ InTurn /\ OneUnstopped /\ StoppedLeaves /\ NewestShown
  BY DEF ShownIInv
<1>1. /\ status' \in [rows : SUBSET Switch!Gens, serial : Sources \cup {"none"}]
      /\ status'.rows = status.rows
  <2>1. \A g \in Switch!Gens : reader[g].dev \in Sources \cup {"none"}
    BY <1>0 DEF BridgeTypes, ReaderStates
  <2> QED BY <1>0, <2>1 DEF BridgeTypes
<1>2. BridgeTypes' /\ InTurn' /\ OneUnstopped' /\ StoppedLeaves' /\ NewestShown'
  BY <1>0, <1>1
  DEF BridgeTypes, InTurn, OneUnstopped, StoppedLeaves, NewestShown, Switch!Started, Switch!Gens
<1> QED BY <1>2 DEF ShownIInv

(* Every step of the operator, the readers, the links and the callers.     *)
LEMMA ShownNext == ShownIInv /\ [Switch!Next]_bridge_v => ShownIInv'
<1> SUFFICES ASSUME ShownIInv, [Switch!Next]_bridge_v PROVE ShownIInv'
  OBVIOUS
<1>1. CASE Switch!Operator
  BY <1>1, SwitchShown, OperatorShown DEF Switch!Operator, Switch!NoOne
<1>2. ASSUME NEW g \in Switch!Gens, Switch!Reader(g) PROVE ShownIInv'
  BY <1>2, OpenShown, CheckShown, PumpShown, LeaveShown, FinishShown DEF Switch!Reader
<1>3. ASSUME NEW g \in Switch!Gens, Switch!Arrive(g) \/ Switch!LinkCloses(g) PROVE ShownIInv'
  <2>1. /\ UNCHANGED <<mgr, stops, reader, ui>>
        /\ status' = status \/ status' = [status EXCEPT !.serial = reader[g].dev]
    BY <1>3 DEF Switch!Arrive, Switch!LinkCloses
  <2> QED BY <2>1, RestShown
<1>4. ASSUME NEW c \in Callers, Switch!Command(c) PROVE ShownIInv'
  <2>1. UNCHANGED <<mgr, stops, reader, ui, status>>
    BY <1>4 DEF Switch!Command, Switch!ReadEndpoint, Switch!Register, Switch!Send, Switch!Wait
  <2> QED BY <2>1, RestShown
<1>5. CASE UNCHANGED bridge_v
  BY <1>5, RestShown DEF bridge_v
<1> QED BY <1>1, <1>2, <1>3, <1>4, <1>5 DEF Switch!Next

(* What the invariant says between requests (BridgeManager.status).        *)
LEMMA ShownSafe == ShownIInv => Switch!ShownIsConnected
<1> SUFFICES ASSUME ShownIInv, ui.at = "idle"
             PROVE  /\ {mgr.endpoint, mgr.video} \subseteq {0, mgr.stop}
                    /\ mgr.endpoint # 0 => reader[mgr.endpoint].dev = mgr.current
                    /\ Switch!State = "streaming" => status.rows = {mgr.stop}
                    /\ Switch!State = "ended" => reader[mgr.stop].cause = "end"
                    /\ Switch!State = "error" => reader[mgr.stop].cause = "error"
  BY DEF Switch!ShownIsConnected
<1>0. BridgeTypes /\ InTurn /\ OneUnstopped /\ StoppedLeaves /\ NewestShown
  BY DEF ShownIInv
<1>1. mgr.endpoint # 0 => mgr.endpoint = mgr.stop
  <2> SUFFICES ASSUME mgr.endpoint # 0 PROVE mgr.endpoint = mgr.stop
    OBVIOUS
  <2>1. mgr.endpoint \in Switch!Gens /\ reader[mgr.endpoint].at \in Runs
    BY <1>0, GensAre DEF BridgeTypes, StoppedLeaves
  <2>2. mgr.endpoint \notin stops /\ reader[mgr.endpoint].at # "none"
    BY <1>0, <2>1 DEF StoppedLeaves, Runs
  <2> QED BY <2>1, <2>2, Newest
<1>2. mgr.video \in {0, mgr.stop}
  BY <1>0 DEF StoppedLeaves
<1>3. mgr.current # "none" => mgr.stop # 0
  BY <1>0 DEF NewestShown
<1>4. Switch!State = "streaming" => mgr.current # "none" /\ status.rows # {}
  BY DEF Switch!State, Switch!NoOne
<1>5. Switch!State = "ended" => mgr.current # "none" /\ mgr.ended
  BY DEF Switch!State, Switch!NoOne
<1>6. Switch!State = "error" => mgr.current # "none" /\ mgr.error
  BY DEF Switch!State, Switch!NoOne
<1> QED BY <1>0, <1>1, <1>2, <1>3, <1>4, <1>5, <1>6 DEF NewestShown

-----------------------------------------------------------------------------
(***************************************************************************)
(* The callers of send_command (Bridge).  An id is one caller's, carried   *)
(* only by the endpoint that caller read; one that is waited for has its   *)
(* caller still there and not answered.                                    *)
(***************************************************************************)
Words == Sources \cup
  {"none", "", "device disconnected", "no device connected", "replay has no device",
   "send failed", "timed out"}
Answers == [ok : BOOLEAN, why : Words]
Calls == [at : {"idle", "register", "send", "wait"}, ep : 0..MaxConnects, cid : Nat, n : Nat,
          answer : Answers]
Sockets == [at : {"none", "up", "closed", "stopped"}, carried : SUBSET Nat, rows : Nat]

CallTypes ==
  /\ call \in [Callers -> Calls]
  /\ waiting \subseteq Nat
  /\ command_seq \in Nat
  /\ sockets \in [Switch!Gens -> Sockets]
  /\ inbox \in [Switch!Gens -> Seq(Nat)]

Numbered ==
  /\ \A c \in Callers : call[c].cid <= command_seq
  /\ \A c, d \in Callers : c # d /\ call[c].cid = call[d].cid => call[c].cid = 0

Waited ==
  /\ \A k \in waiting : k # 0 /\ \E c \in Callers : call[c].cid = k /\ call[c].at \in {"send", "wait"}
  /\ \A c \in Callers :
       call[c].cid \in waiting \/ call[c].at = "register" => call[c].answer.why = ""

Asked ==
  \A c \in Callers :
    /\ call[c].ep \in {0} \cup Switch!Started
    /\ call[c].at # "idle" => call[c].ep # 0
    /\ call[c].answer.ok => call[c].ep # 0 /\ call[c].answer.why = reader[call[c].ep].dev

(* An id that a connect carries or brought in is of a caller that asked it.*)
OfConnect(k, g) ==
  k <= command_seq /\ \A c \in Callers : call[c].cid = k => k = 0 \/ call[c].ep = g
Carries ==
  \A g \in Switch!Gens :
    /\ \A k \in sockets[g].carried : OfConnect(k, g)
    /\ \A i \in 1..Len(inbox[g]) : OfConnect(inbox[g][i], g)

AnswersIInv == CallTypes /\ Numbered /\ Waited /\ Asked /\ Carries

(* No command sent yet.                                                    *)
LEMMA AnswersInit == Switch!Init => AnswersIInv
<1> SUFFICES ASSUME Switch!Init PROVE AnswersIInv
  OBVIOUS
<1> DEFINE a == [ok |-> FALSE, why |-> ""]
           r == [at |-> "idle", ep |-> 0, cid |-> 0, n |-> 0, answer |-> a]
           s == [at |-> "none", carried |-> {}, rows |-> 0]
<1>1. /\ call = [c \in Callers |-> r] /\ waiting = {} /\ command_seq = 0
      /\ sockets = [g \in Switch!Gens |-> s] /\ inbox = [g \in Switch!Gens |-> <<>>]
  BY DEF Switch!Init, Switch!Fail
<1>2. r \in Calls /\ r.at = "idle" /\ r.ep = 0 /\ r.cid = 0 /\ ~r.answer.ok
  <2>1. a \in Answers /\ ~a.ok
    BY DEF Answers, Words
  <2> HIDE DEF a
  <2> QED BY <2>1, GensAre DEF Calls
<1>3. s \in Sockets /\ s.carried = {}
  BY DEF Sockets
<1> HIDE DEF r, s
<1>4. CallTypes
  BY <1>1, <1>2, <1>3 DEF CallTypes
<1>5. \A c \in Callers : call[c] = r
  BY <1>1
<1>7. Numbered
  BY <1>1, <1>2, <1>5 DEF Numbered
<1>8. Waited
  BY <1>1, <1>2, <1>5 DEF Waited
<1>9. Asked
  BY <1>1, <1>2, <1>5 DEF Asked
<1>6. Carries
  BY <1>1, <1>3 DEF Carries
<1> QED BY <1>4, <1>6, <1>7, <1>8, <1>9 DEF AnswersIInv

(* A connect keeps its source.                                             *)
LEMMA DevsStay ==
  ASSUME ShownIInv, [Switch!Next]_bridge_v, NEW h \in Switch!Started
  PROVE  h \in Switch!Started' /\ reader'[h].dev = reader[h].dev
<1>0. BridgeTypes /\ InTurn /\ h \in Switch!Gens /\ reader[h].at # "none" /\ h \in Switch!Gens'
  BY DEF ShownIInv, Switch!Started, Switch!Gens
<1> SUFFICES reader'[h].at # "none" /\ reader'[h].dev = reader[h].dev
  BY <1>0 DEF Switch!Started
<1>1. CASE reader' = reader
  BY <1>0, <1>1
<1>2. ASSUME NEW g \in Switch!Gens, Switch!Reader(g) PROVE reader'[h].at # "none" /\ reader'[h].dev = reader[h].dev
  <2>1. ASSUME NEW at, NEW why, at # "none", Switch!Ends(g, at, why)
        PROVE  reader'[h].at # "none" /\ reader'[h].dev = reader[h].dev
    <3>1. h # g => reader'[h] = reader[h]
      BY <1>0, <2>1 DEF Switch!Ends, BridgeTypes
    <3>2. reader'[g] = [at |-> at, dev |-> reader[g].dev, cause |-> why]
      BY <1>0, <2>1 DEF Switch!Ends, BridgeTypes
    <3> QED BY <1>0, <2>1, <3>1, <3>2
  <2>2. ASSUME NEW at, at # "none", reader' = [reader EXCEPT ![g].at = at]
        PROVE  reader'[h].at # "none" /\ reader'[h].dev = reader[h].dev
    BY <1>0, <2>2 DEF BridgeTypes, ReaderStates
  <2>3. CASE Switch!Open(g)
    BY <2>1, <2>3 DEF Switch!Open
  <2>4. CASE Switch!Check(g)
    BY <2>2, <2>4 DEF Switch!Check
  <2>5. CASE Switch!Pump(g)
    BY <1>1, <2>5 DEF Switch!Pump
  <2>6. CASE Switch!Leave(g)
    BY <2>1, <2>6 DEF Switch!Leave
  <2>7. CASE Switch!Finish(g)
    BY <2>2, <2>7 DEF Switch!Finish
  <2> QED BY <1>2, <2>3, <2>4, <2>5, <2>6, <2>7 DEF Switch!Reader
<1>3. CASE Switch!Operator
  <2>1. CASE reader' # reader
    <3> DEFINE g == Cardinality(Switch!Started) + 1
    <3>1. ui.at = "setting" /\ ui.to # "none"
          /\ reader' = [reader EXCEPT ![g] = [at |-> "opening", dev |-> ui.to, cause |-> "none"]]
      BY <1>3, <2>1, CardinalityIs
      DEF Switch!Operator, Switch!Switch, Switch!Join, Switch!FailPending, Switch!Set, Switch!NoOne
    <3>2. g \notin Switch!Started
      <4>1. PICK k \in 0..MaxConnects : Switch!Started = 1..k
        BY <1>0 DEF InTurn
      <4>2. k \in Nat /\ Cardinality(1..k) = k
        BY <4>1, FS_Interval, GensAre
      <4>3. g = k + 1
        BY <4>1, <4>2
      <4> HIDE DEF g
      <4> QED BY <4>1, <4>2, <4>3
    <3> HIDE DEF g
    <3> QED BY <1>0, <3>1, <3>2 DEF BridgeTypes
  <2> QED BY <1>1, <2>1
<1>4. ASSUME NEW g \in Switch!Gens, Switch!Arrive(g) \/ Switch!LinkCloses(g) PROVE reader' = reader
  BY <1>4 DEF Switch!Arrive, Switch!LinkCloses
<1>5. ASSUME NEW c \in Callers, Switch!Command(c) PROVE reader' = reader
  BY <1>5 DEF Switch!Command, Switch!ReadEndpoint, Switch!Register, Switch!Send, Switch!Wait
<1>6. CASE UNCHANGED bridge_v
  BY <1>1, <1>6 DEF bridge_v
<1> QED BY <1>1, <1>2, <1>3, <1>4, <1>5, <1>6, Zenon DEF Switch!Next

(* A step that moves no command: the operator's, a reader's but for a row, *)
(* and a link's end.                                                       *)
LEMMA NoCommand ==
  ASSUME ShownIInv, [Switch!Next]_bridge_v, AnswersIInv,
         UNCHANGED <<call, waiting, command_seq, inbox>>,
         sockets' \in [Switch!Gens -> Sockets],
         \A g \in Switch!Gens : sockets'[g].carried = sockets[g].carried
  PROVE  AnswersIInv'
<1>1. CallTypes' /\ Numbered' /\ Waited'
  BY DEF AnswersIInv, CallTypes, Numbered, Waited, Switch!Gens
<1>2. Asked'
  BY DevsStay DEF AnswersIInv, Asked
<1>3. Carries'
  BY DEF AnswersIInv, Carries, OfConnect, Switch!Gens
<1> QED BY <1>1, <1>2, <1>3 DEF AnswersIInv

(* One caller's step, in the fields of call.                               *)
LEMMA OneCall ==
  ASSUME CallTypes, NEW c \in Callers, NEW r \in Calls, call' = [call EXCEPT ![c] = r]
  PROVE  /\ call' \in [Callers -> Calls] /\ call'[c] = r
         /\ \A d \in Callers : d # c => call'[d] = call[d]
BY DEF CallTypes

(* One caller's record.                                                    *)
LEMMA CallIs ==
  ASSUME CallTypes, NEW c \in Callers
  PROVE  /\ call[c] \in Calls /\ call[c].answer \in Answers /\ call[c].ep \in 0..MaxConnects
         /\ call[c].cid \in Nat /\ call[c].n \in Nat
<1>1. call[c] \in Calls
  BY DEF CallTypes
<1> QED BY <1>1 DEF Calls

(* The endpoint of a connect that runs, or none.                           *)
LEMMA AskAnswers ==
  ASSUME ShownIInv, AnswersIInv, NEW c \in Callers, Switch!ReadEndpoint(c) PROVE AnswersIInv'
<1>0. CallTypes /\ Numbered /\ Waited /\ Asked /\ Carries /\ BridgeTypes /\ StoppedLeaves
  BY DEF AnswersIInv, ShownIInv
<1>1. /\ call[c].at = "idle" /\ UNCHANGED <<mgr, reader, sockets, inbox, waiting, command_seq>>
  BY DEF Switch!ReadEndpoint
<1>2. PICK r \in Calls :
        /\ call' = [call EXCEPT ![c] = r] /\ r.ep = mgr.endpoint /\ r.cid = 0 /\ ~r.answer.ok
        /\ r.at # "idle" => r.ep # 0 /\ r.answer.why = ""
  <2>1. ASSUME NEW at \in {"idle", "register"}, NEW why \in Words,
               at # "idle" => mgr.endpoint # 0 /\ why = "",
               call' = [call EXCEPT ![c] =
                 [at |-> at, ep |-> mgr.endpoint, cid |-> 0, n |-> call[c].n + 1,
                  answer |-> [ok |-> FALSE, why |-> why]]]
        PROVE  \E r \in Calls :
                 /\ call' = [call EXCEPT ![c] = r] /\ r.ep = mgr.endpoint /\ r.cid = 0 /\ ~r.answer.ok
                 /\ r.at # "idle" => r.ep # 0 /\ r.answer.why = ""
    <3> DEFINE a == [ok |-> FALSE, why |-> why]
               r == [at |-> at, ep |-> mgr.endpoint, cid |-> 0, n |-> call[c].n + 1, answer |-> a]
    <3>1. a \in Answers /\ ~a.ok /\ a.why = why
      BY DEF Answers
    <3>2. mgr.endpoint \in 0..MaxConnects /\ call[c].n + 1 \in Nat
      BY <1>0, CallIs DEF BridgeTypes
    <3>3. call' = [call EXCEPT ![c] = r]
      BY <2>1
    <3> HIDE DEF a
    <3>4. r \in Calls /\ r.ep = mgr.endpoint /\ r.cid = 0 /\ r.answer = a /\ r.at = at
      BY <3>2, <3>1 DEF Calls
    <3> HIDE DEF r
    <3> QED BY <2>1, <3>1, <3>3, <3>4
  <2>2. {"no device connected", "replay has no device", ""} \subseteq Words
    BY DEF Words
  <2>3. CASE mgr.endpoint = 0
    BY <2>1, <2>2, <2>3 DEF Switch!ReadEndpoint, Switch!Fail
  <2>4. CASE mgr.endpoint # 0 /\ reader[mgr.endpoint].dev \in Replays
    BY <2>1, <2>2, <2>4 DEF Switch!ReadEndpoint, Switch!Fail
  <2>5. CASE mgr.endpoint # 0 /\ reader[mgr.endpoint].dev \notin Replays
    BY <2>1, <2>2, <2>5 DEF Switch!ReadEndpoint, Switch!Fail
  <2> QED BY <2>3, <2>4, <2>5
<1>3. /\ call' \in [Callers -> Calls] /\ call'[c] = r
      /\ \A d \in Callers : d # c => call'[d] = call[d]
  BY <1>0, <1>2, OneCall, Zenon
<1>4. CallTypes'
  BY <1>0, <1>1, <1>3 DEF CallTypes, Switch!Gens
<1>5. Numbered'
  <2>1. command_seq \in Nat
    BY <1>0 DEF CallTypes
  <2>2. \A d \in Callers : call'[d].cid <= command_seq'
    <3> SUFFICES ASSUME NEW d \in Callers PROVE call'[d].cid <= command_seq
      BY <1>1
    <3>1. CASE d = c
      <4>1. call'[d].cid = 0
        BY <1>2, <1>3, <3>1
      <4> QED BY <2>1, <4>1
    <3>2. CASE d # c
      BY <1>0, <1>3, <3>2 DEF Numbered
    <3> QED BY <3>1, <3>2
  <2>3. \A d, e \in Callers : d # e /\ call'[d].cid = call'[e].cid => call'[d].cid = 0
    BY <1>0, <1>2, <1>3 DEF Numbered
  <2> QED BY <2>2, <2>3 DEF Numbered
<1>6. Waited'
  <2>1. \A k \in waiting : k # 0 /\ \E d \in Callers : call'[d].cid = k /\ call'[d].at \in {"send", "wait"}
    <3>1. SUFFICES ASSUME NEW k \in waiting
                   PROVE  k # 0 /\ \E d \in Callers : call'[d].cid = k /\ call'[d].at \in {"send", "wait"}
      OBVIOUS
    <3>2. k # 0 /\ \E d \in Callers : call[d].cid = k /\ call[d].at \in {"send", "wait"}
      BY <1>0 DEF Waited
    <3>3. PICK d \in Callers : call[d].cid = k /\ call[d].at \in {"send", "wait"}
      BY <3>2
    <3>4. d # c
      BY <1>1, <3>3
    <3> QED BY <1>3, <3>2, <3>3, <3>4
  <2>2. \A d \in Callers :
          call'[d].cid \in waiting \/ call'[d].at = "register" => call'[d].answer.why = ""
    BY <1>0, <1>2, <1>3 DEF Waited
  <2> QED BY <1>1, <2>1, <2>2 DEF Waited
<1>7. Switch!Started' = Switch!Started
  BY <1>1 DEF Switch!Started, Switch!Gens
<1>8. mgr.endpoint \in {0} \cup Switch!Started
  <2>1. mgr.endpoint \in 0..MaxConnects
    BY <1>0 DEF BridgeTypes
  <2>2. mgr.endpoint # 0 => reader[mgr.endpoint].at \in Runs
    BY <1>0 DEF StoppedLeaves
  <2> QED BY <2>1, <2>2, GensAre DEF Switch!Started, Runs
<1>9. Asked'
  BY <1>0, <1>1, <1>2, <1>3, <1>7, <1>8 DEF Asked
<1>10. Carries'
  <2>1. \A k, g : OfConnect(k, g) => OfConnect(k, g)'
    BY <1>1, <1>2, <1>3 DEF OfConnect
  <2> QED BY <1>0, <1>1, <2>1 DEF Carries, Switch!Gens
<1> QED BY <1>4, <1>5, <1>6, <1>9, <1>10 DEF AnswersIInv

(* A number no caller has had.                                             *)
LEMMA RegisterAnswers ==
  ASSUME AnswersIInv, NEW c \in Callers, Switch!Register(c) PROVE AnswersIInv'
<1>0. CallTypes /\ Numbered /\ Waited /\ Asked /\ Carries
  BY DEF AnswersIInv
<1> DEFINE r == [call[c] EXCEPT !.at = "send", !.cid = command_seq + 1]
<1>1. /\ call[c].at = "register" /\ UNCHANGED <<reader, sockets, inbox>>
      /\ call' = [call EXCEPT ![c] = r] /\ command_seq' = command_seq + 1
      /\ waiting' = waiting \cup {command_seq + 1}
  BY <1>0 DEF Switch!Register, CallTypes
<1>2. command_seq \in Nat /\ waiting \subseteq Nat
  BY <1>0 DEF CallTypes
<1>3. /\ r \in Calls /\ r.at = "send" /\ r.cid = command_seq + 1 /\ r.ep = call[c].ep
      /\ r.answer = call[c].answer
  <2>1. call[c] \in Calls /\ command_seq + 1 \in Nat
    BY <1>0, <1>2, CallIs
  <2> QED BY <2>1 DEF Calls
<1> HIDE DEF r
<1>4. /\ call' \in [Callers -> Calls] /\ call'[c] = r
      /\ \A d \in Callers : d # c => call'[d] = call[d]
  BY <1>0, <1>1, <1>3, OneCall, Zenon
<1>5. \A d \in Callers : call[d].cid \in Nat /\ call[d].cid <= command_seq
  BY <1>0, CallIs DEF Numbered
<1>6. CallTypes'
  BY <1>0, <1>1, <1>2, <1>4 DEF CallTypes, Switch!Gens
<1>7. Numbered'
  <2>1. \A d \in Callers : call'[d].cid <= command_seq'
    BY <1>1, <1>2, <1>3, <1>4, <1>5
  <2>2. \A d, e \in Callers : d # e /\ call'[d].cid = call'[e].cid => call'[d].cid = 0
    BY <1>0, <1>2, <1>3, <1>4, <1>5 DEF Numbered
  <2> QED BY <2>1, <2>2 DEF Numbered
<1>8. Switch!Started' = Switch!Started
  BY <1>1 DEF Switch!Started, Switch!Gens
<1>9. Asked'
  BY <1>0, <1>1, <1>3, <1>4, <1>8 DEF Asked
<1>a. Waited'
  <2>1. ASSUME NEW k \in waiting'
        PROVE  k # 0 /\ \E d \in Callers : call'[d].cid = k /\ call'[d].at \in {"send", "wait"}
    <3>1. CASE k = command_seq + 1
      BY <1>2, <1>3, <1>4, <3>1
    <3>2. CASE k \in waiting
      <4>1. k # 0 /\ \E d \in Callers : call[d].cid = k /\ call[d].at \in {"send", "wait"}
        BY <1>0, <3>2 DEF Waited
      <4>2. PICK d \in Callers : call[d].cid = k /\ call[d].at \in {"send", "wait"}
        BY <4>1
      <4>3. d # c
        BY <1>1, <4>2
      <4> QED BY <1>4, <4>1, <4>2, <4>3
    <3> QED BY <1>1, <2>1, <3>1, <3>2
  <2>2. ASSUME NEW d \in Callers, call'[d].cid \in waiting' \/ call'[d].at = "register"
        PROVE  call'[d].answer.why = ""
    <3>1. CASE d = c
      BY <1>0, <1>1, <1>3, <1>4, <3>1 DEF Waited
    <3>2. CASE d # c
      <4>1. call[d].cid # command_seq + 1
        BY <1>2, <1>5
      <4> QED BY <1>0, <1>1, <1>4, <2>2, <3>2, <4>1 DEF Waited
    <3> QED BY <3>1, <3>2
  <2> QED BY <2>1, <2>2 DEF Waited
<1>10. Carries'
  <2>1. \A k \in Nat : \A g : OfConnect(k, g) => OfConnect(k, g)'
    BY <1>1, <1>2, <1>3, <1>4 DEF OfConnect
  <2>2. \A g \in Switch!Gens : sockets[g].carried \subseteq Nat /\ inbox[g] \in Seq(Nat)
    BY <1>0 DEF CallTypes, Sockets
  <2>3. \A g \in Switch!Gens : \A i \in 1..Len(inbox[g]) : inbox[g][i] \in Nat
    BY <2>2
  <2> QED BY <1>0, <1>1, <2>1, <2>2, <2>3, Zenon DEF Carries, Switch!Gens
<1> QED BY <1>6, <1>7, <1>9, <1>a, <1>10 DEF AnswersIInv

(* A caller that has its id sends with it, waits or returns: its id is     *)
(* still waited for only if it is still there, and only its own endpoint   *)
(* carries it.                                                             *)
LEMMA MoveAnswers ==
  ASSUME AnswersIInv, NEW c \in Callers, NEW r \in Calls, call' = [call EXCEPT ![c] = r],
         call[c].at \in {"send", "wait"}, r.cid = call[c].cid, r.ep = call[c].ep,
         UNCHANGED <<reader, command_seq, inbox>>,
         waiting' \subseteq waiting, waiting \subseteq waiting' \cup {call[c].cid},
         \/ r.at = "wait" /\ r.answer = call[c].answer
         \/ /\ r.at = "idle" /\ call[c].cid \notin waiting'
            /\ r.answer.ok => r.answer = call[c].answer,
         sockets' \in [Switch!Gens -> Sockets],
         \A g \in Switch!Gens : \A k \in sockets'[g].carried :
           k \in sockets[g].carried \/ (g = call[c].ep /\ k = call[c].cid)
  PROVE  AnswersIInv'
<1>0. CallTypes /\ Numbered /\ Waited /\ Asked /\ Carries
  BY DEF AnswersIInv
<1>1. /\ call' \in [Callers -> Calls] /\ call'[c] = r
      /\ \A d \in Callers : d # c => call'[d] = call[d]
  BY <1>0, OneCall, Zenon
<1>2. \A d \in Callers : call'[d].cid = call[d].cid /\ call'[d].ep = call[d].ep
  BY <1>1
<1>3. CallTypes'
  BY <1>0, <1>1 DEF CallTypes, Switch!Gens
<1>4. Numbered'
  BY <1>0, <1>2 DEF Numbered
<1>5. Waited'
  <2>1. ASSUME NEW k \in waiting'
        PROVE  k # 0 /\ \E d \in Callers : call'[d].cid = k /\ call'[d].at \in {"send", "wait"}
    <3>1. k # 0 /\ \E d \in Callers : call[d].cid = k /\ call[d].at \in {"send", "wait"}
      BY <1>0, <2>1 DEF Waited
    <3>2. PICK d \in Callers : call[d].cid = k /\ call[d].at \in {"send", "wait"}
      BY <3>1
    <3>3. call'[d].at \in {"send", "wait"}
      BY <1>1, <3>2
    <3> QED BY <1>2, <3>1, <3>2, <3>3
  <2>2. ASSUME NEW d \in Callers, call'[d].cid \in waiting' \/ call'[d].at = "register"
        PROVE  call'[d].answer.why = ""
    <3>1. CASE d = c
      <4>1. call[c].cid \in waiting /\ r.answer = call[c].answer
        BY <1>1, <1>2, <2>2, <3>1
      <4> QED BY <1>0, <1>1, <3>1, <4>1 DEF Waited
    <3>2. CASE d # c
      BY <1>0, <1>1, <2>2, <3>2 DEF Waited
    <3> QED BY <3>1, <3>2
  <2> QED BY <2>1, <2>2 DEF Waited
<1>6. Switch!Started' = Switch!Started
  BY DEF Switch!Started, Switch!Gens
<1>7. Asked'
  <2> SUFFICES ASSUME NEW d \in Callers
               PROVE  /\ call'[d].ep \in {0} \cup Switch!Started
                      /\ call'[d].at # "idle" => call'[d].ep # 0
                      /\ call'[d].answer.ok =>
                           call'[d].ep # 0 /\ call'[d].answer.why = reader[call'[d].ep].dev
    BY <1>6 DEF Asked
  <2>1. CASE d = c
    BY <1>0, <1>1, <2>1 DEF Asked
  <2>2. CASE d # c
    BY <1>0, <1>1, <2>2 DEF Asked
  <2> QED BY <2>1, <2>2
<1>8. Carries'
  <2>1. \A k, g : OfConnect(k, g)' <=> OfConnect(k, g)
    BY <1>2 DEF OfConnect
  <2>2. OfConnect(call[c].cid, call[c].ep)
    BY <1>0 DEF OfConnect, Numbered
  <2>3. ASSUME NEW g \in Switch!Gens, NEW k \in sockets'[g].carried PROVE OfConnect(k, g)
    BY <1>0, <2>2, <2>3 DEF Carries
  <2>4. \A g \in Switch!Gens : \A i \in 1..Len(inbox[g]) : OfConnect(inbox[g][i], g)
    BY <1>0 DEF Carries
  <2> QED BY <2>1, <2>3, <2>4, Zenon DEF Carries, Switch!Gens
<1> QED BY <1>3, <1>4, <1>5, <1>7, <1>8 DEF AnswersIInv

(* The frame is carried, swallowed or refused (send_command).              *)
LEMMA SendAnswers ==
  ASSUME AnswersIInv, NEW c \in Callers, Switch!Send(c) PROVE AnswersIInv'
<1>0. CallTypes /\ Asked
  BY DEF AnswersIInv
<1> DEFINE g == call[c].ep
           waits == [call[c] EXCEPT !.at = "wait"]
           a == [ok |-> FALSE, why |-> "send failed"]
           failed == [call[c] EXCEPT !.at = "idle", !.answer = a]
<1>1. call[c].at = "send" /\ UNCHANGED <<reader, inbox, command_seq>>
  BY DEF Switch!Send
<1>2. g \in Switch!Gens
  BY <1>0, <1>1 DEF Asked, Switch!Started
<1>3. call[c] \in Calls /\ call[c].cid \in Nat /\ sockets[g] \in Sockets
      /\ sockets \in [Switch!Gens -> Sockets]
  BY <1>0, <1>2, CallIs DEF CallTypes
<1>4. /\ waits \in Calls /\ waits.at = "wait" /\ waits.cid = call[c].cid /\ waits.ep = call[c].ep
      /\ waits.answer = call[c].answer
  BY <1>3 DEF Calls
<1>5. /\ failed \in Calls /\ failed.at = "idle" /\ failed.cid = call[c].cid
      /\ failed.ep = call[c].ep /\ ~failed.answer.ok
  <2>1. a \in Answers /\ ~a.ok
    BY DEF Answers, Words
  <2> HIDE DEF a
  <2> QED BY <1>3, <2>1 DEF Calls
<1>6. CASE /\ sockets' = [sockets EXCEPT ![g].carried = @ \cup {call[c].cid}]
           /\ call' = [call EXCEPT ![c].at = "wait"] /\ UNCHANGED waiting
  <2>1. call' = [call EXCEPT ![c] = waits]
    BY <1>0, <1>6 DEF CallTypes
  <2>2. sockets' \in [Switch!Gens -> Sockets]
    BY <1>2, <1>3, <1>6 DEF Sockets
  <2>3. \A h \in Switch!Gens : \A k \in sockets'[h].carried :
          k \in sockets[h].carried \/ (h = g /\ k = call[c].cid)
    BY <1>2, <1>3, <1>6 DEF Sockets
  <2> HIDE DEF waits
  <2> QED BY <1>1, <1>4, <1>6, <2>1, <2>2, <2>3, MoveAnswers
<1>7. CASE call' = [call EXCEPT ![c].at = "wait"] /\ UNCHANGED <<sockets, waiting>>
  <2>1. call' = [call EXCEPT ![c] = waits]
    BY <1>0, <1>7 DEF CallTypes
  <2> HIDE DEF waits
  <2> QED BY <1>1, <1>3, <1>4, <1>7, <2>1, MoveAnswers
<1>8. CASE /\ waiting' = waiting \ {call[c].cid} /\ UNCHANGED sockets
           /\ Switch!Returns(c, Switch!Fail("send failed"))
  <2>1. call' = [call EXCEPT ![c] = failed]
    BY <1>0, <1>8 DEF CallTypes, Switch!Returns, Switch!Fail
  <2> HIDE DEF failed
  <2> QED BY <1>1, <1>3, <1>5, <1>8, <2>1, MoveAnswers
<1> QED BY <1>6, <1>7, <1>8 DEF Switch!Send

(* The waiter finds its slot filled, or gives its id up (send_command).    *)
LEMMA WaitAnswers ==
  ASSUME AnswersIInv, NEW c \in Callers, Switch!Wait(c) PROVE AnswersIInv'
<1>0. CallTypes /\ Waited
  BY DEF AnswersIInv
<1>1. call[c].at = "wait" /\ UNCHANGED <<reader, sockets, inbox, command_seq>>
  BY DEF Switch!Wait
<1>2. call[c] \in Calls /\ call[c].answer \in Answers /\ sockets \in [Switch!Gens -> Sockets]
  BY <1>0, CallIs DEF CallTypes
<1>3. ASSUME NEW a \in Answers, Switch!Returns(c, a), a.ok => a = call[c].answer,
             waiting' \subseteq waiting, waiting \subseteq waiting' \cup {call[c].cid},
             call[c].cid \notin waiting'
      PROVE  AnswersIInv'
  <2> DEFINE r == [call[c] EXCEPT !.at = "idle", !.answer = a]
  <2>1. r \in Calls /\ r.at = "idle" /\ r.cid = call[c].cid /\ r.ep = call[c].ep /\ r.answer = a
    BY <1>2 DEF Calls
  <2>2. call' = [call EXCEPT ![c] = r]
    BY <1>0, <1>3 DEF CallTypes, Switch!Returns
  <2> HIDE DEF r
  <2> QED BY <1>1, <1>2, <1>3, <2>1, <2>2, MoveAnswers
<1>4. CASE Switch!Answered(c)
  <2>1. Switch!Returns(c, call[c].answer) /\ UNCHANGED waiting /\ call[c].answer.why # ""
    BY <1>4 DEF Switch!Wait, Switch!Answered
  <2>2. call[c].cid \notin waiting
    BY <1>0, <2>1 DEF Waited
  <2> QED BY <1>2, <1>3, <2>1, <2>2
<1>5. CASE ~Switch!Answered(c)
  <2> DEFINE a == [ok |-> FALSE, why |-> "timed out"]
  <2>1. a \in Answers /\ ~a.ok
    BY DEF Answers, Words
  <2>2. Switch!Returns(c, a) /\ waiting' = waiting \ {call[c].cid}
    BY <1>5 DEF Switch!Wait, Switch!Fail
  <2> HIDE DEF a
  <2> QED BY <1>3, <2>1, <2>2
<1> QED BY <1>4, <1>5

(* Callers whose ids are taken out of what is waited for are answered: by  *)
(* their device, or with a failure (_deliver_result, _fail_pending).       *)
LEMMA AnswerAnswers ==
  ASSUME AnswersIInv, NEW S \in SUBSET waiting, NEW a \in Answers,
         call' = [c \in Callers |-> IF call[c].cid \in S THEN [call[c] EXCEPT !.answer = a] ELSE call[c]],
         waiting' = waiting \ S, UNCHANGED <<reader, command_seq, sockets>>,
         a.ok => \A c \in Callers : call[c].cid \in S =>
                   call[c].ep # 0 /\ a.why = reader[call[c].ep].dev,
         inbox' \in [Switch!Gens -> Seq(Nat)],
         \A g \in Switch!Gens : \A i \in 1..Len(inbox'[g]) :
           \E j \in 1..Len(inbox[g]) : inbox'[g][i] = inbox[g][j]
  PROVE  AnswersIInv'
<1>0. CallTypes /\ Numbered /\ Waited /\ Asked /\ Carries
  BY DEF AnswersIInv
<1>1. ASSUME NEW c \in Callers
      PROVE  /\ call'[c] \in Calls /\ call'[c].cid = call[c].cid /\ call'[c].ep = call[c].ep
             /\ call'[c].at = call[c].at
             /\ call[c].cid \in S => call'[c].answer = a
             /\ call[c].cid \notin S => call'[c].answer = call[c].answer
  <2>1. call[c] \in Calls
    BY <1>0, CallIs
  <2>2. CASE call[c].cid \in S
    <3>1. call'[c] = [call[c] EXCEPT !.answer = a]
      BY <2>2
    <3> QED BY <2>1, <2>2, <3>1 DEF Calls
  <2>3. CASE call[c].cid \notin S
    <3>1. call'[c] = call[c]
      BY <2>3
    <3> QED BY <2>1, <2>3, <3>1
  <2> QED BY <2>2, <2>3
<1>2. CallTypes'
  <2>1. call' \in [Callers -> Calls]
    BY <1>1
  <2> QED BY <1>0, <2>1 DEF CallTypes, Switch!Gens
<1>3. Numbered'
  BY <1>0, <1>1 DEF Numbered
<1>4. Waited'
  <2>1. ASSUME NEW k \in waiting'
        PROVE  k # 0 /\ \E d \in Callers : call'[d].cid = k /\ call'[d].at \in {"send", "wait"}
    <3>1. k # 0 /\ \E d \in Callers : call[d].cid = k /\ call[d].at \in {"send", "wait"}
      BY <1>0, <2>1 DEF Waited
    <3> QED BY <1>1, <3>1
  <2>2. ASSUME NEW d \in Callers, call'[d].cid \in waiting' \/ call'[d].at = "register"
        PROVE  call'[d].answer.why = ""
    <3>1. call[d].cid \notin S
      <4>1. CASE call'[d].cid \in waiting'
        BY <1>1, <4>1
      <4>2. ASSUME call[d].at = "register", call[d].cid \in S PROVE FALSE
        <5>1. call[d].cid # 0 /\ \E e \in Callers : call[e].cid = call[d].cid /\ call[e].at \in {"send", "wait"}
          BY <1>0, <4>2 DEF Waited
        <5>2. PICK e \in Callers : call[e].cid = call[d].cid /\ call[e].at \in {"send", "wait"}
          BY <5>1
        <5>3. e = d
          BY <1>0, <5>1, <5>2 DEF Numbered
        <5> QED BY <4>2, <5>2, <5>3
      <4> QED BY <1>1, <2>2, <4>1, <4>2
    <3> QED BY <1>0, <1>1, <2>2, <3>1 DEF Waited
  <2> QED BY <2>1, <2>2 DEF Waited
<1>5. Switch!Started' = Switch!Started
  BY DEF Switch!Started, Switch!Gens
<1>6. Asked'
  BY <1>0, <1>1, <1>5 DEF Asked
<1>7. Carries'
  <2>1. \A k, g : OfConnect(k, g)' <=> OfConnect(k, g)
    BY <1>1 DEF OfConnect
  <2>2. \A g \in Switch!Gens : \A i \in 1..Len(inbox'[g]) : OfConnect(inbox'[g][i], g)
    BY <1>0 DEF Carries
  <2>3. \A g \in Switch!Gens : \A k \in sockets[g].carried : OfConnect(k, g)
    BY <1>0 DEF Carries
  <2> QED BY <2>1, <2>2, <2>3, Zenon DEF Carries, Switch!Gens
<1> QED BY <1>2, <1>3, <1>4, <1>6, <1>7 DEF AnswersIInv

(* A switch fails what waits (_fail_pending).                              *)
LEMMA FailPendingAnswers == AnswersIInv /\ Switch!FailPending => AnswersIInv'
<1> SUFFICES ASSUME AnswersIInv, Switch!FailPending PROVE AnswersIInv'
  OBVIOUS
<1> DEFINE a == [ok |-> FALSE, why |-> "device disconnected"]
<1>1. /\ call' = [c \in Callers |-> IF call[c].cid \in waiting THEN [call[c] EXCEPT !.answer = a] ELSE call[c]]
      /\ waiting' = {} /\ UNCHANGED <<reader, sockets, inbox, command_seq>>
  BY DEF Switch!FailPending, Switch!Fail
<1>2. a \in Answers /\ ~a.ok
  BY DEF Answers, Words
<1> HIDE DEF a
<1>3. inbox \in [Switch!Gens -> Seq(Nat)]
  BY DEF AnswersIInv, CallTypes
<1>4. waiting' = waiting \ waiting
  BY <1>1
<1> QED BY <1>1, <1>2, <1>3, <1>4, AnswerAnswers

(* A CommandResult answers the caller whose command that connect carried.  *)
LEMMA PumpAnswers ==
  ASSUME ShownIInv, AnswersIInv, NEW g \in Switch!Gens, Switch!Pump(g) PROVE AnswersIInv'
<1>0. CallTypes /\ Waited /\ Asked /\ Carries
  BY DEF AnswersIInv
<1>1. inbox \in [Switch!Gens -> Seq(Nat)] /\ inbox[g] \in Seq(Nat) /\ inbox[g] # <<>>
  BY <1>0 DEF CallTypes, Switch!Pump
<1>2. Tail(inbox[g]) \in Seq(Nat) /\ Head(inbox[g]) = inbox[g][1] /\ Len(inbox[g]) \in Nat \ {0}
      /\ \A i \in 1..Len(Tail(inbox[g])) : Tail(inbox[g])[i] = inbox[g][i + 1] /\ i + 1 \in 1..Len(inbox[g])
  BY <1>1, Tailed
<1> DEFINE cid == Head(inbox[g])
           S == {cid} \cap waiting
           a == [ok |-> TRUE, why |-> reader[g].dev]
<1>3. inbox' = [inbox EXCEPT ![g] = Tail(inbox[g])] /\ UNCHANGED <<reader, command_seq, sockets>>
  BY DEF Switch!Pump
<1>4. inbox' \in [Switch!Gens -> Seq(Nat)]
      /\ \A h \in Switch!Gens : \A i \in 1..Len(inbox'[h]) :
           \E j \in 1..Len(inbox[h]) : inbox'[h][i] = inbox[h][j]
  <2>1. inbox' \in [Switch!Gens -> Seq(Nat)]
    BY <1>1, <1>2, <1>3
  <2>2. ASSUME NEW h \in Switch!Gens, NEW i \in 1..Len(inbox'[h])
        PROVE  \E j \in 1..Len(inbox[h]) : inbox'[h][i] = inbox[h][j]
    <3>1. CASE h = g
      <4>1. inbox'[h] = Tail(inbox[g])
        BY <1>1, <1>3, <3>1
      <4> QED BY <1>2, <2>2, <3>1, <4>1
    <3>2. CASE h # g
      <4>1. inbox'[h] = inbox[h]
        BY <1>1, <1>3, <3>2
      <4> QED BY <2>2, <4>1
    <3> QED BY <3>1, <3>2
  <2> QED BY <2>1, <2>2
<1>5. waiting' = waiting \ S
      /\ call' = [c \in Callers |-> IF call[c].cid \in S THEN [call[c] EXCEPT !.answer = a] ELSE call[c]]
  BY DEF Switch!Pump
<1>6. a \in Answers /\ a.why = reader[g].dev
  <2>1. reader[g].dev \in Sources \cup {"none"}
    BY DEF ShownIInv, BridgeTypes, ReaderStates
  <2> QED BY <2>1 DEF Answers, Words
<1>7. \A c \in Callers : call[c].cid \in S => call[c].ep # 0 /\ a.why = reader[call[c].ep].dev
  <2>1. OfConnect(inbox[g][1], g)
    BY <1>0, <1>2 DEF Carries
  <2>2. g # 0
    BY GensAre
  <2> HIDE DEF a
  <2> QED BY <1>0, <1>2, <1>6, <2>1, <2>2 DEF OfConnect, Waited
<1> HIDE DEF a, S, cid
<1>8. S \in SUBSET waiting
  BY DEF S
<1> QED BY <1>3, <1>4, <1>5, <1>6, <1>7, <1>8, AnswerAnswers

(* A row comes in of what the connect carried, or of none.                 *)
LEMMA ArriveAnswers ==
  ASSUME ShownIInv, [Switch!Next]_bridge_v, AnswersIInv, NEW g \in Switch!Gens, Switch!Arrive(g)
  PROVE  AnswersIInv'
<1>0. CallTypes /\ Numbered /\ Waited /\ Asked /\ Carries
  BY DEF AnswersIInv
<1>1. UNCHANGED <<reader, call, waiting, command_seq>>
  BY DEF Switch!Arrive
<1>2. CASE UNCHANGED <<sockets, inbox>>
  BY <1>0, <1>1, <1>2, NoCommand DEF CallTypes
<1>3. CASE ~UNCHANGED <<sockets, inbox>>
  <2>1. PICK row \in sockets[g].carried \cup {0} :
          /\ sockets' = [sockets EXCEPT ![g] = [at |-> "up", carried |-> sockets[g].carried \ {row},
                           rows |-> sockets[g].rows + (IF row = 0 THEN 1 ELSE 0)]]
          /\ inbox' = IF Len(inbox[g]) < InboxDepth
                      THEN [inbox EXCEPT ![g] = Append(inbox[g], row)] ELSE inbox
    BY <1>3 DEF Switch!Arrive
  <2>2. /\ sockets \in [Switch!Gens -> Sockets] /\ sockets[g].carried \subseteq Nat /\ sockets[g].rows \in Nat
        /\ inbox \in [Switch!Gens -> Seq(Nat)] /\ inbox[g] \in Seq(Nat)
    BY <1>0 DEF CallTypes, Sockets
  <2>3. row \in Nat
    BY <2>1, <2>2
  <2> DEFINE s == [at |-> "up", carried |-> sockets[g].carried \ {row},
                   rows |-> sockets[g].rows + (IF row = 0 THEN 1 ELSE 0)]
  <2>4. s \in Sockets /\ s.carried = sockets[g].carried \ {row}
    <3>1. sockets[g].rows + (IF row = 0 THEN 1 ELSE 0) \in Nat
      BY <2>2
    <3> QED BY <2>2, <3>1 DEF Sockets
  <2>5. sockets' = [sockets EXCEPT ![g] = s]
    BY <2>1
  <2> HIDE DEF s
  <2>6. /\ sockets' \in [Switch!Gens -> Sockets]
        /\ \A h \in Switch!Gens : sockets'[h].carried \subseteq sockets[h].carried
    BY <2>2, <2>4, <2>5
  <2>7. OfConnect(row, g)
    <3>1. CASE row = 0
      BY <1>0, <3>1 DEF OfConnect, CallTypes
    <3>2. CASE row \in sockets[g].carried
      BY <1>0, <3>2 DEF Carries
    <3> QED BY <2>1, <3>1, <3>2
  <2>8. inbox' \in [Switch!Gens -> Seq(Nat)]
        /\ \A h \in Switch!Gens : \A i \in 1..Len(inbox'[h]) : OfConnect(inbox'[h][i], h)
    <3>1. \A h \in Switch!Gens : \A i \in 1..Len(inbox[h]) : OfConnect(inbox[h][i], h)
      BY <1>0 DEF Carries
    <3>2. CASE inbox' = inbox
      BY <2>2, <3>1, <3>2
    <3>3. CASE inbox' = [inbox EXCEPT ![g] = Append(inbox[g], row)]
      <4>1. /\ Append(inbox[g], row) \in Seq(Nat) /\ Len(Append(inbox[g], row)) = Len(inbox[g]) + 1
            /\ Append(inbox[g], row)[Len(inbox[g]) + 1] = row
            /\ \A i \in 1..Len(inbox[g]) : Append(inbox[g], row)[i] = inbox[g][i]
            /\ \A i \in 1..(Len(inbox[g]) + 1) : i \in 1..Len(inbox[g]) \/ i = Len(inbox[g]) + 1
        <5>1. inbox[g] \in Seq(Nat) /\ row \in Nat
          BY <2>2, <2>3
        <5> QED BY <5>1, Appended
      <4>2. inbox' \in [Switch!Gens -> Seq(Nat)] /\ inbox'[g] = Append(inbox[g], row)
            /\ \A h \in Switch!Gens : h # g => inbox'[h] = inbox[h]
        BY <2>2, <3>3, <4>1
      <4>3. ASSUME NEW i \in 1..(Len(inbox[g]) + 1) PROVE OfConnect(Append(inbox[g], row)[i], g)
        <5>1. CASE i \in 1..Len(inbox[g])
          BY <3>1, <4>1, <5>1, Zenon
        <5>2. CASE i = Len(inbox[g]) + 1
          BY <2>7, <4>1, <5>2, Zenon
        <5> QED BY <4>1, <4>3, <5>1, <5>2, Zenon
      <4>4. ASSUME NEW h \in Switch!Gens, NEW i \in 1..Len(inbox'[h]) PROVE OfConnect(inbox'[h][i], h)
        <5>1. CASE h = g
          BY <4>1, <4>2, <4>3, <4>4, <5>1, Zenon
        <5>2. CASE h # g
          BY <3>1, <4>2, <4>4, <5>2, Zenon
        <5> QED BY <5>1, <5>2
      <4> QED BY <4>2, <4>4
    <3> QED BY <2>1, <3>2, <3>3
  <2>9. \A k, h : OfConnect(k, h)' <=> OfConnect(k, h)
    BY <1>1 DEF OfConnect
  <2>10. Carries'
    <3>1. \A h \in Switch!Gens : \A k \in sockets'[h].carried : OfConnect(k, h)
      BY <1>0, <2>6 DEF Carries
    <3> QED BY <2>8, <2>9, <3>1, Zenon DEF Carries, Switch!Gens
  <2>11. CallTypes' /\ Numbered' /\ Waited'
    BY <1>0, <1>1, <2>6, <2>8 DEF CallTypes, Numbered, Waited, Switch!Gens
  <2>12. Asked'
    BY <1>0, <1>1 DEF Asked, Switch!Started, Switch!Gens
  <2> QED BY <2>10, <2>11, <2>12 DEF AnswersIInv
<1> QED BY <1>2, <1>3

(* Every step of the operator, the readers, the links and the callers.     *)
LEMMA AnswersNext == ShownIInv /\ AnswersIInv /\ [Switch!Next]_bridge_v => AnswersIInv'
<1> SUFFICES ASSUME ShownIInv, AnswersIInv, [Switch!Next]_bridge_v PROVE AnswersIInv'
  OBVIOUS
<1>0. sockets \in [Switch!Gens -> Sockets]
  BY DEF AnswersIInv, CallTypes
<1>1. CASE UNCHANGED <<call, waiting, command_seq, inbox, sockets>>
  BY <1>0, <1>1, NoCommand
<1>2. ASSUME NEW g \in Switch!Gens, UNCHANGED <<call, waiting, command_seq, inbox>>,
             NEW at \in {"none", "up", "closed", "stopped"}, sockets' = [sockets EXCEPT ![g].at = at]
      PROVE  AnswersIInv'
  <2>1. /\ sockets' \in [Switch!Gens -> Sockets]
        /\ \A h \in Switch!Gens : sockets'[h].carried = sockets[h].carried
    BY <1>0, <1>2 DEF Sockets
  <2> QED BY <1>2, <2>1, NoCommand
<1>3. CASE Switch!Operator
  <2>1. CASE Switch!FailPending
    BY <2>1, FailPendingAnswers
  <2>2. CASE ~Switch!FailPending
    BY <1>1, <1>3, <2>2 DEF Switch!Operator, Switch!Switch, Switch!Join, Switch!Set
  <2> QED BY <2>1, <2>2
<1>4. ASSUME NEW g \in Switch!Gens, Switch!Reader(g) PROVE AnswersIInv'
  <2>1. CASE Switch!Open(g)
    BY <1>1, <1>2, <2>1 DEF Switch!Open
  <2>2. CASE Switch!Check(g)
    BY <1>1, <1>2, <2>2 DEF Switch!Check
  <2>3. CASE Switch!Pump(g)
    BY <2>3, PumpAnswers
  <2>4. CASE Switch!Leave(g)
    BY <1>1, <2>4 DEF Switch!Leave
  <2>5. CASE Switch!Finish(g)
    BY <1>2, <2>5 DEF Switch!Finish
  <2> QED BY <1>4, <2>1, <2>2, <2>3, <2>4, <2>5 DEF Switch!Reader
<1>5. ASSUME NEW g \in Switch!Gens, Switch!Arrive(g) \/ Switch!LinkCloses(g) PROVE AnswersIInv'
  BY <1>2, <1>5, ArriveAnswers DEF Switch!LinkCloses
<1>6. ASSUME NEW c \in Callers, Switch!Command(c) PROVE AnswersIInv'
  BY <1>6, AskAnswers, RegisterAnswers, SendAnswers, WaitAnswers DEF Switch!Command
<1>7. CASE UNCHANGED bridge_v
  BY <1>1, <1>7 DEF bridge_v
<1> QED BY <1>3, <1>4, <1>5, <1>6, <1>7 DEF Switch!Next

(* What the invariant says of answers.                                     *)
LEMMA AnswersSafe == AnswersIInv => Switch!AnswersMatch
<1> SUFFICES ASSUME AnswersIInv PROVE Switch!AnswersMatch
  OBVIOUS
<1>1. waiting \subseteq {call[c].cid : c \in {d \in Callers : call[d].at \in {"send", "wait"}}}
  BY DEF AnswersIInv, Waited
<1> QED BY <1>1 DEF AnswersIInv, Asked, Numbered, Switch!AnswersMatch

(* What is shown and commanded is the source connected last, and an answer *)
(* is of the device that was asked: for any sources, callers, connects,    *)
(* switches, commands and rows, in any order the threads take.             *)
THEOREM TheLastIsShown == MCSpec => []ShownIsConnected
<1> DEFINE Inv == focus = "bridge" => ShownIInv /\ AnswersIInv
<1>1. MCInit => Inv
  BY ShownInit, AnswersInit, Zenon DEF MCInit
<1>2. Inv /\ [MCNext]_vars => Inv'
  <2>1. [MCNext]_vars => focus' = focus /\ (focus = "bridge" => [Switch!Next]_bridge_v)
    BY Zenon DEF MCNext, vars
  <2> QED BY <2>1, ShownNext, AnswersNext, Zenon
<1>3. Inv => ShownIsConnected
  BY ShownSafe, AnswersSafe, Zenon DEF ShownIsConnected
<1> QED BY <1>1, <1>2, <1>3, PTL DEF MCSpec
=============================================================================
