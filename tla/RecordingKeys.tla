--------------------------- MODULE RecordingKeys ---------------------------
(* The admin's recording keys: the keyring file of mcap/crypto.py, the two   *)
(* programs that write it (the visio-display key console and the             *)
(* settings-QR generator) and the sealed changes they send or print.         *)
(*                                                                           *)
(* A key is its fingerprint. The ring is a file replaced by rename, so a     *)
(* power loss may leave what was there before the rename reached the         *)
(* directory (disk.other), and a file whose data was never flushed may come  *)
(* back unreadable. Both programs write the same temporary file. A key file  *)
(* is not flushed at all, so a power loss may take it until it survived one  *)
(* (disk.fresh).                                                             *)
EXTENDS Naturals, FiniteSets

CONSTANTS Rigs,        \* serials
          Keys,        \* keys the two programs may mint
          Foreign,     \* a key set from another machine
          Env,         \* the keys $VISIO_RECORDING_KEY and _FILE name, or None
          None,
          MaxLosses,   \* bound: crashes, power losses and directory syncs refused
          MaxSealed    \* bound: changes sent or printed

VARIABLES disk,        \* [ring, other, tmp, files, fresh]
          lock,        \* who holds recording-keys.json.lock
          prog,        \* what each program is doing
          sealed,      \* changes sent on a bus or printed
          rig,         \* the key each rig holds
          shown,       \* the fingerprint the page last read from each rig
          made,        \* keys some footage was recorded under
          durable,     \* keys a remember_key that returned wrote, the directory synced
          stored,      \* those, and the others it wrote since the power last went
          exposed,     \* history: keys without a durable copy when the power went
          losses

returns == <<stored, durable, exposed>>
vars == <<disk, lock, prog, sealed, rig, shown, made, returns, losses>>

Programs == {"console", "qr"}
Absent == [keys |-> {}, ok |-> TRUE, synced |-> TRUE]
\* devs: the rigs it names, all of them when it names none
Change(op, new, old, devs) == [op |-> op, new |-> new, old |-> old, devs |-> devs]
Nothing == Change("nothing", None, None, {})
Busy(at, change, key) == [at |-> at, change |-> change, key |-> key, entries |-> {}]
Idle == Busy("idle", Nothing, None)
Minted == Keys \ ({prog[p].key : p \in Programs} \cup stored \cup exposed \cup disk.files \cup disk.ring.keys)

-----------------------------------------------------------------------------
(* Reading.                                                                  *)

FindKey(fp) == IF ~disk.ring.ok THEN "damaged" ELSE IF fp \in disk.ring.keys THEN fp ELSE None

\* _keys_from_environment then the first candidate the header's fingerprint matches
ResolveKey(fp, given) ==
    IF given # None THEN (IF given = fp THEN given ELSE "mismatch")
    ELSE IF FindKey(fp) = "damaged" THEN "damaged"
    ELSE IF fp \in Env \cup {FindKey(fp)} THEN fp ELSE "unavailable"

-----------------------------------------------------------------------------
(* A change of key.                                                          *)

\* validate_recording_key_change, shared by both programs
WellFormed(c, first_provision) == c.old # None \/ (c.op # "clear" /\ first_provision)

\* A typed key, else the remembered one the page's fingerprint names
ProofOfOwnership(d) ==
    {Foreign} \cup IF shown[d] = None THEN {None} ELSE {FindKey(shown[d])} \ {None, "damaged"}

ReadState(d) ==
    /\ shown' = [shown EXCEPT ![d] = rig[d]]
    /\ UNCHANGED <<disk, lock, prog, sealed, rig, made, returns, losses>>

Goes(p, at) == prog' = [prog EXCEPT ![p].at = at]

\* /api/config/recording-key: current_serial() may not know the rig
SealKeyChange(d) ==
    /\ prog["console"].at = "idle" /\ Cardinality(sealed) < MaxSealed
    /\ \E op \in {"set", "rotate", "clear"}, devs \in {{d}, Rigs}, new \in Minted \cup {None} :
         \E old \in IF op = "set" THEN {None} ELSE ProofOfOwnership(d) :
           /\ (op = "clear") <=> (new = None)
           /\ WellFormed(Change(op, new, old, devs), op = "set")
           /\ prog' = [prog EXCEPT !["console"] =
                         Busy(IF op = "clear" THEN "send" ELSE "lock",
                              Change(op, new, old, devs), new)]
    /\ UNCHANGED <<disk, lock, sealed, rig, shown, made, returns, losses>>

\* /api/mcap with a key that opens the recording: remembered, nothing is sent
AdoptKeyFor(key) ==
    /\ prog["console"].at = "idle" /\ key \in made
    /\ prog' = [prog EXCEPT !["console"] = Busy("lock", Nothing, key)]
    /\ UNCHANGED <<disk, lock, sealed, rig, shown, made, returns, losses>>

\* _write_minted_key: the key file, never over an existing one, then the ring
WriteMintedKey ==
    /\ prog["qr"].at = "idle"
    /\ \E key \in Minted :
         /\ disk' = [disk EXCEPT !.files = @ \cup {key}, !.fresh = @ \cup {key}]
         /\ prog' = [prog EXCEPT !["qr"] = Busy("lock", Nothing, key)]
    /\ UNCHANGED <<lock, sealed, rig, shown, made, returns, losses>>

\* `qr --recording-key-file`: any key file still on disk, with the proof the
\* operator has, printed for the rigs it names
PrintCode ==
    /\ prog["qr"].at = "idle" /\ Cardinality(sealed) < MaxSealed
    /\ \E key \in disk.files, old \in disk.files \cup disk.ring.keys \cup {None}, devs \in {{d} : d \in Rigs} \cup {Rigs} :
         LET c == Change(IF old = None THEN "set" ELSE "rotate", key, old, devs)
         IN WellFormed(c, old = None) /\ sealed' = sealed \cup {c}
    /\ UNCHANGED <<disk, lock, prog, rig, shown, made, returns, losses>>

-----------------------------------------------------------------------------
(* remember_key, step by step.                                               *)

\* Mutant: no lock
Unlocked(p) == TRUE

Locked(p) == lock = None
Enter(p) ==
    /\ prog[p].at = "lock" /\ Locked(p)
    /\ IF ~disk.ring.ok
       THEN prog' = [prog EXCEPT ![p] = Idle] /\ UNCHANGED <<lock, returns>>
       ELSE IF prog[p].key \in disk.ring.keys
       THEN Goes(p, "send") /\ UNCHANGED <<lock, returns>>
       ELSE /\ lock' = p
            /\ prog' = [prog EXCEPT ![p] = [at |-> "write", change |-> @.change, key |-> @.key,
                                            entries |-> disk.ring.keys]]
            /\ UNCHANGED returns
    /\ UNCHANGED <<disk, sealed, rig, shown, made, losses>>

Fsynced == TRUE
Write(p) ==
    /\ prog[p].at = "write"
    /\ disk' = [disk EXCEPT !.tmp = [keys |-> prog[p].entries \cup {prog[p].key}, ok |-> TRUE, synced |-> Fsynced]]
    /\ Goes(p, "replace")
    /\ UNCHANGED <<lock, sealed, rig, shown, made, returns, losses>>

\* The write fails: the temporary file is unlinked and the error reaches the caller
WriteFails(p) ==
    /\ prog[p].at = "write"
    /\ disk' = [disk EXCEPT !.tmp = Absent]
    /\ prog' = [prog EXCEPT ![p] = Idle] /\ lock' = None
    /\ UNCHANGED <<sealed, rig, shown, made, returns, losses>>

Replace(p) ==
    /\ prog[p].at = "replace"
    /\ disk' = [disk EXCEPT !.ring = disk.tmp, !.tmp = Absent,
                            !.other = @ \cup {disk.ring} \cup IF disk.tmp.synced THEN {} ELSE {[Absent EXCEPT !.ok = FALSE]}]
    /\ Goes(p, "sync")
    /\ UNCHANGED <<lock, sealed, rig, shown, made, returns, losses>>

\* _fsync_dir settles this rename and those before it, or the filesystem refuses,
\* which nobody hears of; the lock is released and remember_key returns
FsyncDir(p) ==
    /\ prog[p].at = "sync"
    /\ \/ /\ disk' = [disk EXCEPT !.other = IF disk.ring.synced THEN {} ELSE {r \in @ : ~r.ok}]
          /\ durable' = durable \cup {prog[p].key} /\ UNCHANGED losses
       \/ losses < MaxLosses /\ losses' = losses + 1 /\ UNCHANGED <<disk, durable>>
    /\ stored' = stored \cup {prog[p].key} /\ lock' = None
    /\ Goes(p, "send")
    /\ UNCHANGED <<sealed, rig, shown, made, exposed>>

\* What follows the remembering: the console sends the change it sealed
Send(p) ==
    /\ prog[p].at = "send"
    /\ sealed' = IF prog[p].change = Nothing THEN sealed ELSE sealed \cup {prog[p].change}
    /\ prog' = [prog EXCEPT ![p] = Idle]
    /\ UNCHANGED <<disk, lock, rig, shown, made, returns, losses>>

RememberKey(p) == Enter(p) \/ Write(p) \/ WriteFails(p) \/ Replace(p) \/ FsyncDir(p) \/ Send(p)

-----------------------------------------------------------------------------
(* The rigs (external) and the failures.                                     *)

\* A blob applies on a rig it names, with proof of the key the rig holds, and the
\* rig records under it; it may be late, repeated or never arrive
Apply(d) ==
    /\ \E c \in sealed :
         /\ d \in c.devs /\ rig[d] \in {None, c.old}
         /\ rig' = [rig EXCEPT ![d] = c.new] /\ made' = made \cup ({c.new} \ {None})
    /\ UNCHANGED <<disk, lock, prog, sealed, shown, returns, losses>>

Crash(p) ==
    /\ losses < MaxLosses /\ prog[p].at # "idle"
    /\ prog' = [prog EXCEPT ![p] = Idle]
    /\ lock' = IF lock = p THEN None ELSE lock
    /\ losses' = losses + 1
    /\ UNCHANGED <<disk, sealed, rig, shown, made, returns>>

\* Both programs die, and what reached no disk may be gone: renames not yet
\* settled, key files not yet written back
PowerLoss ==
    /\ losses < MaxLosses
    /\ \E r \in {disk.ring} \cup disk.other, gone \in SUBSET disk.fresh :
         disk' = [disk EXCEPT !.ring = r, !.other = {}, !.tmp = Absent,
                              !.files = @ \ gone, !.fresh = {}]
    /\ exposed' = exposed \cup ((stored \cup disk.fresh) \ (durable \cup (disk.files \ disk.fresh)))
    /\ prog' = [p \in Programs |-> Idle] /\ lock' = None
    /\ losses' = losses + 1
    /\ stored' = durable
    /\ UNCHANGED <<sealed, rig, shown, made, durable>>

Init ==
    /\ disk = [ring |-> Absent, other |-> {}, tmp |-> Absent, files |-> {}, fresh |-> {}]
    /\ lock = None /\ prog = [p \in Programs |-> Idle] /\ sealed = {}
    /\ rig \in [Rigs -> {None, Foreign}]
    /\ shown = [d \in Rigs |-> None] /\ made = {Foreign} /\ stored = {} /\ durable = {}
    /\ exposed = {} /\ losses = 0

Next ==
    \/ \E d \in Rigs : ReadState(d) \/ SealKeyChange(d) \/ Apply(d)
    \/ \E key \in Keys \cup {Foreign} : AdoptKeyFor(key)
    \/ WriteMintedKey \/ PrintCode
    \/ \E p \in Programs : RememberKey(p) \/ Crash(p)
    \/ PowerLoss

-----------------------------------------------------------------------------
(* Every key footage was recorded under that this computer minted can be     *)
(* resolved from the ring, or is in a key file, and every key remember_key   *)
(* wrote before it returned stays in the ring: whatever is sent, printed,    *)
(* repeated or crashed in between, and though the two programs write the     *)
(* ring at the same time. Once the directory was synced no power loss takes  *)
(* the key either; before, one may: the sync is best effort (_fsync_dir), a  *)
(* key file is not synced at all (_write_key_file), and of a key that        *)
(* remember_key found in the ring it promises nothing. So a power loss ends  *)
(* the promise for the keys that had no durable copy then, and for no other. *)
OwnerHolds ==
    /\ \A key \in made \ ({Foreign} \cup exposed) :
         key \in disk.files \/ ResolveKey(key, None) = key
    /\ \A key \in stored : ResolveKey(key, None) = key
=============================================================================
