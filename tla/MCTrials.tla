------------------------------ MODULE MCTrials ------------------------------
(***************************************************************************)
(* Trials of the host's pure code that is free of RECURSIVE operators: the *)
(* settings code, and encrypted recordings.  A trial is an initial state,  *)
(* and what is said of its result is an invariant.  MCReader explores the  *)
(* trials listed here beside its own; ServiceProofs shows the invariants   *)
(* of every input.                                                         *)
(***************************************************************************)
EXTENDS Integers, Sequences, FiniteSets

CONSTANT Block     \* the cipher's block
ASSUME BlockAssumption == Block \in Nat \ {0}

VARIABLES tried,   \* the component on trial
          trial,   \* its input
          got      \* the result has been read

Qr == INSTANCE SettingsQr
Crypt == INSTANCE Vrec WITH HeaderBytes <- 6, Suite <- "VREC", None <- "none"

-----------------------------------------------------------------------------
(* A settings file with every kind of value in it, the flags of the        *)
(* command, the answers to its prompts and the bodies a device may open.   *)
HostKinds == {"oss", "oss, region unread", "cos", "s3", "gcs", "azure", "private",
          "ingest", "ingest, no host", "not http"}
Store(host, region, secret, prefix, hint) ==
  [host |-> host, slash |-> prefix # 10,
   text |-> [f \in Qr!StorageTexts |->
      CASE f = "endpoint_url" -> 40 [] f = "region" -> region [] f = "secret_access_key" -> secret
        [] f = "prefix" -> prefix [] f = "destination_hint" -> hint
        [] f = "bucket" -> IF host \in {"ingest", "ingest, no host"} THEN Qr!Absent ELSE 20
        [] OTHER -> 20]]
Settings(keys, store, meta, pass) ==
  [Qr!Blank EXCEPT !.keys = keys, !.storage = store,
     !.meta = [f \in Qr!MetaFields |-> IF f = "task" THEN meta ELSE Qr!Absent],
     !.wifi = [ssid |-> 12, passphrase |-> pass]]
Plain == Store("s3", 9, 43, 10, Qr!Absent)
SettingsGiven ==
  {Settings({"storage"}, Store(h, r, s, p, d), 5, 9) :
     h \in HostKinds, r \in {Qr!Absent, 9, 32}, s \in {Qr!Absent, 0, 43, 63, 64, Qr!Number, Qr!Wrong},
     p \in {Qr!Absent, 0, 10, 127}, d \in {Qr!Absent, 5}}
  \cup {Settings(k, Store("s3", 9, s, 10, Qr!Absent), m, w) :
     k \in {{"meta"}, {"wifi"}, {"meta", "storage", "wifi"}, {"storage", "sealed"}, {}, {"extra", "meta"}},
     s \in {Qr!Absent, 43}, m \in {Qr!Absent, 0, 255, 256, Qr!Number}, w \in {Qr!Absent, 0, 7, 8, 63, Qr!Wrong}}
Flags ==
  {[Qr!NoFlags EXCEPT !.plaintext = p] : p \in BOOLEAN}
  \cup [rk : {"absent", "new", "clear"}, rko : {"absent", "old"}, dev : {0, 13}, exp : {FALSE},
        plaintext : {FALSE}, first_provision : BOOLEAN]
AllFlags ==
  [rk : {"absent", "new", "clear"}, rko : {"absent", "old"}, dev : {0, 1, 13, 20}, exp : BOOLEAN,
   plaintext : BOOLEAN, first_provision : BOOLEAN]
CodeTrials ==
  [cfg : SettingsGiven, args : Flags]
  \cup [cfg : {Settings({"storage"}, Plain, 5, 9), Settings({"meta"}, Plain, 5, 9)}, args : AllFlags]
Answers ==
  {a \in [sections : {{}, {"meta"}, {"storage"}, {"wifi"}, {"meta", "storage", "wifi"}},
          choice : {"Aliyun OSS", "Tencent COS", "AWS S3", "Google Cloud Storage", "Azure Blob", "custom"},
          host : {"private", "s3", "gcs", "azure", "oss, region unread"}, region : {0, 9},
          typed : {1, 31}, secret : {0, 8, 40}, set_key : BOOLEAN, held : BOOLEAN, stop : BOOLEAN] :
     /\ a.sections # {} \/ a.set_key
     /\ a.choice # "custom" => a.host = "private"
     /\ a.choice = "custom" /\ Qr!RegionMustBeTyped(a.host) /\ a.host # "gcs" => a.region > 0
     /\ ~a.set_key => ~a.held /\ ~a.stop}
SealedBodies ==
  [sk : {Qr!Absent, 0, 40, Qr!Wrong}, rk : {"absent", "empty", "canonical", "falsy", "short", "not canonical"},
   key : {"new"}, rko : {"absent", "old"}, dev : {0, 2}, exp : BOOLEAN, unknown : BOOLEAN]

(* A printed code carries each secret it was given once, in the one place  *)
(* that may hold it, and its proof and guards (cmd_qr); the answers to the *)
(* prompts make a code (interactive.py); and a sealed body that is         *)
(* malformed stops nothing (SealedSecrets.from_body).                      *)
CodesCarrySecrets ==
  got = 1 =>
    /\ tried = "code" => Qr!CodeCarriesSecrets(trial.cfg, trial.args)
    /\ tried = "prompts" => Qr!PromptsMakeACode(trial)
    /\ tried = "body" => Qr!BodyReadStrictly(trial)

-----------------------------------------------------------------------------
(* An encrypted recording, cut anywhere, read in pieces or copied.         *)
Containers ==
  [magic : {"VREC", "other"}, head : {3, 5, 6}, fmt : {1, 2}, cipher : {1}, fp : {"k"},
   data : {0, 3, 5}, valid : {0, 4, 9}]
Moves == [offset : {-2, 0, 1, 3, 7}, whence : {"set", "cur", "end"}, want : {1, 2, 9}]
Whole == [magic |-> "VREC", head |-> 6, fmt |-> 1, cipher |-> 1, fp |-> "k", data |-> 5, valid |-> 0]
CryptTrials ==
  [file : Containers, key : {"none", "k", "x"}, env : {<<>>, <<"x">>, <<"x", "k">>},
   moves : {<<>>}, exists : BOOLEAN, chunk : {1, 2, 9}, fails : {0, 1, 2}]
  \cup [file : {Whole, [Whole EXCEPT !.valid = 4]}, key : {"k"}, env : {<<>>},
        moves : Moves \X Moves, exists : {TRUE}, chunk : {1}, fails : {0}]

(* open_recording reads an encrypted recording as the plaintext it was,    *)
(* from any position; visio-decrypt leaves a whole copy of it or none.     *)
RecordingsReadBack ==
  got = 1 /\ tried = "crypt" =>
    /\ Crypt!ReadsArePlaintext(trial.file, trial.key, trial.env, trial.moves)
    /\ Crypt!CopyIsWholeOrAbsent(trial.file, trial.key, trial.env, trial.exists, trial.chunk, trial.fails)
=============================================================================
