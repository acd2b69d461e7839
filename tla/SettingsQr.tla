---------------------------- MODULE SettingsQr ----------------------------
(* The settings QR, settings_qr/ and crypto/envelope.py: from a config (or   *)
(* the answers to the prompts) and the command's flags to the code that is   *)
(* printed, and back from its sealed half to the secrets.                    *)
(*                                                                           *)
(* A text is its length in bytes, or what it is instead of a text. A config  *)
(* is a record with every section; `keys` says which are there. A problem is *)
(* the path of the field it is about. Cryptography is symbolic: an envelope  *)
(* opens with the private half of the key it was sealed to, untouched.       *)
EXTENDS Integers, FiniteSets

Absent == -1
Wrong == -2      \* another JSON type
Number == -3     \* a bare whole number

MetaFields == {"task", "location", "message", "capturer"}
BucketFields == {"endpoint_url", "region", "bucket", "access_key_id", "prefix"}
IngestFields == {"endpoint_url", "access_key_id", "destination_hint"}
StorageTexts == BucketFields \cup IngestFields \cup {"secret_access_key"}
WifiFields == {"ssid", "passphrase"}

\* DEVICE_MAX_SIZE less the NUL
UsableBytes ==
    [task |-> 255, location |-> 511, message |-> 1023, capturer |-> 255, endpoint_url |-> 127, region |-> 31,
     bucket |-> 63, access_key_id |-> 63, secret_access_key |-> 63, prefix |-> 127, destination_hint |-> 63,
     ssid |-> 32, passphrase |-> 63]
MaxBytes == 1800
SealedMaxBytes == 384
DefaultPrefix == 11      \* "recordings/"

-----------------------------------------------------------------------------
(* The clouds. A host is one of each kind the patterns tell apart.           *)

ProviderOf(host) ==
    CASE host \in {"oss", "oss, region unread"} -> "Aliyun OSS"
      [] host = "cos" -> "Tencent COS"
      [] host = "gcs" -> "Google Cloud Storage"
      [] host = "azure" -> "Azure Blob"
      [] host = "not http" -> "none"
      [] OTHER -> "AWS S3"
RegionFromEndpoint(host) == host \in {"oss", "cos", "s3", "s3, global"}
SignsRegion(provider) == provider # "Azure Blob"
RegionMustBeTyped(host) == ~RegionFromEndpoint(host) /\ SignsRegion(ProviderOf(host))
\* endpoint_for: the host a row's template makes of the operator's answer
EndpointFor(provider) ==
    CASE provider = "Aliyun OSS" -> "oss" [] provider = "Tencent COS" -> "cos" [] provider = "AWS S3" -> "s3"
      [] provider = "Google Cloud Storage" -> "gcs" [] provider = "Azure Blob" -> "azure"

-----------------------------------------------------------------------------
(* validate().                                                               *)

Is(text) == text > 0
StringBad(text, required, max) == text \in {Wrong, Number} \/ (required /\ ~Is(text)) \/ text > max
TextsBad(texts, fields, required) ==
    {f \in fields : StringBad(texts[f], f \in required, UsableBytes[f])}

IsIngest(s) == Is(s.text.endpoint_url) /\ s.host \in {"ingest", "ingest, no host"}
Given(s) == {f \in StorageTexts : s.text[f] # Absent}

ValidateIngest(s, version) ==
    (Given(s) \ (IngestFields \cup IF version = 1 THEN {"secret_access_key"} ELSE {}))
    \cup TextsBad(s.text, IngestFields, {"endpoint_url", "access_key_id"})
    \cup (IF s.host = "ingest, no host" THEN {"endpoint_url"} ELSE {})
    \cup (IF version = 1 /\ s.text.secret_access_key \notin {Absent, 0, 43} THEN {"secret_access_key"} ELSE {})

ValidateBucket(s, version) ==
    LET fields == BucketFields \cup IF version = 1 THEN {"secret_access_key"} ELSE {}
    IN (Given(s) \ fields)
       \cup TextsBad(s.text, fields, {"endpoint_url", "bucket", "access_key_id"})
       \cup (IF Is(s.text.endpoint_url) /\ s.host = "not http" THEN {"endpoint_url"} ELSE {})
       \cup (IF ~Is(s.text.region) /\ Is(s.text.endpoint_url) /\ RegionMustBeTyped(s.host) THEN {"region"} ELSE {})

ValidateStorage(s, version) == IF IsIngest(s) THEN ValidateIngest(s, version) ELSE ValidateBucket(s, version)

ValidateWifi(texts) ==
    TextsBad(texts, WifiFields, {"ssid"}) \cup IF texts.passphrase \in 1..7 THEN {"passphrase"} ELSE {}

Base64Length(n) == (n * 4 + 2) \div 3
ValidateSealed(sealed) ==
    (IF Base64Length(sealed.bytes) > (SealedMaxBytes * 4 + 2) \div 3 THEN {"b"} ELSE {})
    \cup IF sealed.has = {} THEN {"has"} ELSE {}

CommonKeys == {"meta", "storage", "auto_upload", "bitrate_kbps", "resolution", "wifi"}
KnownKeys(version) == CommonKeys \cup IF version = 2 THEN {"sealed"} ELSE {}
InRange(n, lo, hi) == n # Wrong /\ n >= lo /\ n <= hi

\* A section's problems
SectionBad(cfg, k) ==
    CASE k = "meta" -> TextsBad(cfg.meta, MetaFields, {})
      [] k = "storage" -> ValidateStorage(cfg.storage, cfg.v)
      [] k = "bitrate_kbps" -> IF InRange(cfg.bitrate_kbps, 500, 50000) THEN {} ELSE {k}
      [] k = "resolution" -> IF InRange(cfg.resolution, 240, 4096) THEN {} ELSE {k}
      [] k = "wifi" -> ValidateWifi(cfg.wifi)
      [] k = "sealed" -> ValidateSealed(cfg.sealed)
      [] OTHER -> {}

Validate(cfg) ==
    (IF cfg.t # "visio-settings" THEN {"t"} ELSE {})
    \cup IF cfg.v \notin {1, 2} THEN {"v"}
         ELSE (cfg.keys \ KnownKeys(cfg.v))
              \cup (IF cfg.keys \cap KnownKeys(cfg.v) = {} THEN {"no sections"} ELSE {})
              \cup UNION {SectionBad(cfg, k) : k \in cfg.keys}

-----------------------------------------------------------------------------
(* Normalisation, before validate().                                         *)

AsText(texts) == [f \in DOMAIN texts |-> IF texts[f] = Number THEN 3 ELSE texts[f]]
StorageAsText(s) ==
    [host |-> IF s.text.endpoint_url = Number THEN "not http" ELSE s.host, slash |-> s.slash, text |-> AsText(s.text)]
NormalizeBareNumbers(cfg) ==
    [cfg EXCEPT !.meta = AsText(cfg.meta), !.wifi = AsText(cfg.wifi), !.storage = StorageAsText(cfg.storage)]

NormalizeStoragePrefix(cfg) ==
    LET s == cfg.storage
        prefix == IF s.text.prefix \in {Absent, 0} THEN DefaultPrefix
                  ELSE IF Is(s.text.prefix) /\ ~s.slash THEN s.text.prefix + 1 ELSE s.text.prefix
    IN IF IsIngest(s) THEN cfg
       ELSE [cfg EXCEPT !.storage = [host |-> s.host, slash |-> TRUE, text |-> [s.text EXCEPT !.prefix = prefix]]]

-----------------------------------------------------------------------------
(* The sealed half.                                                          *)

Touches(s) == s.rk # "absent"
Clears(s) == s.rk = "clear"
Has(s) == (IF s.sk # Absent THEN {"sk"} ELSE {}) \cup IF Touches(s) THEN {"rk"} ELSE {}

\* The body's fields as they are on the wire: `dev` counts the serials
ToBody(s) ==
    [sk |-> s.sk, rk |-> CASE Clears(s) -> "empty" [] Touches(s) -> "canonical" [] OTHER -> "absent",
     key |-> s.rk, rko |-> s.rko, dev |-> s.dev, exp |-> s.exp, unknown |-> FALSE]
IsEmpty(s) == s = [sk |-> Absent, rk |-> "absent", rko |-> "absent", dev |-> 0, exp |-> FALSE]

\* Each field with the comma after it; the last has none
BodyBytes(s) ==
    LET fields == (IF s.sk = Absent THEN 0 ELSE 8 + s.sk)
                  + (IF ~Touches(s) THEN 0 ELSE IF Clears(s) THEN 8 ELSE 51)
                  + (IF s.rko = "absent" THEN 0 ELSE 52)
                  + (IF s.dev = 0 THEN 0 ELSE 8 + 19 * s.dev)
                  + (IF s.exp THEN 17 ELSE 0)
    IN IF fields = 0 THEN 2 ELSE fields + 1

\* "VSL1" kid eph_pk ciphertext+tag; the kid is also bound into the tag
Seal(s, pub) == [kid |-> pub, sealed_to |-> pub, bound |-> pub, body |-> ToBody(s), bytes |-> 56 + BodyBytes(s), whole |-> TRUE]
Unseal(blob, priv) ==
    IF blob.bytes < 56 THEN "malformed"
    ELSE IF blob.kid # priv THEN "wrong fleet key"
    ELSE IF ~blob.whole \/ blob.sealed_to # priv \/ blob.bound # blob.kid THEN "tampered"
    ELSE "opened"

\* A recording key is canonical base64url, or the empty text, or not there; nothing
\* else is read as one of those
FromBody(b) ==
    IF b.unknown \/ b.sk = Wrong \/ b.rk \notin {"absent", "empty", "canonical"} THEN [ok |-> FALSE]
    ELSE [ok |-> TRUE,
          secrets |-> [sk |-> b.sk, rko |-> b.rko, dev |-> b.dev, exp |-> b.exp,
                       rk |-> CASE b.rk = "absent" -> "absent" [] b.rk = "empty" -> "clear" [] OTHER -> b.key]]

(* Mutant: stopping encryption needs no proof.                              *)
ChangeRefusedUnlessClear(s, first_provision) ==
    Touches(s) /\ ~Clears(s) /\ s.rko = "absent" /\ ~first_provision

ChangeRefused(s, first_provision) ==
    Touches(s) /\ s.rko = "absent" /\ (Clears(s) \/ ~first_provision)

SealInto(cfg, s, pub) ==
    LET blob == Seal(s, pub)
        out == [cfg EXCEPT !.t = "visio-settings", !.v = 2, !.storage.text.secret_access_key = Absent]
    IN IF IsEmpty(s) THEN out
       ELSE [out EXCEPT !.keys = @ \cup {"sealed"}, !.sealed = [kid |-> blob.kid, has |-> Has(s), b |-> blob, bytes |-> blob.bytes]]

-----------------------------------------------------------------------------
(* The command.                                                              *)

\* _collect_secrets: an empty storage secret is no secret
CollectSecrets(cfg, args) ==
    [sk |-> IF "storage" \notin cfg.keys \/ cfg.storage.text.secret_access_key = 0 THEN Absent
            ELSE cfg.storage.text.secret_access_key,
     rk |-> args.rk, rko |-> args.rko, dev |-> args.dev, exp |-> args.exp]

PlaintextRefused(s) == Touches(s) \/ s.dev > 0 \/ s.exp

\* Bytes of text the code carries: a lower bound of the encoded size
Encoded(cfg) ==
    LET bytes(text) == IF Is(text) THEN text ELSE 0
        m == cfg.meta
        s == cfg.storage.text
    IN (IF "meta" \in cfg.keys THEN bytes(m.task) + bytes(m.location) + bytes(m.message) + bytes(m.capturer) ELSE 0)
       + (IF "storage" \in cfg.keys
          THEN bytes(s.endpoint_url) + bytes(s.region) + bytes(s.bucket) + bytes(s.access_key_id) + bytes(s.prefix)
               + bytes(s.destination_hint) + bytes(s.secret_access_key)
          ELSE 0)
       + (IF "wifi" \in cfg.keys THEN bytes(cfg.wifi.ssid) + bytes(cfg.wifi.passphrase) ELSE 0)
       + IF "sealed" \in cfg.keys THEN Base64Length(cfg.sealed.bytes) ELSE 0

Refused(why) == [printed |-> FALSE, why |-> why]
CmdQr(given, args) ==
    LET cfg == NormalizeStoragePrefix(NormalizeBareNumbers(given))
        s == CollectSecrets(cfg, args)
        payload == IF args.plaintext THEN [cfg EXCEPT !.v = 1] ELSE SealInto(cfg, s, "fleet")
    IN IF s.sk = Wrong THEN Refused("secret")
       ELSE IF args.plaintext /\ PlaintextRefused(s) THEN Refused("plaintext")
       ELSE IF ~args.plaintext /\ ChangeRefused(s, args.first_provision) THEN Refused("proof")
       ELSE IF ~args.plaintext /\ "sealed" \in cfg.keys THEN Refused("sealed already")
       ELSE IF ~args.plaintext /\ ~IsEmpty(s) /\ 56 + BodyBytes(s) > SealedMaxBytes THEN Refused("too large")
       ELSE IF Validate(payload) # {} THEN Refused("invalid")
       ELSE IF Encoded(payload) > MaxBytes THEN Refused("too dense")
       ELSE [printed |-> TRUE, payload |-> payload]

\* What cmd_inspect prints of a code unless told to reveal: the two cleartext secrets masked
Mask(cfg) == [cfg EXCEPT !.storage.text.secret_access_key = Absent, !.wifi.passphrase = Absent]

-----------------------------------------------------------------------------
(* The prompts. An answer is the length typed, 0 for Enter.                  *)

NoStorage == [host |-> "private", slash |-> TRUE, text |-> [f \in StorageTexts |-> Absent]]
Blank == [t |-> "visio-settings", v |-> 1, keys |-> {}, meta |-> [f \in MetaFields |-> Absent], storage |-> NoStorage,
          bitrate_kbps |-> 8000, resolution |-> 1080, wifi |-> [f \in WifiFields |-> Absent],
          sealed |-> [kid |-> "", has |-> {}, bytes |-> 0]]
Kept(n) == IF n = 0 THEN Absent ELSE n

\* a.choice names a row or "custom" with the host typed
Interactive(a) ==
    LET host == IF a.choice = "custom" THEN a.host ELSE EndpointFor(a.choice)
        region == IF ~RegionMustBeTyped(host) THEN (IF RegionFromEndpoint(host) THEN 9 ELSE 0)
                  ELSE IF a.region = 0 /\ host = "gcs" THEN 4 ELSE a.region
        text == [f \in StorageTexts |->
                   CASE f = "endpoint_url" -> 40 [] f = "region" -> Kept(region)
                     [] f = "prefix" -> DefaultPrefix [] f = "secret_access_key" -> Kept(a.secret)
                     [] f = "destination_hint" -> Absent [] OTHER -> Kept(a.typed)]
    IN [Blank EXCEPT !.keys = a.sections \cup IF "storage" \in a.sections THEN {"auto_upload"} ELSE {},
                     !.meta = [f \in MetaFields |-> Kept(a.typed)],
                     !.storage = [host |-> host, slash |-> TRUE, text |-> text],
                     !.wifi = [ssid |-> a.typed, passphrase |-> Kept(a.secret)]]

NoFlags == [rk |-> "absent", rko |-> "absent", dev |-> 0, exp |-> FALSE, plaintext |-> FALSE, first_provision |-> FALSE]
\* The recording-key questions: asked only when no key flag was given
InteractiveRecordingKey(args, a) ==
    IF args.rk # "absent" \/ args.rko # "absent" \/ args.first_provision \/ ~a.set_key THEN args
    ELSE LET proven == [args EXCEPT !.rko = IF a.held THEN "old" ELSE "absent", !.first_provision = ~a.held]
         IN IF a.held /\ a.stop THEN [proven EXCEPT !.rk = "clear"] ELSE [proven EXCEPT !.rk = "new"]

-----------------------------------------------------------------------------
(* A code that is printed carries each secret it was given exactly once and  *)
(* in one place: in a sealed code only inside the envelope, which the fleet  *)
(* key opens to those very secrets and guards and no other key or altered    *)
(* envelope does; in a plaintext one no key and no guard is dropped. A key   *)
(* change carries its proof, every text fits the device's buffer, and the    *)
(* dump of the code shows neither cleartext secret.                          *)
CodeCarriesSecrets(cfg, args) ==
    LET s == CollectSecrets(NormalizeBareNumbers(cfg), args)
        r == CmdQr(cfg, args)
        texts(p) == (IF "meta" \in p.keys THEN TextsBad(p.meta, MetaFields, {}) ELSE {})
                    \cup IF "storage" \in p.keys THEN TextsBad(p.storage.text, StorageTexts, {}) ELSE {}
    IN r.printed =>
         LET p == r.payload
             b == p.sealed.b
         IN /\ IF p.v = 1 THEN ~Touches(s) /\ s.dev = 0 /\ ~s.exp /\ "sealed" \notin p.keys
               ELSE /\ p.storage.text.secret_access_key = Absent
                    /\ IF "sealed" \notin p.keys THEN IsEmpty(s)
                       ELSE /\ Unseal(b, "fleet") = "opened" /\ FromBody(b.body) = [ok |-> TRUE, secrets |-> s]
                            /\ Unseal(b, "other") = "wrong fleet key"
                            /\ Unseal([b EXCEPT !.kid = "other"], "other") # "opened"
                            /\ Unseal([b EXCEPT !.whole = FALSE], "fleet") = "tampered"
                            /\ p.sealed.bytes <= SealedMaxBytes
            /\ Touches(s) => s.rko # "absent" \/ (args.first_provision /\ ~Clears(s))
            /\ texts(p) = {}
            /\ Mask(p).storage.text.secret_access_key = Absent /\ Mask(p).wifi.passphrase = Absent

(* The answers to the prompts, none left blank that is required and none too *)
(* long, make a code: the region is asked for exactly when validate() wants  *)
(* one. And an operator who asked to set or stop the key gets a code that    *)
(* does it.                                                                  *)
PromptsMakeACode(a) ==
    LET args == InteractiveRecordingKey(NoFlags, a)
        r == CmdQr(Interactive(a), args)
    IN /\ r.printed
       /\ a.set_key => "rk" \in r.payload.sealed.has

(* A malformed body is refused whole: nothing but the empty text stops       *)
(* encryption.                                                               *)
BodyReadStrictly(b) ==
    FromBody(b).ok => (FromBody(b).secrets.rk = "clear" => b.rk = "empty") /\ b.rk \notin {"falsy", "short", "not canonical"}

(* What a comment of cmd_qr claims: a valid code is never too dense.         *)
ValidCodesFit(cfg, args) == CmdQr(cfg, args) # Refused("too dense")
=============================================================================
