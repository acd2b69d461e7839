-------------------------------- MODULE Vrec --------------------------------
(* Reading a recording encrypted at rest (mcap/crypto.py) as if it were      *)
(* plain, and the plaintext copy visio-decrypt leaves (mcap/decrypt.py).     *)
(*                                                                           *)
(* A file is [magic, head, fmt, cipher, fp, data, valid]: the header bytes   *)
(* it has, the key its header names, the bytes after the header and the      *)
(* length the writer last recorded as valid, 0 for none. Plaintext byte p of *)
(* it is p itself, and ciphertext byte p is <<p, p>>, p under keystream p:   *)
(* decrypting it with any other keystream byte gives Noise.                  *)
EXTENDS Integers, Sequences

CONSTANTS Block,      \* the cipher's block, 64 bytes
          HeaderBytes,
          Suite,      \* the magic of the container looked for
          None        \* no key

Noise == -1
SmallerOf(a, b) == IF a < b THEN a ELSE b

-----------------------------------------------------------------------------
(* Opening.                                                                  *)

IsVrec(file) == file.head >= 4 /\ file.magic = Suite
HeaderRefused(file) == file.head < HeaderBytes \/ file.fmt # 1 \/ file.cipher # 1

\* _resolve_key: an explicit key must be the recording's; the environment's are
\* offered in turn
KeyFor(file, key, env) ==
    IF key # None THEN IF key = file.fp THEN key ELSE "mismatch"
    ELSE IF \E i \in DOMAIN env : env[i] = file.fp THEN file.fp ELSE "unavailable"

Size(file) == IF file.valid # 0 THEN SmallerOf(file.data, file.valid) ELSE file.data

\* open_recording: what the caller gets, with its position
Open(file, key, env) ==
    IF ~IsVrec(file) THEN [at |-> "plain", pos |-> 0, size |-> file.head + file.data]
    ELSE IF HeaderRefused(file) THEN [at |-> "refused", pos |-> 0, size |-> 0]
    ELSE LET k == KeyFor(file, key, env)
         IN [at |-> IF k = file.fp THEN "decrypting" ELSE k, pos |-> 0, size |-> Size(file)]

-----------------------------------------------------------------------------
(* The seekable view, at plaintext offsets throughout.                       *)

Seek(view, offset, whence) ==
    LET new == offset + (CASE whence = "set" -> 0 [] whence = "cur" -> view.pos [] whence = "end" -> view.size)
    IN IF new < 0 THEN view ELSE [view EXCEPT !.pos = new]

\* Mutant: the keystream starts at the block, not at the byte
KeystreamOfBlock(at) == (at \div Block) * Block

\* _xor_at: the keystream is started at a block, its head thrown away
KeystreamAt(at) == LET block == at \div Block
                       within == at % Block
                   IN block * Block + within
XorAt(at, bytes) ==
    [i \in DOMAIN bytes |-> IF bytes[i][2] = KeystreamAt(at) + i - 1 THEN bytes[i][1] ELSE Noise]

ReadInto(view, want) ==
    LET n == IF view.pos >= view.size THEN 0 ELSE SmallerOf(want, view.size - view.pos)
        raw == [i \in 1..n |-> LET p == view.pos + i - 1 IN IF view.at = "plain" THEN p ELSE <<p, p>>]
    IN [view |-> [view EXCEPT !.pos = @ + n],
        got |-> IF view.at = "plain" THEN raw ELSE XorAt(view.pos, raw)]

-----------------------------------------------------------------------------
(* visio-decrypt: the exit code, and what is at the output path.             *)

\* The copy in chunks; fails is the chunk whose read or write raises OSError, 0
\* for none. Absent is no file.
Absent == <<Noise>>
CopyChunk(was, k, chunk, fails) ==
    LET r == ReadInto(was.view, chunk)
    IN IF was.done \/ was.raised THEN was
       ELSE IF k = fails THEN [was EXCEPT !.raised = TRUE]
       ELSE IF r.got = <<>> THEN [was EXCEPT !.done = TRUE]
       ELSE [was EXCEPT !.view = r.view, !.out = @ \o r.got]
Copied(view, chunk, fails) ==
    LET f[k \in 0..(view.size + 1)] ==
          IF k = 0 THEN [view |-> view, out |-> <<>>, done |-> FALSE, raised |-> FALSE]
          ELSE CopyChunk(f[k - 1], k, chunk, fails)
    IN f[view.size + 1]

AfterError(out) == Absent       \* dst.unlink
Decrypt(file, key, env, exists, chunk, fails) ==
    LET view == Open(file, key, env)
    IN IF exists THEN [rc |-> 2, dst |-> <<"theirs">>]
       ELSE IF view.at = "refused" THEN [rc |-> 1, dst |-> Absent]
       ELSE IF view.at \in {"mismatch", "unavailable"} THEN [rc |-> 1, dst |-> AfterError(<<>>)]
       ELSE LET c == Copied(view, chunk, fails)
            IN IF c.raised THEN [rc |-> 1, dst |-> AfterError(c.out)] ELSE [rc |-> 0, dst |-> c.out]

-----------------------------------------------------------------------------
Plaintext(view, from, n) ==
    [i \in 1..(IF from >= view.size THEN 0 ELSE SmallerOf(n, view.size - from)) |-> from + i - 1]

\* One seek and one read of a reader that has read the plaintext so far
ReadAfter(was, view, move) ==
    LET sought == Seek(was.view, move.offset, move.whence)
        r == ReadInto(sought, move.want)
    IN [view |-> r.view,
        good |-> was.good /\ r.got = Plaintext(view, sought.pos, move.want)]

(* Wherever a reader seeks to, relative to anything, and however much it asks*)
(* for, it gets the plaintext bytes at that offset and never one past the cut*)
(* or past what the writer recorded as valid; only the right key reads.      *)
ReadsArePlaintext(file, key, env, moves) ==
    LET view == Open(file, key, env)
        f[k \in 0..Len(moves)] ==
          IF k = 0 THEN [view |-> view, good |-> TRUE] ELSE ReadAfter(f[k - 1], view, moves[k])
    IN view.at \in {"plain", "decrypting"} =>
         /\ f[Len(moves)].good
         /\ view.at = "decrypting" => /\ key \in {None, file.fp}
                                      /\ \A i \in 1..view.size : i <= file.data /\ (file.valid # 0 => i <= file.valid)

(* visio-decrypt leaves a whole plaintext copy and exits 0, or leaves nothing*)
(* of its own; a file already there it never touches.                        *)
CopyIsWholeOrAbsent(file, key, env, exists, chunk, fails) ==
    LET d == Decrypt(file, key, env, exists, chunk, fails)
        view == Open(file, key, env)
    IN /\ exists => d = [rc |-> 2, dst |-> <<"theirs">>]
       /\ ~exists => IF d.rc = 0 THEN d.dst = Plaintext(view, 0, view.size) ELSE d.dst = Absent
=============================================================================
