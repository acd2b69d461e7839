--------------------------- MODULE ServiceProofs ---------------------------
(***************************************************************************)
(* What is proved of the OTA relay, of the launcher's video and of its     *)
(* discovery, for every value of the constants of MCHost: as in            *)
(* HostProofs, of the component in focus.  And of the settings code and of *)
(* encrypted recordings, for every input of the trials of MCTrials.        *)
(***************************************************************************)
EXTENDS MCHost, MCTrials, FiniteSetTheorems, WellFoundedInduction, TLAPS

(* A sequence with one element more, by index.                             *)
LEMMA Appended ==
  ASSUME NEW S, NEW s \in Seq(S), NEW e \in S
  PROVE  /\ Append(s, e) \in Seq(S) /\ Len(Append(s, e)) = Len(s) + 1 /\ Len(s) \in Nat
         /\ Append(s, e)[Len(s) + 1] = e
         /\ \A i \in 1..Len(s) : Append(s, e)[i] = s[i]
         /\ \A i \in 1..(Len(s) + 1) : i \in 1..Len(s) \/ i = Len(s) + 1
OBVIOUS

(* A sequence without its first element, by index.                         *)
LEMMA Tailed ==
  ASSUME NEW S, NEW s \in Seq(S), s # <<>>
  PROVE  /\ Tail(s) \in Seq(S) /\ Len(s) \in Nat \ {0} /\ Len(Tail(s)) = Len(s) - 1
         /\ Head(s) = s[1] /\ s[1] \in S
         /\ \A i \in 1..Len(Tail(s)) : Tail(s)[i] = s[i + 1] /\ i + 1 \in 1..Len(s)
OBVIOUS

-----------------------------------------------------------------------------
(***************************************************************************)
(* The OTA relay (OtaRelay).  What a status of this session says is so,    *)
(* and stays so: a device's bytes only grow.  The statuses folded so far,  *)
(* and those in flight, then say no more than the device holds; a chunk in *)
(* flight, and so what the device comes to hold, lies within the window of *)
(* what is acked, and within the image.                                    *)
(***************************************************************************)
Phases == {"idle", "receiving", "staged"}
BeginTakes == {"runs it", "reverts", "refuses", "image"}
Told ==
  [state : {"IDLE", "RECEIVING", "NEEDS_RESUME", "STAGED", "SUCCESS", "FAILED"},
   session : {Ota!Mine, Ota!Foreign, Ota!Unset}, bytes : Nat, advert : Nat,
   code : {"", "no_session", "verify_failed"}]
OrderKinds == {"query", "begin", "chunk", "commit", "abort", "unquiet"}
Orders ==
  [kind : OrderKinds, offset : Nat, n : Nat]
Folds ==
  [acked : Nat, staged : BOOLEAN, succeeded : BOOLEAN, failed : BOOLEAN,
   resume_to : Nat \cup {Ota!None}]

Devices == [phase : Phases, got : Nat, takes : BeginTakes]

OtaTypes ==
  /\ dev \in Devices /\ {chunk, smallest, cursor} \subseteq Nat
  /\ quieted \in BOOLEAN /\ policy \in BOOLEAN /\ committed \in BOOLEAN
  /\ link \in BOOLEAN

(* The device holds the image, or has said it needs none.                  *)
ImageHeld(d) == d.got = Image \/ d.takes \in {"runs it", "reverts"}

Truthful(x, d) ==
  ~Ota!NotOurs(x) => x.bytes <= d.got /\ (x.state \in {"STAGED", "SUCCESS"} => ImageHeld(d))
Heard(q, d) == q \in Seq(Told) /\ \A i \in 1..Len(q) : Truthful(q[i], d)
Backed(s, d) ==
  /\ s \in Folds /\ s.acked <= d.got /\ s.resume_to <= d.got
  /\ Ota!Done(s) => ImageHeld(d)
InWindow(at, s) == at <= Image /\ at <= s.acked + UpdateWindow
Carried(q, s) == q \in Seq(Orders) /\ \A i \in 1..Len(q) : InWindow(q[i].offset + q[i].n, s)

(* What puts a quieted link back is on its way.                            *)
Restoring(q) == \E i \in DOMAIN q : q[i].kind = "unquiet"
(* The policy is gone with the link, or its end is on its way, or lost.    *)
PutBack(q) == quieted /\ policy => restore_lost \/ Restoring(q)

Claims == committed \/ pc = "confirm" \/ outcome.ok

OtaIInv ==
  /\ OtaTypes /\ Heard(up, dev) /\ Backed(st, dev) /\ Carried(down, st)
  /\ InWindow(dev.got, st) /\ InWindow(cursor, st)
  /\ Claims => ImageHeld(dev)
  /\ (pc = "done" => PutBack(down)) /\ (~link => ~policy)

(* The sizes of MCHost, as the proofs use them.                            *)
LEMMA OtaSizes == Image \in Nat /\ UpdateWindow \in Nat
BY HostAssumption

(* Nothing is sent, nothing heard.                                         *)
LEMMA OtaInit == Ota!Init => OtaIInv
<1> SUFFICES ASSUME Ota!Init PROVE OtaIInv
  OBVIOUS
<1>1. /\ st = [acked |-> 0, staged |-> FALSE, succeeded |-> FALSE, failed |-> FALSE, resume_to |-> -1]
      /\ chunk = Want /\ smallest = 0 /\ cursor = 0
      /\ down = <<>> /\ up = <<>> /\ policy = FALSE /\ quieted = FALSE /\ committed = FALSE
      /\ dev.got = 0 /\ dev \in [phase : {"idle"}, got : {0}, takes : BeginTakes]
      /\ pc \in {"quiesce", "query"}
  BY DEF Ota!Init, Ota!None, BeginTakes
<1>2. st \in Folds /\ st.acked = 0 /\ st.resume_to = -1 /\ st.staged = FALSE /\ st.succeeded = FALSE
  BY <1>1 DEF Folds, Ota!None
<1>3. Want \in Nat
  BY OtaAssumption
<1>4. {chunk, smallest, cursor} \subseteq Nat /\ dev \in Devices
  BY <1>1, <1>3 DEF Devices, Phases
<1>5. OtaTypes
  BY <1>1, <1>4, Zenon DEF OtaTypes, Ota!Init
<1>6. Heard(up, dev) /\ Carried(down, st)
  BY <1>1 DEF Heard, Carried
<1>7. ~Ota!Done(st)
  BY <1>2, Zenon DEF Ota!Done
<1>8. st.acked <= dev.got /\ st.resume_to <= dev.got
  BY <1>1, <1>2
<1>9. Backed(st, dev)
  BY <1>2, <1>7, <1>8, Zenon DEF Backed
<1>10. outcome.ok = FALSE
  BY Zenon DEF Ota!Init, Ota!Outcome
<1>11. ~Claims /\ PutBack(down) /\ link = TRUE
  BY <1>1, <1>10, Zenon DEF Claims, PutBack, Ota!Init
<1>12. InWindow(dev.got, st) /\ InWindow(cursor, st)
  BY <1>1, <1>2, OtaSizes DEF InWindow
<1> QED BY <1>5, <1>6, <1>9, <1>11, <1>12 DEF OtaIInv

(* A status folds into a state that the device still backs, and takes      *)
(* nothing that was acked away (fold).                                     *)
LEMMA FoldBacked ==
  ASSUME NEW d \in Devices, NEW s, Backed(s, d), NEW x \in Told, Truthful(x, d)
  PROVE  Backed(Ota!Fold(s, x), d) /\ Ota!Fold(s, x).acked >= s.acked
<1> DEFINE t == Ota!Fold(s, x)
<1>1. s \in Folds /\ x.bytes \in Nat /\ d.got \in Nat /\ s.acked \in Nat /\ s.resume_to \in Nat \cup {-1}
  BY DEF Devices, Backed, Told, Folds, Ota!None
<1>2. CASE t = s
  BY <1>1, <1>2
<1>3. CASE ~Ota!NotOurs(x) /\ t = [s EXCEPT !.staged = TRUE, !.acked = Ota!Most(@, x.bytes)] /\ x.state = "STAGED"
  <2>1. t \in Folds /\ t.resume_to = s.resume_to /\ t.acked = IF s.acked > x.bytes THEN s.acked ELSE x.bytes
    BY <1>1, <1>3 DEF Folds, Ota!Most, Ota!None
  <2>2. ImageHeld(d) /\ x.bytes <= d.got
    BY <1>3, Zenon DEF Truthful
  <2> QED BY <1>1, <2>1, <2>2 DEF Backed
<1>4. CASE ~Ota!NotOurs(x) /\ t = [s EXCEPT !.succeeded = TRUE] /\ x.state = "SUCCESS"
  <2>1. t \in Folds /\ t.resume_to = s.resume_to /\ t.acked = s.acked
    BY <1>1, <1>4 DEF Folds, Ota!None
  <2>2. ImageHeld(d)
    BY <1>4, Zenon DEF Truthful
  <2> QED BY <1>1, <2>1, <2>2 DEF Backed
<1>5. CASE ~Ota!NotOurs(x) /\ t = [s EXCEPT !.resume_to = x.bytes]
  <2>1. /\ t \in Folds /\ t.resume_to = x.bytes /\ t.acked = s.acked
        /\ t.staged = s.staged /\ t.succeeded = s.succeeded
    BY <1>1, <1>5 DEF Folds, Ota!None
  <2>2. Ota!Done(t) => ImageHeld(d)
    BY <2>1, Zenon DEF Backed, Ota!Done
  <2>3. x.bytes <= d.got
    BY <1>5, Zenon DEF Truthful
  <2> QED BY <1>1, <2>1, <2>2, <2>3 DEF Backed
<1>6. CASE t = [s EXCEPT !.failed = TRUE]
  <2>1. /\ t \in Folds /\ t.resume_to = s.resume_to /\ t.acked = s.acked
        /\ t.staged = s.staged /\ t.succeeded = s.succeeded
    BY <1>1, <1>6 DEF Folds, Ota!None
  <2>2. Ota!Done(t) => ImageHeld(d)
    BY <2>1, Zenon DEF Backed, Ota!Done
  <2> QED BY <1>1, <2>1, <2>2 DEF Backed
<1>7. CASE ~Ota!NotOurs(x) /\ t = [s EXCEPT !.acked = Ota!Most(@, x.bytes)]
  <2>1. /\ t \in Folds /\ t.resume_to = s.resume_to
        /\ t.acked = IF s.acked > x.bytes THEN s.acked ELSE x.bytes
        /\ t.staged = s.staged /\ t.succeeded = s.succeeded
    BY <1>1, <1>7 DEF Folds, Ota!Most, Ota!None
  <2>2. Ota!Done(t) => ImageHeld(d)
    BY <2>1, Zenon DEF Backed, Ota!Done
  <2>3. x.bytes <= d.got
    BY <1>7, Zenon DEF Truthful
  <2> QED BY <1>1, <2>1, <2>2, <2>3 DEF Backed
<1>8. \/ t = s
      \/ ~Ota!NotOurs(x) /\ t = [s EXCEPT !.staged = TRUE, !.acked = Ota!Most(@, x.bytes)] /\ x.state = "STAGED"
      \/ ~Ota!NotOurs(x) /\ t = [s EXCEPT !.succeeded = TRUE] /\ x.state = "SUCCESS"
      \/ ~Ota!NotOurs(x) /\ t = [s EXCEPT !.resume_to = x.bytes]
      \/ t = [s EXCEPT !.failed = TRUE]
      \/ ~Ota!NotOurs(x) /\ t = [s EXCEPT !.acked = Ota!Most(@, x.bytes)]
  BY DEF Ota!Fold
<1> QED BY <1>2, <1>3, <1>4, <1>5, <1>6, <1>7, <1>8

(***************************************************************************)
(* The recursion behind Pumped, up to a number of statuses.                *)
(***************************************************************************)
FoldsUp(s, top, f) ==
  f = [i \in 0..top |-> IF i = 0 THEN s ELSE Ota!Fold(f[i - 1], up[i])]

(* A set of numbers that is not empty has a least one.                     *)
LEMMA LeastNat ==
  ASSUME NEW T \in SUBSET Nat, T # {} PROVE \E m \in T : \A k \in T : m <= k
<1>1. PICK m \in T : \A k \in T : ~ (<<k, m>> \in OpToRel(<,Nat))
  BY WFMin, NatLessThanWellFounded, Zenon
<1>2. \A k \in T : ~(k < m)
  BY <1>1 DEF OpToRel
<1> QED BY <1>2

(* It has a solution: the least number of statuses without one would have  *)
(* one made from the solution for one status less.                         *)
LEMMA FoldsExist == ASSUME NEW s, NEW top \in Nat PROVE \E f : FoldsUp(s, top, f)
<1> DEFINE Bad == {n \in Nat : ~ \E f : FoldsUp(s, n, f)}
<1>1. ASSUME NEW n \in Nat, NEW f, FoldsUp(s, n, f) PROVE \E g : FoldsUp(s, n + 1, g)
  <2> DEFINE g == [k \in 0 .. n + 1 |-> IF k = 0 THEN s ELSE Ota!Fold(f[k - 1], up[k])]
  <2>1. \A k \in 0 .. n : g[k] = f[k]
    <3>1. f = [k \in 0 .. n |-> IF k = 0 THEN s ELSE Ota!Fold(f[k - 1], up[k])]
      BY <1>1 DEF FoldsUp
    <3>2. \A k \in 0 .. n : f[k] = IF k = 0 THEN s ELSE Ota!Fold(f[k - 1], up[k])
      BY <3>1, Zenon
    <3>3. \A k \in 0 .. n : k \in 0 .. n + 1
      OBVIOUS
    <3> QED BY <3>2, <3>3, Zenon
  <2>2. \A k \in 0 .. n + 1 : k # 0 => k - 1 \in 0 .. n
    OBVIOUS
  <2>3. \A k \in 0 .. n + 1 : g[k] = IF k = 0 THEN s ELSE Ota!Fold(g[k - 1], up[k])
    BY <2>1, <2>2
  <2>4. FoldsUp(s, n + 1, g)
    BY <2>3 DEF FoldsUp
  <2> QED BY <2>4
<1>2. FoldsUp(s, 0, [k \in 0 .. 0 |-> s])
  BY DEF FoldsUp
<1>3. Bad = {}
  <2> SUFFICES ASSUME Bad # {} PROVE FALSE
    OBVIOUS
  <2>1. PICK n \in Bad : \A k \in Bad : n <= k
    BY LeastNat
  <2>2. n # 0
    BY <1>2, <2>1
  <2>3. n - 1 \in Nat /\ n - 1 \notin Bad /\ (n - 1) + 1 = n
    BY <2>1, <2>2
  <2> QED BY <1>1, <2>1, <2>3
<1> QED BY <1>3

(* Pumped is the last of its solution's values.                            *)
LEMMA PumpedEquation ==
  ASSUME NEW s, up \in Seq(Told) PROVE
  \E f : /\ Ota!Pumped(s) = f[Len(up)] /\ f[0] = s
         /\ \A i \in 1 .. Len(up) : f[i] = Ota!Fold(f[i - 1], up[i])
<1> DEFINE top == Len(up)
           f == CHOOSE g : FoldsUp(s, top, g)
<1>1. top \in Nat
  OBVIOUS
<1>2. FoldsUp(s, top, f)
  BY <1>1, FoldsExist
<1>3. Ota!Pumped(s) = f[top]
  BY DEF Ota!Pumped, FoldsUp
<1> HIDE DEF f
<1>4. f[0] = s /\ \A n \in 1 .. top : f[n] = Ota!Fold(f[n - 1], up[n])
  <2>1. f = [k \in 0 .. top |-> IF k = 0 THEN s ELSE Ota!Fold(f[k - 1], up[k])]
    BY <1>2 DEF FoldsUp
  <2>2. \A k \in 0 .. top : f[k] = IF k = 0 THEN s ELSE Ota!Fold(f[k - 1], up[k])
    BY <2>1, Zenon
  <2>3. 0 \in 0 .. top /\ \A n \in 1 .. top : n \in 0 .. top /\ n # 0
    BY <1>1
  <2> QED BY <2>2, <2>3
<1> QED BY <1>3, <1>4

(* So is every status available: what a pump folds is backed (pump).       *)
LEMMA PumpedBacked ==
  ASSUME OtaIInv
  PROVE  Backed(Ota!Pumped(st), dev) /\ Ota!Pumped(st).acked >= st.acked
<1> DEFINE Fine(s) == Backed(s, dev) /\ s.acked >= st.acked
<1>1. up \in Seq(Told) /\ dev \in Devices /\ Len(up) \in Nat /\ st \in Folds
  BY DEF OtaIInv, OtaTypes, Heard, Backed
<1>2. PICK f : /\ Ota!Pumped(st) = f[Len(up)] /\ f[0] = st
               /\ \A i \in 1 .. Len(up) : f[i] = Ota!Fold(f[i - 1], up[i])
  BY <1>1, PumpedEquation
<1>3. Fine(f[0])
  BY <1>2 DEF OtaIInv, Backed, Folds
<1>4. ASSUME NEW i \in 1 .. Len(up), Fine(f[i - 1]) PROVE Fine(f[i])
  <2>1. up[i] \in Told /\ Truthful(up[i], dev)
    BY <1>1 DEF OtaIInv, Heard
  <2>2. Backed(f[i], dev) /\ f[i].acked >= f[i - 1].acked
    BY <1>1, <1>2, <1>4, <2>1, FoldBacked
  <2>3. f[i].acked \in Nat /\ f[i - 1].acked \in Nat /\ st.acked \in Nat
    BY <1>1, <1>4, <2>2 DEF Backed, Folds
  <2> QED BY <1>4, <2>2, <2>3
<1> HIDE DEF Fine
<1> DEFINE Bad == {i \in 0 .. Len(up) : ~Fine(f[i])}
<1>5. Bad = {}
  <2> SUFFICES ASSUME Bad # {} PROVE FALSE
    OBVIOUS
  <2>0. Bad \in SUBSET Nat
    BY <1>1
  <2>1. PICK n \in Bad : \A k \in Bad : n <= k
    BY <2>0, LeastNat
  <2>2. n # 0
    BY <1>3, <2>1
  <2>3. n \in 1 .. Len(up) /\ n - 1 \in 0 .. Len(up) /\ n - 1 \notin Bad
    <3>1. n \in 0 .. Len(up)
      BY <2>1
    <3>2. n \in 1 .. Len(up) /\ n - 1 \in 0 .. Len(up) /\ ~(n <= n - 1)
      BY <1>1, <2>2, <3>1
    <3> QED BY <2>1, <3>2
  <2> QED BY <1>4, <2>1, <2>3
<1>6. Fine(f[Len(up)])
  BY <1>1, <1>5
<1> QED BY <1>2, <1>6 DEF Fine

(* What a device says stays so while its bytes grow.                       *)
LEMMA HeardGrows ==
  ASSUME NEW d \in Devices, NEW e \in Devices, e.takes = d.takes, d.got <= e.got, e.got <= Image,
         NEW q
  PROVE  /\ Heard(q, d) => Heard(q, e)
         /\ ImageHeld(d) => ImageHeld(e)
         /\ Backed(q, d) => Backed(q, e)
<1>1. d.got \in Nat /\ e.got \in Nat /\ Image \in Nat
  BY OtaSizes DEF Devices
<1>2. ImageHeld(d) => ImageHeld(e)
  <2>1. d.got = Image => e.got = Image
    BY <1>1
  <2> QED BY <2>1, Zenon DEF ImageHeld
<1>3. ASSUME NEW x \in Told, Truthful(x, d) PROVE Truthful(x, e)
  <2>1. x.bytes \in Nat
    BY DEF Told
  <2>2. x.bytes <= d.got => x.bytes <= e.got
    BY <1>1, <2>1
  <2> QED BY <1>2, <1>3, <2>2, Zenon DEF Truthful
<1>4. Heard(q, d) => Heard(q, e)
  <2> SUFFICES ASSUME Heard(q, d) PROVE Heard(q, e)
    OBVIOUS
  <2>1. q \in Seq(Told) /\ \A i \in 1..Len(q) : q[i] \in Told
    BY DEF Heard
  <2> QED BY <1>3, <2>1, Zenon DEF Heard
<1>5. Backed(q, d) => Backed(q, e)
  <2> SUFFICES ASSUME Backed(q, d) PROVE Backed(q, e)
    OBVIOUS
  <2>1. q \in Folds /\ q.acked \in Nat /\ q.resume_to \in Nat \cup {-1} /\ q.acked <= d.got /\ q.resume_to <= d.got
    BY DEF Backed, Folds, Ota!None
  <2>2. q.acked <= e.got /\ q.resume_to <= e.got
    BY <1>1, <2>1
  <2> QED BY <1>2, <2>1, <2>2, Zenon DEF Backed
<1> QED BY <1>2, <1>4, <1>5

(* What lies in the window stays in it while more is acked.                *)
LEMMA WindowGrows ==
  ASSUME NEW s \in Folds, NEW t \in Folds, s.acked <= t.acked
  PROVE  /\ \A at \in Int : InWindow(at, s) => InWindow(at, t)
         /\ \A q : Carried(q, s) => Carried(q, t)
<1>1. s.acked \in Nat /\ t.acked \in Nat
  BY DEF Folds
<1>2. ASSUME NEW at \in Int, InWindow(at, s) PROVE InWindow(at, t)
  BY <1>1, <1>2, OtaSizes DEF InWindow
<1>3. ASSUME NEW q, Carried(q, s) PROVE Carried(q, t)
  <2>1. q \in Seq(Orders) /\ \A i \in 1..Len(q) : q[i] \in Orders
    BY <1>3 DEF Carried
  <2>2. \A i \in 1..Len(q) : q[i].offset + q[i].n \in Int
    BY <2>1 DEF Orders
  <2> QED BY <1>2, <1>3, <2>1, <2>2, Zenon DEF Carried
<1> QED BY <1>2, <1>3

(* A status more or less on its way.                                       *)
LEMMA HeardOne ==
  ASSUME NEW d, NEW q, Heard(q, d)
  PROVE  /\ Heard(<<>>, d)
         /\ q # <<>> => Heard(Tail(q), d) /\ Head(q) \in Told /\ Truthful(Head(q), d)
         /\ \A x \in Told : Truthful(x, d) => Heard(Append(q, x), d)
<1>1. q \in Seq(Told) /\ \A i \in 1..Len(q) : Truthful(q[i], d)
  BY DEF Heard
<1>2. Heard(<<>>, d)
  BY DEF Heard
<1>3. ASSUME q # <<>> PROVE Heard(Tail(q), d) /\ Head(q) \in Told /\ Truthful(Head(q), d)
  <2>1. /\ Tail(q) \in Seq(Told) /\ Head(q) = q[1] /\ q[1] \in Told /\ Len(q) \in Nat \ {0}
        /\ \A i \in 1..Len(Tail(q)) : Tail(q)[i] = q[i + 1] /\ i + 1 \in 1..Len(q)
    BY <1>1, <1>3, Tailed
  <2>2. 1 \in 1..Len(q)
    BY <2>1
  <2> QED BY <1>1, <2>1, <2>2, Zenon DEF Heard
<1>4. ASSUME NEW x \in Told, Truthful(x, d) PROVE Heard(Append(q, x), d)
  <2>1. /\ Append(q, x) \in Seq(Told) /\ Len(Append(q, x)) = Len(q) + 1
        /\ Append(q, x)[Len(q) + 1] = x /\ \A i \in 1..Len(q) : Append(q, x)[i] = q[i]
        /\ \A i \in 1..(Len(q) + 1) : i \in 1..Len(q) \/ i = Len(q) + 1
    BY <1>1, Appended
  <2> QED BY <1>1, <1>4, <2>1, Zenon DEF Heard
<1> QED BY <1>2, <1>3, <1>4

(* A message more or less on its way.                                      *)
LEMMA CarriedOne ==
  ASSUME NEW s, NEW q, Carried(q, s)
  PROVE  /\ q # <<>> => /\ Carried(Tail(q), s) /\ Head(q) \in Orders
                        /\ InWindow(Head(q).offset + Head(q).n, s)
         /\ \A m \in Orders : InWindow(m.offset + m.n, s) => Carried(Append(q, m), s)
<1>1. q \in Seq(Orders) /\ \A i \in 1..Len(q) : InWindow(q[i].offset + q[i].n, s)
  BY DEF Carried
<1>3. ASSUME q # <<>>
      PROVE  Carried(Tail(q), s) /\ Head(q) \in Orders /\ InWindow(Head(q).offset + Head(q).n, s)
  <2>1. /\ Tail(q) \in Seq(Orders) /\ Head(q) = q[1] /\ q[1] \in Orders /\ Len(q) \in Nat \ {0}
        /\ \A i \in 1..Len(Tail(q)) : Tail(q)[i] = q[i + 1] /\ i + 1 \in 1..Len(q)
    BY <1>1, <1>3, Tailed
  <2>2. 1 \in 1..Len(q)
    BY <2>1
  <2> QED BY <1>1, <2>1, <2>2, Zenon DEF Carried
<1>4. ASSUME NEW m \in Orders, InWindow(m.offset + m.n, s) PROVE Carried(Append(q, m), s)
  <2>1. /\ Append(q, m) \in Seq(Orders) /\ Len(Append(q, m)) = Len(q) + 1
        /\ Append(q, m)[Len(q) + 1] = m /\ \A i \in 1..Len(q) : Append(q, m)[i] = q[i]
        /\ \A i \in 1..(Len(q) + 1) : i \in 1..Len(q) \/ i = Len(q) + 1
    BY <1>1, Appended
  <2> QED BY <1>1, <1>4, <2>1, Zenon DEF Carried
<1> QED BY <1>3, <1>4

(* A message without bytes fits any window.                                *)
LEMMA CarriedMore ==
  ASSUME NEW s \in Folds, NEW q, Carried(q, s),
         NEW kind \in OrderKinds
  PROVE  Carried(Append(q, Ota!Message(kind, 0, 0)), s)
<1> DEFINE m == Ota!Message(kind, 0, 0)
<1>1. m \in Orders /\ m.offset + m.n = 0
  BY DEF Ota!Message, Orders, OrderKinds
<1>2. InWindow(0, s)
  <2>1. s.acked \in Nat
    BY DEF Folds
  <2> QED BY <2>1, OtaSizes DEF InWindow
<1> HIDE DEF m
<1> QED BY <1>1, <1>2, CarriedOne, Zenon DEF m

(***************************************************************************)
(* The relay's steps: it folds what the device backs, sends what fits its  *)
(* window, and claims no more than it may.                                 *)
(***************************************************************************)
Leaving(ok, sends) ==
  /\ pc' = "done" /\ outcome'.ok = ok /\ down' = Ota!Restored(sends)

(* Every exit runs the finally.                                            *)
LEMMA ExitLeaves ==
  ASSUME NEW ok, NEW reason, NEW sends, Ota!Exit(ok, reason, sends) PROVE Leaving(ok, sends)
BY Zenon DEF Ota!Exit, Ota!Outcome, Leaving

(* A message with its kind, at the end.                                    *)
LEMMA LastRestores ==
  ASSUME NEW q \in Seq(Orders) PROVE Restoring(Append(q, Ota!Message("unquiet", 0, 0)))
<1> DEFINE m == Ota!Message("unquiet", 0, 0)
<1>1. m \in Orders /\ m.kind = "unquiet"
  BY DEF Ota!Message, Orders, OrderKinds
<1> HIDE DEF m
<1>2. /\ Append(q, m)[Len(q) + 1] = m /\ Len(q) + 1 \in DOMAIN Append(q, m)
  BY <1>1
<1>3. Restoring(Append(q, m))
  BY <1>1, <1>2, Zenon DEF Restoring
<1> QED BY <1>3 DEF m

(* What is sent at an exit fits the window, and a link that is up and was  *)
(* quieted is told to go back.                                             *)
LEMMA ExitSends ==
  ASSUME OtaIInv, NEW sends, Carried(sends, st), NEW ok,
         Leaving(ok, sends) \/ Leaving(ok, Ota!Aborted(sends)),
         UNCHANGED <<quieted, policy, link, restore_lost>>
  PROVE  /\ Carried(down', st)
         /\ (pc' = "done" => PutBack(down)') /\ (~link' => ~policy')
<1>1. st \in Folds /\ (~link => ~policy)
  BY DEF OtaIInv, Backed
<1>2. ASSUME NEW q, Carried(q, st) PROVE Carried(Ota!Aborted(q), st)
  BY <1>1, <1>2, CarriedMore DEF Ota!Aborted, OrderKinds
<1>3. ASSUME NEW q, Carried(q, st), down' = Ota!Restored(q)
      PROVE  Carried(down', st) /\ PutBack(down)'
  <2>1. CASE quieted /\ link
    <3>1. down' = Append(q, Ota!Message("unquiet", 0, 0))
      BY <1>3, <2>1 DEF Ota!Restored
    <3>2. Carried(down', st)
      BY <1>1, <1>3, <3>1, CarriedMore DEF OrderKinds
    <3>3. Restoring(down')
      BY <1>3, <3>1, LastRestores DEF Carried
    <3>4. Restoring(down)'
      BY <3>3 DEF Restoring
    <3> QED BY <3>2, <3>4, Zenon DEF PutBack
  <2>2. CASE ~(quieted /\ link)
    <3>1. down' = q
      BY <1>3, <2>2 DEF Ota!Restored
    <3> QED BY <1>1, <1>3, <2>2, <3>1, Zenon DEF PutBack
  <2> QED BY <2>1, <2>2
<1> QED BY <1>1, <1>2, <1>3, Zenon DEF Leaving

(* What a step of the relay owes the invariant.                            *)
LEMMA RelayStep ==
  ASSUME OtaIInv, dev' = dev, Heard(up', dev), Backed(st', dev), st.acked <= st'.acked,
         Carried(down', st), {chunk', smallest', cursor'} \subseteq Nat, InWindow(cursor', st),
         quieted' \in BOOLEAN, policy' \in BOOLEAN, committed' \in BOOLEAN, link' = link,
         Claims' => ImageHeld(dev), pc' = "done" => PutBack(down)', ~link' => ~policy'
  PROVE  OtaIInv'
<1>1. st \in Folds /\ st' \in Folds /\ dev.got \in Int /\ cursor' \in Int
  BY DEF OtaIInv, OtaTypes, Backed, Devices
<1>2. Carried(down', st') /\ InWindow(cursor', st') /\ InWindow(dev.got, st')
  BY <1>1, WindowGrows, Zenon DEF OtaIInv
<1>3. OtaTypes'
  BY Zenon DEF OtaIInv, OtaTypes
<1> QED BY <1>2, <1>3, Zenon DEF OtaIInv

(* What an iteration does once it has sent or waited (the end of the loop).*)
LEMMA AfterPumpKeeps ==
  ASSUME OtaIInv, pc = "stream", NEW s, Backed(s, dev), st.acked <= s.acked, NEW c,
         NEW sends, Carried(sends, st), Ota!AfterPump(s, c, sends),
         UNCHANGED <<quieted, policy, link, restore_lost, committed>>
  PROVE  /\ Backed(st', dev) /\ st.acked <= st'.acked
         /\ Claims' => ImageHeld(dev)
         /\ Carried(down', st) /\ (pc' = "done" => PutBack(down)') /\ (~link' => ~policy')
<1>1. st' = s \/ st' = [s EXCEPT !.resume_to = s.acked]
  BY Zenon DEF Ota!AfterPump
<1>2. \/ Ota!Exit(FALSE, "FAIL_STALLED", Ota!Aborted(sends))
      \/ pc' = pc /\ outcome' = outcome /\ down' = sends
  BY Zenon DEF Ota!AfterPump
<1>3. /\ s \in Folds /\ s.acked \in Nat /\ s.acked <= dev.got /\ dev.got \in Nat /\ (~link => ~policy)
      /\ Ota!Done(s) => ImageHeld(dev)
  BY DEF Backed, Folds, OtaIInv, OtaTypes, Devices
<1>4. Backed(st', dev) /\ st'.acked = s.acked
  <2>1. CASE st' = s
    BY <2>1
  <2>2. CASE st' = [s EXCEPT !.resume_to = s.acked]
    <3>1. /\ st' \in Folds /\ st'.resume_to = s.acked /\ st'.acked = s.acked
          /\ st'.staged = s.staged /\ st'.succeeded = s.succeeded
      BY <1>3, <2>2 DEF Folds, Ota!None
    <3>2. Ota!Done(st') => ImageHeld(dev)
      BY <1>3, <3>1, Zenon DEF Ota!Done
    <3>3. st'.acked <= dev.got /\ st'.resume_to <= dev.got
      BY <1>3, <3>1
    <3> QED BY <3>1, <3>2, <3>3, Zenon DEF Backed
  <2> QED BY <1>1, <2>1, <2>2
<1>5. CASE Ota!Exit(FALSE, "FAIL_STALLED", Ota!Aborted(sends))
  <2>1. Leaving(FALSE, Ota!Aborted(sends))
    BY <1>5, ExitLeaves
  <2>2. Claims' => Claims
    BY <2>1, Zenon DEF Leaving, Claims
  <2>3. Carried(down', st) /\ (pc' = "done" => PutBack(down)') /\ (~link' => ~policy')
    BY <2>1, ExitSends
  <2> QED BY <1>4, <2>2, <2>3, Zenon DEF OtaIInv
<1>6. CASE pc' = pc /\ outcome' = outcome /\ down' = sends
  <2>1. (Claims' => Claims) /\ pc' # "done"
    BY <1>6, Zenon DEF Claims
  <2> QED BY <1>3, <1>4, <1>6, <2>1, Zenon DEF OtaIInv
<1> QED BY <1>2, <1>5, <1>6

(* Before the image is sent: quiesce, query, negotiate, begin and the one  *)
(* read.                                                                   *)
LEMMA BeginKeeps ==
  ASSUME OtaIInv, Ota!Quiesce \/ Ota!Query \/ Ota!Negotiate \/ Ota!Begin \/ Ota!ReadOnce
  PROVE  OtaIInv'
<1>0. /\ OtaTypes /\ Heard(up, dev) /\ Backed(st, dev) /\ Carried(down, st)
      /\ InWindow(cursor, st) /\ (Claims => ImageHeld(dev)) /\ (~link => ~policy)
  BY DEF OtaIInv
<1>1. /\ st \in Folds /\ st.acked <= st.acked /\ {chunk, smallest, cursor} \subseteq Nat
      /\ quieted \in BOOLEAN /\ policy \in BOOLEAN /\ committed \in BOOLEAN
  BY <1>0 DEF Backed, Folds, OtaTypes
<1>2. CASE Ota!Quiesce
  <2>1. /\ pc' = "query" /\ quieted' \in BOOLEAN /\ policy' \in BOOLEAN
        /\ link /\ UNCHANGED <<chunk, smallest, st, cursor, committed, outcome, down, up, dev, link>>
    BY <1>2, Zenon DEF Ota!Quiesce, Ota!moves, Ota!medium, OtaTypes
  <2>2. Claims' => Claims
    BY <2>1, Zenon DEF Claims
  <2> QED BY <1>0, <1>1, <2>1, <2>2, RelayStep
<1>3. CASE Ota!Query
  <2>1. /\ pc' = "negotiate" /\ down' = Append(down, Ota!Message("query", 0, 0))
        /\ UNCHANGED <<quieted, policy, chunk, smallest, st, cursor, committed, outcome, up, dev, link>>
    BY <1>3, Zenon DEF Ota!Query, Ota!Send, Ota!setup, Ota!moves, Ota!medium
  <2>2. Claims' => Claims
    BY <2>1, Zenon DEF Claims
  <2>3. Carried(down', st)
    BY <1>0, <1>1, <2>1, CarriedMore DEF OrderKinds
  <2> QED BY <1>0, <1>1, <2>1, <2>2, <2>3, RelayStep
<1>4. CASE Ota!Negotiate
  <2>1. /\ \/ pc' = "begin" /\ chunk' = Ota!Negotiated(smallest) /\ smallest' = smallest /\ up' = up
           \/ /\ up # <<>> /\ up' = Tail(up) /\ pc' = pc /\ chunk' = chunk
              /\ smallest' = Ota!SmallerAdvert(smallest, Head(up))
        /\ pc = "negotiate"
        /\ UNCHANGED <<quieted, policy, st, cursor, committed, outcome, down, dev, link>>
    BY <1>4, Zenon DEF Ota!Negotiate, Ota!moves, Ota!medium
  <2>2. Claims' => Claims
    BY <2>1, Zenon DEF Claims
  <2>3. Heard(up', dev)
    BY <1>0, <2>1, HeardOne
  <2>4. chunk' \in Nat
    BY <1>1, <2>1, OtaAssumption DEF Ota!Negotiated, Ota!Most, Ota!Least
  <2>5. smallest' \in Nat
    <3>1. CASE smallest' = smallest
      BY <1>1, <3>1
    <3>2. CASE up # <<>> /\ smallest' = Ota!SmallerAdvert(smallest, Head(up))
      <4>1. Head(up).advert \in Nat
        BY <1>0, <3>2, HeardOne DEF Told
      <4> QED BY <1>1, <3>2, <4>1 DEF Ota!SmallerAdvert, Ota!Least
    <3> QED BY <2>1, <3>1, <3>2
  <2>6. {chunk', smallest', cursor'} \subseteq Nat
    BY <1>1, <2>1, <2>4, <2>5
  <2>7. pc' # "done"
    BY <2>1
  <2> QED BY <1>0, <1>1, <2>1, <2>2, <2>3, <2>6, <2>7, RelayStep
<1>5. CASE Ota!Begin
  <2>1. /\ pc' = "begun" /\ down' = Append(down, Ota!Message("begin", 0, 0))
        /\ UNCHANGED <<quieted, policy, chunk, smallest, st, cursor, committed, outcome, up, dev, link>>
    BY <1>5, Zenon DEF Ota!Begin, Ota!Send, Ota!setup, Ota!moves, Ota!medium
  <2>2. Claims' => Claims
    BY <2>1, Zenon DEF Claims
  <2>3. Carried(down', st)
    BY <1>0, <1>1, <2>1, CarriedMore DEF OrderKinds
  <2> QED BY <1>0, <1>1, <2>1, <2>2, <2>3, RelayStep
<1>6. CASE Ota!ReadOnce
  <2>1. /\ pc' = "stream" /\ st' = Ota!Pumped(st) /\ up' = <<>>
        /\ UNCHANGED <<quieted, policy, chunk, smallest, cursor, committed, outcome, down, dev, link>>
    BY <1>6, Zenon DEF Ota!ReadOnce, Ota!setup, Ota!moves, Ota!medium
  <2>2. Claims' => Claims
    BY <2>1, Zenon DEF Claims
  <2>3. Backed(st', dev) /\ st'.acked >= st.acked /\ Heard(up', dev)
    BY <1>0, <2>1, PumpedBacked, HeardOne
  <2>4. st.acked <= st'.acked
    BY <1>1, <2>3 DEF Folds, Backed
  <2> QED BY <1>0, <1>1, <2>1, <2>2, <2>3, <2>4, RelayStep
<1> QED BY <1>2, <1>3, <1>4, <1>5, <1>6

(* The streaming loop: a rewind, a chunk within the credit, a wait, and    *)
(* the deadline.                                                           *)
LEMMA StreamKeeps ==
  ASSUME OtaIInv, Ota!DeadlinePassed \/ Ota!Rewind \/ Ota!SendChunk \/ Ota!Wait
  PROVE  OtaIInv'
<1>0. /\ OtaTypes /\ Heard(up, dev) /\ Backed(st, dev) /\ Carried(down, st)
      /\ InWindow(cursor, st) /\ InWindow(dev.got, st) /\ (Claims => ImageHeld(dev)) /\ (~link => ~policy)
  BY DEF OtaIInv
<1>1. /\ st \in Folds /\ st.acked <= st.acked /\ {chunk, smallest, cursor} \subseteq Nat
      /\ quieted \in BOOLEAN /\ policy \in BOOLEAN /\ committed \in BOOLEAN
      /\ st.acked \in Nat /\ st.resume_to \in Nat \cup {-1} /\ st.resume_to <= dev.got
      /\ dev.got \in Nat /\ Ota!None = -1
  BY <1>0 DEF Backed, Folds, OtaTypes, Devices, Ota!None
<1>2. ASSUME NEW ok, Leaving(ok, Ota!Aborted(down)), ok = FALSE,
             UNCHANGED <<quieted, chunk, smallest, st, cursor, committed, up, dev, link, policy, restore_lost>>
      PROVE  OtaIInv'
  <2>1. /\ Carried(down', st)
        /\ (pc' = "done" => PutBack(down)') /\ (~link' => ~policy')
    BY <1>0, <1>2, ExitSends
  <2>2. Claims' => Claims
    BY <1>2, Zenon DEF Leaving, Claims
  <2> QED BY <1>0, <1>1, <1>2, <2>1, <2>2, RelayStep
<1>3. pc = "stream"
  BY Zenon DEF Ota!DeadlinePassed, Ota!Rewind, Ota!SendChunk, Ota!Wait, Ota!Streaming
<1>4. CASE Ota!DeadlinePassed
  <2>1. /\ Ota!Exit(FALSE, "FAIL_DEADLINE", Ota!Aborted(down))
        /\ UNCHANGED <<quieted, chunk, smallest, st, cursor, committed, up, dev, link, policy, restore_lost>>
    BY <1>4, Zenon DEF Ota!DeadlinePassed, Ota!setup, Ota!moves, Ota!medium
  <2> QED BY <1>2, <2>1, ExitLeaves
<1>5. CASE Ota!Rewind
  <2>1. /\ st.resume_to # Ota!None
        /\ UNCHANGED <<quieted, chunk, smallest, committed, up, dev, link, policy, restore_lost>>
        /\ \/ Ota!Exit(FALSE, "FAIL_TOO_LOSSY", Ota!Aborted(down)) /\ UNCHANGED <<cursor, st>>
           \/ /\ cursor' = st.resume_to /\ st' = [st EXCEPT !.resume_to = Ota!None]
              /\ UNCHANGED <<pc, outcome, down>>
    BY <1>5, Zenon DEF Ota!Rewind, Ota!setup, Ota!medium
  <2>2. CASE Ota!Exit(FALSE, "FAIL_TOO_LOSSY", Ota!Aborted(down)) /\ UNCHANGED <<cursor, st>>
    BY <1>2, <2>1, <2>2, ExitLeaves
  <2>3. CASE /\ cursor' = st.resume_to /\ st' = [st EXCEPT !.resume_to = Ota!None]
             /\ UNCHANGED <<pc, outcome, down>>
    <3>1. /\ st' \in Folds /\ st'.acked = st.acked /\ st'.resume_to = -1
          /\ st'.staged = st.staged /\ st'.succeeded = st.succeeded
      BY <1>1, <2>3 DEF Folds, Ota!None
    <3>2. Ota!Done(st') => ImageHeld(dev)
      BY <1>0, <3>1, Zenon DEF Backed, Ota!Done
    <3>3. st'.acked <= dev.got /\ st'.resume_to <= dev.got
      BY <1>0, <1>1, <3>1 DEF Backed
    <3>4. Backed(st', dev) /\ st.acked <= st'.acked
      BY <1>1, <3>1, <3>2, <3>3 DEF Backed
    <3>5. cursor' \in Nat /\ InWindow(cursor', st)
      BY <1>0, <1>1, <2>1, <2>3, OtaSizes DEF InWindow
    <3>6. (Claims' => Claims) /\ pc' # "done" /\ (~link' => ~policy')
      BY <1>0, <1>3, <2>1, <2>3, Zenon DEF Claims
    <3>7. {chunk', smallest', cursor'} \subseteq Nat
      BY <1>1, <2>1, <3>5
    <3> QED BY <1>0, <1>1, <2>1, <2>3, <3>4, <3>5, <3>6, <3>7, RelayStep
  <2> QED BY <2>1, <2>2, <2>3
<1>6. CASE Ota!SendChunk
  <2> DEFINE s == Ota!Pumped(st)
             m == Ota!Message("chunk", cursor, Ota!Size)
  <2>1. /\ Ota!HasCredit /\ cursor' = cursor + Ota!Size
        /\ up' = <<>> /\ Ota!AfterPump(s, cursor', Append(down, m))
        /\ UNCHANGED <<quieted, chunk, smallest, committed, dev, link, policy, restore_lost>>
    BY <1>6, Zenon DEF Ota!SendChunk, Ota!setup, Ota!medium
  <2>2. Ota!Size \in Nat /\ cursor + Ota!Size <= Image /\ cursor + Ota!Size <= st.acked + UpdateWindow
    BY <1>0, <1>1, <2>1, OtaSizes DEF Ota!HasCredit, Ota!Size, Ota!Least, InWindow
  <2>3. m \in Orders /\ InWindow(m.offset + m.n, st)
    BY <1>1, <2>2 DEF Ota!Message, Orders, OrderKinds, InWindow
  <2>4. Carried(Append(down, m), st)
    BY <1>0, <2>3, CarriedOne
  <2>6. Backed(s, dev) /\ st.acked <= s.acked /\ Heard(<<>>, dev)
    <3>1. Backed(s, dev) /\ s.acked >= st.acked
      BY PumpedBacked
    <3>2. s.acked \in Nat
      BY <3>1 DEF Backed, Folds
    <3> QED BY <1>0, <1>1, <3>1, <3>2, HeardOne
  <2>7. /\ Backed(st', dev) /\ st.acked <= st'.acked
        /\ (Claims' => ImageHeld(dev)) /\ Carried(down', st)
        /\ (pc' = "done" => PutBack(down)') /\ (~link' => ~policy')
    BY <1>3, <2>1, <2>4, <2>6, AfterPumpKeeps
  <2>8. {chunk', smallest', cursor'} \subseteq Nat /\ InWindow(cursor', st)
    BY <1>1, <2>1, <2>2 DEF InWindow
  <2> QED BY <1>1, <2>1, <2>6, <2>7, <2>8, RelayStep
<1>7. CASE Ota!Wait
  <2> DEFINE s == Ota!Pumped(st)
  <2>1. /\ up' = <<>> /\ Ota!AfterPump(s, cursor, down)
        /\ UNCHANGED <<quieted, chunk, smallest, cursor, committed, dev, link, policy, restore_lost>>
    BY <1>7, Zenon DEF Ota!Wait, Ota!setup, Ota!medium
  <2>3. Backed(s, dev) /\ st.acked <= s.acked /\ Heard(<<>>, dev)
    <3>1. Backed(s, dev) /\ s.acked >= st.acked
      BY PumpedBacked
    <3>2. s.acked \in Nat
      BY <3>1 DEF Backed, Folds
    <3> QED BY <1>0, <1>1, <3>1, <3>2, HeardOne
  <2>4. /\ Backed(st', dev) /\ st.acked <= st'.acked
        /\ (Claims' => ImageHeld(dev)) /\ Carried(down', st)
        /\ (pc' = "done" => PutBack(down)') /\ (~link' => ~policy')
    BY <1>0, <1>3, <2>1, <2>3, AfterPumpKeeps
  <2> QED BY <1>0, <1>1, <2>1, <2>3, <2>4, RelayStep
<1> QED BY <1>4, <1>5, <1>6, <1>7

(* The relay commits and claims success on what the device was told to     *)
(* hold, or said it holds.                                                 *)
LEMMA EndKeeps ==
  ASSUME OtaIInv,
         \/ Ota!FoldedFailure \/ Ota!NoTransferNeeded \/ Ota!UploadOnly \/ Ota!Commit
         \/ Ota!AwaitVerdict \/ Ota!Verdict \/ Ota!LinkError
  PROVE  OtaIInv'
<1>0. /\ OtaTypes /\ Heard(up, dev) /\ Backed(st, dev) /\ Carried(down, st)
      /\ InWindow(cursor, st) /\ InWindow(dev.got, st) /\ (Claims => ImageHeld(dev)) /\ (~link => ~policy)
  BY DEF OtaIInv
<1>1. /\ st \in Folds /\ st.acked <= st.acked /\ {chunk, smallest, cursor} \subseteq Nat
      /\ quieted \in BOOLEAN /\ policy \in BOOLEAN /\ committed \in BOOLEAN
      /\ st.acked \in Nat /\ st.acked <= dev.got /\ dev.got \in Nat
  BY <1>0 DEF Backed, Folds, OtaTypes, Devices
(* Every byte acked, or a verdict: the image is held. *)
<1>3. ASSUME Ota!Leaves, ~st.failed PROVE ImageHeld(dev)
  <2>1. CASE Ota!Done(st)
    BY <1>0, <2>1, Zenon DEF Backed
  <2>2. CASE ~Ota!Done(st)
    <3>1. Ota!AllAcked
      BY <1>3, <2>2, Zenon DEF Ota!Leaves, Ota!Streaming
    <3>2. dev.got = Image
      BY <1>0, <1>1, <3>1, OtaSizes DEF Ota!AllAcked, InWindow
    <3> QED BY <3>2 DEF ImageHeld
  <2> QED BY <2>1, <2>2
<1>4. ASSUME NEW ok, Leaving(ok, down) \/ Leaving(ok, Ota!Aborted(down)), ok => ImageHeld(dev),
             UNCHANGED <<quieted, chunk, smallest, st, cursor, committed, up, dev, link, policy, restore_lost>>
      PROVE  OtaIInv'
  <2>1. /\ Carried(down', st)
        /\ (pc' = "done" => PutBack(down)') /\ (~link' => ~policy')
    BY <1>0, <1>4, ExitSends
  <2>2. Claims' => ImageHeld(dev)
    BY <1>0, <1>4, Zenon DEF Leaving, Claims
  <2> QED BY <1>0, <1>1, <1>4, <2>1, <2>2, RelayStep
<1>5. CASE Ota!FoldedFailure
  <2>1. /\ Ota!Exit(FALSE, "FAIL_DEVICE", down)
        /\ UNCHANGED <<quieted, chunk, smallest, st, cursor, committed, up, dev, link, policy, restore_lost>>
    BY <1>5, Zenon DEF Ota!FoldedFailure, Ota!setup, Ota!moves, Ota!medium
  <2> QED BY <1>0, <1>4, <2>1, ExitLeaves
<1>6. CASE Ota!NoTransferNeeded
  <2>1. /\ Ota!Exit(TRUE, "OK_STAGED_NO_TRANSFER", down) /\ Ota!Leaves /\ ~st.failed
        /\ UNCHANGED <<quieted, chunk, smallest, st, cursor, committed, up, dev, link, policy, restore_lost>>
    BY <1>6, Zenon DEF Ota!NoTransferNeeded, Ota!setup, Ota!moves, Ota!medium
  <2> QED BY <1>0, <1>3, <1>4, <2>1, ExitLeaves
<1>7. CASE Ota!UploadOnly
  <2>1. /\ Ota!Exit(TRUE, "OK_UPLOAD_ONLY", Ota!Aborted(down)) /\ Ota!Leaves /\ ~st.failed
        /\ UNCHANGED <<quieted, chunk, smallest, st, cursor, committed, up, dev, link, policy, restore_lost>>
    BY <1>7, Zenon DEF Ota!UploadOnly, Ota!setup, Ota!moves, Ota!medium
  <2> QED BY <1>0, <1>3, <1>4, <2>1, ExitLeaves
<1>8. CASE Ota!Commit
  <2>1. /\ down' = Append(down, Ota!Message("commit", 0, 0)) /\ Ota!Leaves /\ ~st.failed
        /\ committed' = TRUE /\ pc' = "confirm"
        /\ UNCHANGED <<quieted, policy, chunk, smallest, st, cursor, outcome, up, dev, link, restore_lost>>
    BY <1>8, Zenon DEF Ota!Commit, Ota!Send, Ota!setup, Ota!medium
  <2>2. ImageHeld(dev) /\ Carried(down', st)
    BY <1>0, <1>1, <1>3, <2>1, CarriedMore DEF OrderKinds
  <2>3. committed' \in BOOLEAN /\ pc' # "done"
    BY <2>1
  <2> QED BY <1>0, <1>1, <2>1, <2>2, <2>3, RelayStep
<1>9. CASE Ota!AwaitVerdict
  <2>1. /\ st' = Ota!Pumped(st) /\ up' = <<>>
        /\ UNCHANGED <<pc, quieted, policy, chunk, smallest, cursor, committed, outcome, down, dev, link, restore_lost>>
    BY <1>9, Zenon DEF Ota!AwaitVerdict, Ota!setup, Ota!moves, Ota!medium
  <2>2. Backed(st', dev) /\ st'.acked >= st.acked /\ Heard(up', dev)
    BY <1>0, <2>1, PumpedBacked, HeardOne
  <2>3. st.acked <= st'.acked
    BY <1>1, <2>2 DEF Folds, Backed
  <2>4. (Claims' => Claims) /\ pc' # "done"
    BY <1>0, <1>9, <2>1, Zenon DEF Claims, Ota!AwaitVerdict, Ota!Confirming
  <2> QED BY <1>0, <1>1, <2>1, <2>2, <2>3, <2>4, RelayStep
<1>10. CASE Ota!Verdict
  <2>1. /\ \E reason : Ota!Exit(TRUE, reason, down)
        /\ pc = "confirm"
        /\ UNCHANGED <<quieted, chunk, smallest, st, cursor, committed, up, dev, link, policy, restore_lost>>
    BY <1>10, Zenon DEF Ota!Verdict, Ota!setup, Ota!moves, Ota!medium
  <2>2. ImageHeld(dev)
    BY <1>0, <2>1, Zenon DEF Claims
  <2> QED BY <1>0, <1>4, <2>1, <2>2, ExitLeaves
<1>11. CASE Ota!LinkError
  <2>1. /\ \E reason : Ota!Exit(st.staged \/ committed, reason, down)
        /\ UNCHANGED <<quieted, chunk, smallest, st, cursor, committed, up, dev, link, policy, restore_lost>>
    BY <1>11, Zenon DEF Ota!LinkError, Ota!setup, Ota!moves, Ota!medium
  <2>2. st.staged \/ committed => ImageHeld(dev)
    BY <1>0, Zenon DEF Claims, Backed, Ota!Done
  <2>3. Leaving(st.staged \/ committed, down)
    BY <1>0, <2>1, ExitLeaves, Zenon
  <2> QED BY <1>0, <1>4, <2>1, <2>2, <2>3, Zenon
<1> QED BY <1>5, <1>6, <1>7, <1>8, <1>9, <1>10, <1>11

(***************************************************************************)
(* The clock, the link and the device.                                     *)
(***************************************************************************)
(* What puts the link back is still on its way when another frame has gone. *)
LEMMA OneLess ==
  ASSUME NEW q \in Seq(Orders), q # <<>>, Restoring(q), Head(q).kind # "unquiet"
  PROVE  Restoring(Tail(q))
<1>1. PICK i \in DOMAIN q : q[i].kind = "unquiet"
  BY DEF Restoring
<1>2. i # 1 /\ i \in 1..Len(q)
  BY <1>1
<1>3. i - 1 \in 1..Len(Tail(q)) /\ Tail(q)[i - 1] = q[i]
  BY <1>2
<1>4. i - 1 \in DOMAIN Tail(q)
  BY <1>3
<1> QED BY <1>1, <1>3, <1>4, Zenon DEF Restoring

(* What a step of the others owes it.                                      *)
LEMMA NetStep ==
  ASSUME OtaIInv, NEW e \in Devices, dev' = e, e.takes = dev.takes, dev.got <= e.got,
         InWindow(e.got, st), Heard(up', e), Carried(down', st), policy' \in BOOLEAN,
         link' \in BOOLEAN, ~link' => ~policy', PutBack(down) => PutBack(down)',
         UNCHANGED <<pc, Ota!setup, st, Ota!moves, outcome>>
  PROVE  OtaIInv'
<1>1. e.got <= Image /\ dev \in Devices
  BY DEF InWindow, OtaIInv, OtaTypes
<1>2. Backed(st, e) /\ (Claims => ImageHeld(e))
  BY <1>1, HeardGrows, Zenon DEF OtaIInv
<1>3. OtaTypes'
  BY Zenon DEF OtaIInv, OtaTypes, Ota!setup, Ota!moves
<1>4. Claims' = Claims /\ (pc' = "done" => PutBack(down)')
  BY Zenon DEF OtaIInv, Claims, Ota!setup, Ota!moves
<1>5. st' = st /\ cursor' = cursor
  BY DEF Ota!moves
<1> QED BY <1>2, <1>3, <1>4, <1>5, Zenon DEF OtaIInv

(* A status of this transfer that says what the device holds is truthful.  *)
LEMMA SaysTruth ==
  ASSUME NEW d \in Devices, NEW bytes \in Nat, bytes <= d.got,
         NEW state \in {"IDLE", "RECEIVING", "NEEDS_RESUME", "STAGED", "SUCCESS", "FAILED"},
         state \in {"STAGED", "SUCCESS"} => ImageHeld(d)
  PROVE  /\ Ota!Status(state, Ota!Mine, bytes) \in Told
         /\ Truthful(Ota!Status(state, Ota!Mine, bytes), d)
<1> DEFINE x == Ota!Status(state, Ota!Mine, bytes)
<1>1. x \in Told /\ x.bytes = bytes /\ x.state = state
  BY DEF Ota!Status, Told, Ota!Mine, Ota!Foreign, Ota!Unset
<1> QED BY <1>1, Zenon DEF Truthful

(* Nothing new is heard but what somebody else says, or that there is no   *)
(* session; the link loses and drops what it carries.                      *)
LEMMA LinkKeeps ==
  ASSUME OtaIInv, Ota!Tick \/ Ota!LinkDrops \/ Ota!Loses \/ Ota!Noise \/ UNCHANGED ota_v
  PROVE  OtaIInv'
<1>0. /\ dev \in Devices /\ Heard(up, dev) /\ Backed(st, dev) /\ Carried(down, st)
      /\ InWindow(dev.got, st) /\ policy \in BOOLEAN /\ link \in BOOLEAN /\ (~link => ~policy) /\ dev.got <= dev.got /\ dev.got \in Nat
  BY DEF OtaIInv, OtaTypes, Devices
<1>1. CASE Ota!Tick \/ UNCHANGED ota_v
  <2>1. /\ UNCHANGED <<dev, up, down, policy, link, restore_lost, pc, Ota!setup, st, Ota!moves, outcome>>
        /\ UNCHANGED quieted
    BY <1>1, Zenon DEF Ota!Tick, Ota!net, Ota!medium, ota_v, Ota!setup, Ota!moves
  <2>2. PutBack(down) => PutBack(down)'
    BY <2>1, Zenon DEF PutBack
  <2> QED BY <1>0, <2>1, <2>2, NetStep
<1>2. CASE Ota!LinkDrops
  <2>1. /\ policy' = FALSE /\ link' = FALSE
        /\ UNCHANGED <<dev, up, down, pc, Ota!setup, st, Ota!moves, outcome>>
    BY <1>2, Zenon DEF Ota!LinkDrops, Ota!host, Ota!medium
  <2>2. PutBack(down)'
    BY <2>1, Zenon DEF PutBack
  <2> QED BY <1>0, <2>1, <2>2, NetStep
<1>3. CASE Ota!Loses
  <2>1. /\ UNCHANGED <<dev, policy, link, pc, Ota!setup, st, Ota!moves, outcome>> /\ quieted' = quieted
        /\ \/ /\ down # <<>> /\ down' = Tail(down) /\ up' = up
              /\ restore_lost' = (restore_lost \/ Head(down).kind = "unquiet")
           \/ up # <<>> /\ up' = Tail(up) /\ down' = down /\ restore_lost' = restore_lost
    BY <1>3, Zenon DEF Ota!Loses, Ota!host, Ota!setup
  <2>2. Heard(up', dev) /\ Carried(down', st)
    BY <1>0, <2>1, HeardOne, CarriedOne
  <2>3. PutBack(down) => PutBack(down)'
    <3>1. CASE down # <<>> /\ down' = Tail(down) /\ restore_lost' = (restore_lost \/ Head(down).kind = "unquiet")
      BY <1>0, <2>1, <3>1, OneLess, Zenon DEF PutBack, Carried
    <3>2. CASE down' = down /\ restore_lost' = restore_lost
      BY <2>1, <3>2, Zenon DEF PutBack
    <3> QED BY <2>1, <3>1, <3>2
  <2> QED BY <1>0, <2>1, <2>2, <2>3, NetStep
<1>4. CASE Ota!Noise
  <2>1. /\ UNCHANGED <<dev, down, policy, link, restore_lost, pc, Ota!setup, st, Ota!moves, outcome>>
        /\ quieted' = quieted
        /\ \E x \in {Ota!Status("SUCCESS", Ota!Foreign, 0), Ota!Status("RECEIVING", Ota!Foreign, Image),
                     Ota!Status("IDLE", Ota!Unset, 0)} : up' = Append(up, x)
    BY <1>4, Zenon DEF Ota!Noise, Ota!host, Ota!setup
  <2>2. PICK x \in {Ota!Status("SUCCESS", Ota!Foreign, 0), Ota!Status("RECEIVING", Ota!Foreign, Image),
                    Ota!Status("IDLE", Ota!Unset, 0)} : up' = Append(up, x)
    BY <2>1
  <2>3. x \in Told /\ Truthful(x, dev)
    <3>1. x \in Told /\ (Ota!NotOurs(x) \/ (x.bytes = 0 /\ x.state = "IDLE"))
      <4>1. CASE x = Ota!Status("SUCCESS", Ota!Foreign, 0)
        <5>1. x \in Told /\ x.session = 2
          BY <4>1 DEF Ota!Status, Told, Ota!Mine, Ota!Foreign, Ota!Unset
        <5> QED BY <5>1 DEF Ota!NotOurs, Ota!Mine, Ota!Unset
      <4>2. CASE x = Ota!Status("RECEIVING", Ota!Foreign, Image)
        <5>1. x \in Told /\ x.session = 2
          BY <4>2, OtaSizes DEF Ota!Status, Told, Ota!Mine, Ota!Foreign, Ota!Unset
        <5> QED BY <5>1 DEF Ota!NotOurs, Ota!Mine, Ota!Unset
      <4>3. CASE x = Ota!Status("IDLE", Ota!Unset, 0)
        BY <4>3 DEF Ota!Status, Told, Ota!Mine, Ota!Foreign, Ota!Unset
      <4> QED BY <2>2, <4>1, <4>2, <4>3
    <3>2. x.bytes = 0 => x.bytes <= dev.got
      BY <1>0
    <3>3. x.state = "IDLE" => x.state \notin {"STAGED", "SUCCESS"}
      OBVIOUS
    <3> QED BY <3>1, <3>2, <3>3, Zenon DEF Truthful
  <2>4. Heard(up', dev)
    BY <1>0, <2>2, <2>3, HeardOne
  <2>5. PutBack(down) => PutBack(down)'
    BY <2>1, Zenon DEF PutBack
  <2> QED BY <1>0, <2>1, <2>4, <2>5, NetStep
<1> QED BY <1>1, <1>2, <1>3, <1>4

(* The device takes a message and answers what is so.                      *)
LEMMA DeviceAnswers == OtaIInv /\ Ota!Device => OtaIInv'
<1> SUFFICES ASSUME OtaIInv, Ota!Device PROVE OtaIInv'
  OBVIOUS
<1>0. /\ dev \in Devices /\ Heard(up, dev) /\ Backed(st, dev) /\ Carried(down, st)
      /\ InWindow(dev.got, st) /\ policy \in BOOLEAN /\ link \in BOOLEAN /\ (~link => ~policy) /\ dev.got <= dev.got /\ dev.got \in Nat
      /\ st.acked \in Nat
  BY DEF OtaIInv, OtaTypes, Devices, Backed, Folds
<1>1. /\ down # <<>> /\ down' = Tail(down) /\ quieted' = quieted
      /\ UNCHANGED <<link, restore_lost, pc, Ota!setup, st, Ota!moves, outcome>>
      /\ policy' = FALSE \/ (policy' = policy /\ Head(down).kind # "unquiet")
  BY DEF Ota!Device, Ota!DeviceQuery, Ota!DeviceBegin, Ota!DeviceChunk, Ota!DeviceCommit,
         Ota!DeviceAbort, Ota!DeviceUnquiet, Ota!Receives, Ota!host, Ota!medium, Ota!setup
<1>12. policy' \in BOOLEAN /\ (PutBack(down) => PutBack(down)') /\ (~link' => ~policy')
  <2>1. CASE policy' = FALSE
    BY <1>0, <1>1, <2>1, Zenon DEF PutBack
  <2>2. CASE policy' = policy /\ Head(down).kind # "unquiet"
    BY <1>0, <1>1, <2>2, OneLess, Zenon DEF PutBack, Carried
  <2> QED BY <1>1, <2>1, <2>2
<1>2. Carried(down', st) /\ Head(down) \in Orders /\ InWindow(Head(down).offset + Head(down).n, st)
  BY <1>0, <1>1, CarriedOne
<1>3. ASSUME NEW e \in Devices, dev' = e, e.takes = dev.takes, dev.got <= e.got, InWindow(e.got, st),
             up' = up \/ \E x \in Told : Truthful(x, e) /\ up' = Append(up, x)
      PROVE  OtaIInv'
  <2>1. e.got <= Image
    BY <1>3 DEF InWindow
  <2>2. Heard(up, e)
    BY <1>0, <1>3, <2>1, HeardGrows
  <2>3. Heard(up', e)
    BY <1>3, <2>2, HeardOne
  <2> QED BY <1>0, <1>1, <1>2, <1>3, <1>12, <2>3, NetStep
<1>4. ASSUME NEW p \in Phases, dev' = [dev EXCEPT !.phase = p],
             up' = up \/ \E x \in Told : Truthful(x, dev) /\ up' = Append(up, x)
      PROVE  OtaIInv'
  <2>1. dev' \in Devices /\ dev'.takes = dev.takes /\ dev'.got = dev.got
    BY <1>0, <1>4 DEF Devices
  <2>2. \A x : Truthful(x, dev) => Truthful(x, dev')
    BY <2>1, Zenon DEF Truthful, ImageHeld
  <2> QED BY <1>0, <1>3, <1>4, <2>1, <2>2
<1>5. ASSUME dev' = dev, up' = up \/ \E x \in Told : Truthful(x, dev) /\ up' = Append(up, x)
      PROVE  OtaIInv'
  BY <1>0, <1>3, <1>5
<1>6. ASSUME NEW code \in {"no_session", "verify_failed"},
             NEW x, x = [Ota!Status("FAILED", Ota!Mine, 0) EXCEPT !.code = code]
      PROVE  x \in Told /\ Truthful(x, dev)
  <2>1. x \in Told /\ x.bytes = 0 /\ x.state = "FAILED"
    BY <1>6 DEF Ota!Status, Told, Ota!Mine, Ota!Foreign, Ota!Unset
  <2>2. x.bytes <= dev.got /\ x.state \notin {"STAGED", "SUCCESS"}
    BY <1>0, <2>1
  <2> QED BY <2>1, <2>2, Zenon DEF Truthful
<1>7. CASE Ota!DeviceQuery
  <2>1. /\ dev' = dev
        /\ \E a \in Adverts : up' = Append(up, [Ota!Status("IDLE", Ota!Unset, 0) EXCEPT !.advert = a])
    BY <1>7, Zenon DEF Ota!DeviceQuery, Ota!Says, Ota!medium
  <2>2. PICK a \in Adverts : up' = Append(up, [Ota!Status("IDLE", Ota!Unset, 0) EXCEPT !.advert = a])
    BY <2>1
  <2> DEFINE x == [Ota!Status("IDLE", Ota!Unset, 0) EXCEPT !.advert = a]
  <2>3. x \in Told /\ x.bytes = 0 /\ x.state = "IDLE"
    BY OtaAssumption DEF Ota!Status, Told, Ota!Mine, Ota!Foreign, Ota!Unset
  <2>4. x.bytes <= dev.got /\ x.state \notin {"STAGED", "SUCCESS"}
    BY <1>0, <2>3
  <2>5. Truthful(x, dev)
    BY <2>4, Zenon DEF Truthful
  <2> QED BY <1>5, <2>1, <2>2, <2>3, <2>5
<1>8. CASE Ota!DeviceBegin
  <2>1. \/ dev.takes = "runs it" /\ dev' = dev
           /\ up' = Append(up, Ota!Status("SUCCESS", Ota!Mine, 0))
        \/ dev.takes = "reverts" /\ dev' = [dev EXCEPT !.phase = "staged"]
           /\ up' = Append(up, Ota!Status("STAGED", Ota!Mine, 0))
        \/ dev' = dev /\ up' = Append(up, Ota!Status("FAILED", Ota!Mine, 0))
        \/ dev' = [dev EXCEPT !.phase = "receiving"]
           /\ up' = Append(up, Ota!Status("RECEIVING", Ota!Mine, 0))
    BY <1>8 DEF Ota!DeviceBegin, Ota!Says2, Ota!Says
  <2>2. 0 \in Nat /\ 0 <= dev.got
    BY <1>0
  <2>3. dev.takes \in {"runs it", "reverts"} => ImageHeld(dev)
    BY Zenon DEF ImageHeld
  <2>4. \E x \in Told : Truthful(x, dev) /\ up' = Append(up, x)
    BY <1>0, <2>1, <2>2, <2>3, SaysTruth
  <2> QED BY <1>4, <1>5, <2>1, <2>4 DEF Phases
<1>9. CASE Ota!DeviceChunk
  <2> DEFINE m == Head(down)
             n == IF dev.got > m.offset + m.n THEN dev.got ELSE m.offset + m.n
  <2>1. \/ dev' = dev /\ up' = Append(up, [Ota!Status("FAILED", Ota!Mine, 0) EXCEPT !.code = "no_session"])
        \/ dev' = dev /\ up' = Append(up, Ota!Status("NEEDS_RESUME", Ota!Mine, dev.got))
        \/ dev' = [dev EXCEPT !.got = n] /\ up' = Append(up, Ota!Status("RECEIVING", Ota!Mine, dev'.got))
    BY <1>9 DEF Ota!DeviceChunk, Ota!Says2, Ota!Says, Ota!Most
  <2>2. CASE dev' = dev /\ up' = Append(up, [Ota!Status("FAILED", Ota!Mine, 0) EXCEPT !.code = "no_session"])
    BY <1>5, <1>6, <2>2
  <2>3. CASE dev' = dev /\ up' = Append(up, Ota!Status("NEEDS_RESUME", Ota!Mine, dev.got))
    BY <1>0, <1>5, <2>3, SaysTruth
  <2>4. CASE dev' = [dev EXCEPT !.got = n] /\ up' = Append(up, Ota!Status("RECEIVING", Ota!Mine, dev'.got))
    <3>1. n \in Nat /\ dev.got <= n /\ InWindow(n, st)
      BY <1>0, <1>2, OtaSizes DEF Orders, InWindow
    <3>2. dev' \in Devices /\ dev'.takes = dev.takes /\ dev'.got = n
      BY <1>0, <2>4, <3>1 DEF Devices
    <3>3. n <= dev'.got
      BY <3>1, <3>2
    <3>4. \E x \in Told : Truthful(x, dev') /\ up' = Append(up, x)
      BY <2>4, <3>1, <3>2, <3>3, SaysTruth
    <3> QED BY <1>3, <3>1, <3>2, <3>4
  <2> QED BY <2>1, <2>2, <2>3, <2>4
<1>10. CASE Ota!DeviceCommit
  <2>1. \/ dev' = dev /\ up' = Append(up, [Ota!Status("FAILED", Ota!Mine, 0) EXCEPT !.code = "no_session"])
        \/ dev' = dev /\ up' = Append(up, Ota!Status("NEEDS_RESUME", Ota!Mine, dev.got))
        \/ /\ ~(dev.got < Image) /\ dev' = [dev EXCEPT !.phase = "staged"]
           /\ up' = Append(up, Ota!Status("STAGED", Ota!Mine, dev.got))
        \/ /\ dev' = [dev EXCEPT !.phase = "idle"]
           /\ up' = Append(up, [Ota!Status("FAILED", Ota!Mine, 0) EXCEPT !.code = "verify_failed"])
    BY <1>10 DEF Ota!DeviceCommit, Ota!Says2, Ota!Says
  <2>2. ~(dev.got < Image) => ImageHeld(dev)
    <3>1. ~(dev.got < Image) => dev.got = Image
      BY <1>0, OtaSizes DEF InWindow
    <3> QED BY <3>1, Zenon DEF ImageHeld
  <2>3. \E x \in Told : Truthful(x, dev) /\ up' = Append(up, x)
    BY <1>0, <1>6, <2>1, <2>2, SaysTruth
  <2> QED BY <1>4, <1>5, <2>1, <2>3 DEF Phases
<1>11. CASE Ota!DeviceAbort
  <2>1. dev' = [dev EXCEPT !.phase = "idle"] /\ up' = up
    BY <1>11, Zenon DEF Ota!DeviceAbort
  <2> QED BY <1>4, <2>1 DEF Phases
<1>13. CASE Ota!DeviceUnquiet
  <2>1. dev' = dev /\ up' = up
    BY <1>13, Zenon DEF Ota!DeviceUnquiet, Ota!medium
  <2> QED BY <1>5, <2>1
<1> QED BY <1>7, <1>8, <1>9, <1>10, <1>11, <1>13 DEF Ota!Device

(* Every step of the relay, the clock, the link and the device.            *)
LEMMA OtaNext == OtaIInv /\ [Ota!Next]_ota_v => OtaIInv'
BY BeginKeeps, StreamKeeps, EndKeeps, LinkKeeps, DeviceAnswers, Zenon DEF Ota!Next, Ota!Relay

(* What the invariant says of the relay.                                   *)
LEMMA OtaSafe == OtaIInv => Ota!RelaySafe
<1> SUFFICES ASSUME OtaIInv PROVE Ota!RelaySafe
  OBVIOUS
<1>1. Ota!OkMeansHeld
  BY Zenon DEF OtaIInv, Claims, ImageHeld, Ota!OkMeansHeld
<1>2. Ota!WindowKept
  <2>1. /\ st.acked \in Nat /\ cursor \in Nat /\ st.acked <= dev.got /\ cursor <= st.acked + UpdateWindow
    BY DEF OtaIInv, OtaTypes, Backed, Folds, InWindow
  <2> QED BY <2>1, OtaSizes DEF Ota!WindowKept
<1>3. Ota!NotLeftDark
  BY Zenon DEF OtaIInv, Ota!NotLeftDark, PutBack, Restoring
<1> QED BY <1>1, <1>2, <1>3, Zenon DEF Ota!RelaySafe

(* The relay reports ok only for an image the device holds in full or has  *)
(* said it needs no transfer for, keeps what is unacked within its window  *)
(* and leaves no link dark: for any image, window, chunks, adverts, waits, *)
(* rewinds, losses and statuses of other senders.                          *)
THEOREM RelayIsSafe == MCSpec => []RelaySafe
<1> DEFINE Inv == focus = "ota" => OtaIInv
<1>1. MCInit => Inv
  BY OtaInit, Zenon DEF MCInit
<1>2. Inv /\ [MCNext]_vars => Inv'
  <2>1. [MCNext]_vars => focus' = focus /\ (focus = "ota" => [Ota!Next]_ota_v)
    BY Zenon DEF MCNext, vars
  <2> QED BY <2>1, OtaNext, Zenon
<1>3. Inv => RelaySafe
  BY OtaSafe, Zenon DEF RelaySafe
<1> QED BY <1>1, <1>2, <1>3, PTL DEF MCSpec

-----------------------------------------------------------------------------
(***************************************************************************)
(* The launcher's video (Transcode).  A worker's frames are ahead of what  *)
(* it has in hand, and that is ahead of what it has shown.  A reader that  *)
(* is not running leaves no worker its switch waits for; while no join has *)
(* given up, no worker was abandoned, and only the session the launcher is *)
(* in has a reader: it alone opens channels.                               *)
(***************************************************************************)
Workers ==
  [at : {"none", "waiting", "working", "abandoned", "exited"}, told : BOOLEAN, q : Seq(Nat),
   msg : Nat, skipping : BOOLEAN, shown : Nat]
Readers == [at : {"none", "reading", "closing", "done"}, stop : {"clear", "set", "seen"}, n : Nat]

(* A worker's frames, of a session that has read n rows.                   *)
Lined(w, n) ==
  /\ w \in Workers /\ Len(w.q) <= VideoQueue
  /\ \A i \in 1..Len(w.q) : w.msg < w.q[i] /\ w.q[i] <= n
  /\ \A i, j \in 1..Len(w.q) : i < j => w.q[i] < w.q[j]
  /\ w.shown <= w.msg /\ w.msg <= n
  /\ w.at \in {"working", "abandoned"} => w.shown < w.msg

VideoTypes ==
  /\ session \in 0..MaxSessions /\ launcher \in [at : {"idle", "joining"}, gaveUp : BOOLEAN]
  /\ launcher.at = "joining" => session < MaxSessions
  /\ bridges \in [Video!Sessions -> Readers]
  /\ decoders \in [Video!Sessions -> [Streams -> Workers]]
  /\ server \in [table : [Video!Ids -> Nat], last : [by : Nat, under : Nat]]
Backlogs == \A s \in Video!Sessions, v \in Streams : Lined(decoders[s][v], bridges[s].n)
Idle(s) == bridges[s].at \in {"none", "done"}
NoneLeft ==
  \A s \in Video!Sessions : Idle(s) => \A v \in Streams : decoders[s][v].at \notin {"waiting", "working"}
OneSession ==
  /\ \A s \in Video!Sessions : s # session => Idle(s)
  /\ \A s \in Video!Sessions, v \in Streams : decoders[s][v].at # "abandoned"
  /\ \A id \in Video!Ids : server.table[id] \in {0, session}
  /\ server.last.by = server.last.under

VideoIInv == VideoTypes /\ Backlogs /\ NoneLeft /\ (launcher.gaveUp \/ OneSession)

(* The sizes of MCHost, as the proofs use them.                            *)
LEMMA VideoSizes == VideoQueue \in Nat \ {0} /\ MaxSessions \in Nat /\ Video!Sessions = 1..MaxSessions
BY VideoAssumption DEF Video!Sessions

(* A worker that has not started has nothing to show.                      *)
LEMMA NoWorkerLined == Lined(Video!NoWorker, 0)
BY VideoSizes DEF Lined, Workers, Video!NoWorker

(* No session has started.                                                 *)
LEMMA VideoInit == Video!Init => VideoIInv
<1> SUFFICES ASSUME Video!Init PROVE VideoIInv
  OBVIOUS
<1>1. /\ session = 0 /\ launcher = [at |-> "idle", gaveUp |-> FALSE]
      /\ bridges = [s \in Video!Sessions |-> [at |-> "none", stop |-> "clear", n |-> 0]]
      /\ decoders = [s \in Video!Sessions |-> [v \in Streams |-> Video!NoWorker]]
      /\ server = [table |-> [id \in Video!Ids |-> 0], last |-> [by |-> 0, under |-> 0]]
  BY DEF Video!Init, Video!Reset
<1>2. Video!NoWorker \in Workers /\ Video!NoWorker.at = "none"
  BY DEF Workers, Video!NoWorker
<1> HIDE DEF Video!NoWorker
<1>3. VideoTypes
  BY <1>1, <1>2, VideoSizes DEF VideoTypes, Readers
<1>4. Backlogs
  BY <1>1, NoWorkerLined DEF Backlogs
<1>5. NoneLeft
  BY <1>1, <1>2 DEF NoneLeft
<1>6. OneSession
  BY <1>1, <1>2 DEF OneSession, Idle
<1> QED BY <1>3, <1>4, <1>5, <1>6 DEF VideoIInv

(* A frame is submitted, the oldest one dropped if the queue is full       *)
(* (VideoDecodeSink's queue).                                              *)
LEMMA SubmitLined ==
  ASSUME NEW n \in Nat, NEW w, Lined(w, n), NEW at \in {"waiting", w.at}
  PROVE  /\ Lined([w EXCEPT !.q = Video!Submit(@, n + 1), !.at = at], n + 1)
         /\ Lined(w, n + 1)
<1> DEFINE kept == IF Len(w.q) >= VideoQueue THEN Tail(w.q) ELSE w.q
           u == [w EXCEPT !.q = Video!Submit(@, n + 1), !.at = at]
<1>1. w \in Workers /\ w.q \in Seq(Nat) /\ Len(w.q) \in Nat /\ w.msg \in Nat /\ w.shown \in Nat
  BY DEF Lined, Workers
<1>2. /\ Len(w.q) <= VideoQueue /\ w.shown <= w.msg /\ w.msg <= n
      /\ \A i \in 1..Len(w.q) : w.msg < w.q[i] /\ w.q[i] <= n /\ w.q[i] \in Nat
      /\ \A i, j \in 1..Len(w.q) : i < j => w.q[i] < w.q[j]
      /\ w.at \in {"working", "abandoned"} => w.shown < w.msg
  BY <1>1 DEF Lined
<1>3. /\ kept \in Seq(Nat) /\ Len(kept) \in Nat /\ Len(kept) < VideoQueue
      /\ \A i \in 1..Len(kept) : w.msg < kept[i] /\ kept[i] <= n
      /\ \A i, j \in 1..Len(kept) : i < j => kept[i] < kept[j]
  <2>1. CASE Len(w.q) >= VideoQueue
    <3>1. kept = Tail(w.q) /\ w.q # <<>>
      BY <1>1, <2>1, VideoSizes
    <3>2. /\ kept \in Seq(Nat) /\ Len(kept) = Len(w.q) - 1
          /\ \A i \in 1..Len(kept) : kept[i] = w.q[i + 1] /\ i + 1 \in 1..Len(w.q)
      BY <1>1, <3>1, Tailed, Zenon
    <3> HIDE DEF kept
    <3>3. \A i, j \in 1..Len(kept) : i < j => kept[i] < kept[j]
      <4>1. ASSUME NEW i \in 1..Len(kept), NEW j \in 1..Len(kept), i < j PROVE kept[i] < kept[j]
        <5>1. i + 1 \in 1..Len(w.q) /\ j + 1 \in 1..Len(w.q) /\ i + 1 < j + 1
          BY <3>2, <4>1
        <5>2. w.q[i + 1] < w.q[j + 1]
          BY <1>2, <5>1, Zenon
        <5> QED BY <3>2, <5>2, Zenon
      <4> QED BY <4>1
    <3>4. \A i \in 1..Len(kept) : w.msg < kept[i] /\ kept[i] <= n
      BY <1>2, <3>2, Zenon
    <3>5. Len(kept) \in Nat /\ Len(kept) < VideoQueue
      BY <1>1, <1>2, <2>1, <3>2, VideoSizes
    <3> QED BY <3>2, <3>3, <3>4, <3>5
  <2>2. CASE ~(Len(w.q) >= VideoQueue)
    BY <1>1, <1>2, <2>2, VideoSizes
  <2> QED BY <2>1, <2>2
<1>4. /\ u \in Workers /\ u.q = Append(kept, n + 1) /\ u.msg = w.msg /\ u.shown = w.shown /\ u.at = at
  <2>1. Video!Submit(w.q, n + 1) = Append(kept, n + 1)
    BY DEF Video!Submit
  <2> HIDE DEF kept
  <2>2. Append(kept, n + 1) \in Seq(Nat)
    BY <1>3
  <2>3. u = [w EXCEPT !.q = Append(kept, n + 1), !.at = at]
    BY <2>1, Zenon
  <2>4. at \in {"none", "waiting", "working", "abandoned", "exited"}
    BY <1>1 DEF Workers
  <2> HIDE DEF u
  <2> QED BY <1>1, <2>2, <2>3, <2>4 DEF Workers
<1> HIDE DEF kept, u
<1>5. /\ Append(kept, n + 1) \in Seq(Nat) /\ Len(Append(kept, n + 1)) = Len(kept) + 1
      /\ Append(kept, n + 1)[Len(kept) + 1] = n + 1
      /\ \A i \in 1..Len(kept) : Append(kept, n + 1)[i] = kept[i] /\ kept[i] \in Nat
      /\ \A i \in 1..(Len(kept) + 1) : i \in 1..Len(kept) \/ i = Len(kept) + 1
  BY <1>3, Appended
<1>6. \A i \in 1..Len(u.q) : u.msg < u.q[i] /\ u.q[i] <= n + 1
  BY <1>1, <1>2, <1>3, <1>4, <1>5
<1>7. ASSUME NEW i \in 1..Len(u.q), NEW j \in 1..Len(u.q), i < j PROVE u.q[i] < u.q[j]
  <2>1. i \in 1..Len(kept)
    BY <1>3, <1>4, <1>5, <1>7
  <2> QED BY <1>3, <1>4, <1>5, <1>7, <2>1
<1>8. Lined(u, n + 1)
  BY <1>1, <1>2, <1>3, <1>4, <1>5, <1>6, <1>7, VideoSizes DEF Lined
<1>9. Lined(w, n + 1)
  BY <1>1, <1>2 DEF Lined
<1> QED BY <1>8, <1>9 DEF u

(* A worker takes the oldest frame.                                        *)
LEMMA TakeLined ==
  ASSUME NEW n \in Nat, NEW w, Lined(w, n), w.q # <<>>
  PROVE  Lined([w EXCEPT !.at = "working", !.msg = Head(w.q), !.q = Tail(w.q)], n)
<1> DEFINE u == [w EXCEPT !.at = "working", !.msg = Head(w.q), !.q = Tail(w.q)]
<1>1. w \in Workers /\ w.q \in Seq(Nat) /\ Len(w.q) \in Nat /\ w.msg \in Nat /\ w.shown \in Nat
  BY DEF Lined, Workers
<1>2. /\ Len(w.q) <= VideoQueue /\ w.shown <= w.msg
      /\ \A i \in 1..Len(w.q) : w.msg < w.q[i] /\ w.q[i] <= n /\ w.q[i] \in Nat
      /\ \A i, j \in 1..Len(w.q) : i < j => w.q[i] < w.q[j]
  BY <1>1 DEF Lined
<1>3. /\ Tail(w.q) \in Seq(Nat) /\ Len(w.q) \in Nat \ {0} /\ Len(Tail(w.q)) = Len(w.q) - 1
      /\ Head(w.q) = w.q[1] /\ w.q[1] \in Nat
      /\ \A i \in 1..Len(Tail(w.q)) : Tail(w.q)[i] = w.q[i + 1] /\ i + 1 \in 1..Len(w.q)
  BY <1>1, Tailed
<1>4. u \in Workers /\ u.q = Tail(w.q) /\ u.msg = w.q[1] /\ u.shown = w.shown
  BY <1>1, <1>3 DEF Workers
<1> HIDE DEF u
<1>5. 1 \in 1..Len(w.q) /\ w.msg < w.q[1] /\ w.q[1] <= n
  BY <1>2, <1>3
<1>6. ASSUME NEW i \in 1..Len(u.q) PROVE u.msg < u.q[i] /\ u.q[i] <= n
  <2>1. i + 1 \in 1..Len(w.q) /\ 1 < i + 1 /\ u.q[i] = w.q[i + 1]
    BY <1>3, <1>4, <1>6
  <2> QED BY <1>2, <1>4, <1>5, <2>1
<1>7. ASSUME NEW i \in 1..Len(u.q), NEW j \in 1..Len(u.q), i < j PROVE u.q[i] < u.q[j]
  <2>1. i + 1 \in 1..Len(w.q) /\ j + 1 \in 1..Len(w.q) /\ i + 1 < j + 1
        /\ u.q[i] = w.q[i + 1] /\ u.q[j] = w.q[j + 1]
    BY <1>3, <1>4, <1>7
  <2> QED BY <1>2, <2>1
<1>8. Lined(u, n)
  BY <1>1, <1>2, <1>3, <1>4, <1>5, <1>6, <1>7, VideoSizes DEF Lined
<1> QED BY <1>8 DEF u

(* A frame in hand is decoded: shown or not, in hand no more; and a worker *)
(* changes hands with nothing else changed.                                *)
LEMMA WorkLined ==
  ASSUME NEW n \in Nat, NEW w, Lined(w, n)
  PROVE  /\ Lined([w EXCEPT !.told = TRUE], n) /\ Lined([w EXCEPT !.at = "exited"], n)
         /\ w.at = "working" => Lined([w EXCEPT !.at = "abandoned"], n)
         /\ \A lag : \A at \in {"exited", "waiting"} :
              LET p == [Video!Pace(w, lag) EXCEPT !.at = at]
              IN Lined(p, n) /\ Lined([p EXCEPT !.shown = w.msg], n) /\ p.at = at
<1>1. w \in Workers /\ w.q \in Seq(Nat) /\ Len(w.q) \in Nat /\ w.msg \in Nat /\ w.shown \in Nat
  BY DEF Lined, Workers
<1>2. /\ Len(w.q) <= VideoQueue /\ w.shown <= w.msg /\ w.msg <= n
      /\ \A i \in 1..Len(w.q) : w.msg < w.q[i] /\ w.q[i] <= n
      /\ \A i, j \in 1..Len(w.q) : i < j => w.q[i] < w.q[j]
      /\ w.at \in {"working", "abandoned"} => w.shown < w.msg
  BY DEF Lined
<1>3. ASSUME NEW u \in Workers, u.q = w.q, u.msg = w.msg, u.shown \in {w.shown, w.msg},
             u.at \in {"working", "abandoned"} => u.shown < u.msg
      PROVE  Lined(u, n)
  BY <1>1, <1>2, <1>3 DEF Lined
<1>4. Lined([w EXCEPT !.told = TRUE], n)
  <2> DEFINE u == [w EXCEPT !.told = TRUE]
  <2>1. u \in Workers /\ u.q = w.q /\ u.msg = w.msg /\ u.shown = w.shown /\ u.at = w.at
    BY <1>1 DEF Workers
  <2> QED BY <1>2, <1>3, <2>1
<1>5. Lined([w EXCEPT !.at = "exited"], n)
  <2> DEFINE u == [w EXCEPT !.at = "exited"]
  <2>1. u \in Workers /\ u.q = w.q /\ u.msg = w.msg /\ u.shown = w.shown /\ u.at = "exited"
    BY <1>1 DEF Workers
  <2> QED BY <1>2, <1>3, <2>1
<1>6. ASSUME w.at = "working" PROVE Lined([w EXCEPT !.at = "abandoned"], n)
  <2> DEFINE u == [w EXCEPT !.at = "abandoned"]
  <2>1. u \in Workers /\ u.q = w.q /\ u.msg = w.msg /\ u.shown = w.shown
    BY <1>1 DEF Workers
  <2> QED BY <1>2, <1>3, <1>6, <2>1
<1>7. ASSUME NEW lag, NEW at \in {"exited", "waiting"}
      PROVE  LET p == [Video!Pace(w, lag) EXCEPT !.at = at]
             IN Lined(p, n) /\ Lined([p EXCEPT !.shown = w.msg], n) /\ p.at = at
  <2> DEFINE p == [Video!Pace(w, lag) EXCEPT !.at = at]
             u == [p EXCEPT !.shown = w.msg]
  <2>1. p \in Workers /\ p.q = w.q /\ p.msg = w.msg /\ p.shown = w.shown /\ p.at = at
    BY <1>1 DEF Workers, Video!Pace
  <2>2. u \in Workers /\ u.q = w.q /\ u.msg = w.msg /\ u.shown = w.msg /\ u.at = at
    <3> HIDE DEF p
    <3> QED BY <1>1, <2>1 DEF Workers
  <2> HIDE DEF p, u
  <2>3. Lined(p, n) /\ Lined(u, n)
    BY <1>3, <2>1, <2>2
  <2> QED BY <2>1, <2>3 DEF p, u
<1> QED BY <1>4, <1>5, <1>6, <1>7, Zenon

(* What the session the launcher is in publishes goes out under a channel  *)
(* of its own (FoxgloveSink.write).                                        *)
LEMMA PublishKeeps ==
  ASSUME VideoTypes, NEW s \in Video!Sessions, NEW id \in Video!Ids, Video!Publish(id, s)
  PROVE  /\ server' \in [table : [Video!Ids -> Nat], last : [by : Nat, under : Nat]]
         /\ (\A k \in Video!Ids : server.table[k] \in {0, session}) /\ s = session =>
              /\ \A k \in Video!Ids : server'.table[k] \in {0, session}
              /\ server'.last.by = server'.last.under
<1> DEFINE table == IF server.table[id] = 0 THEN [server.table EXCEPT ![id] = s] ELSE server.table
<1>1. server' = [table |-> table, last |-> [by |-> s, under |-> table[id]]]
  BY DEF Video!Publish
<1>2. server.table \in [Video!Ids -> Nat] /\ s \in Nat
  BY VideoSizes DEF VideoTypes
<1>3. table \in [Video!Ids -> Nat]
  BY <1>2
<1>4. ASSUME \A k \in Video!Ids : server.table[k] \in {0, session}, s = session
      PROVE  table[id] = s /\ \A k \in Video!Ids : table[k] \in {0, session}
  BY <1>2, <1>4
<1> HIDE DEF table
<1>5. server'.table = table /\ server'.last.by = s /\ server'.last.under = table[id]
  BY <1>1
<1>6. server' \in [table : [Video!Ids -> Nat], last : [by : Nat, under : Nat]]
  BY <1>1, <1>2, <1>3
<1> QED BY <1>4, <1>5, <1>6

(* A worker steps: its frames stay lined up, it starts no work for a       *)
(* reader that is not running, and is abandoned by a launcher that gave up.*)
LEMMA WorkerSteps ==
  ASSUME VideoIInv, NEW s \in Video!Sessions, NEW v \in Streams, NEW u,
         decoders' = [decoders EXCEPT ![s][v] = u], Lined(u, bridges[s].n),
         u.at \in {"waiting", "working"} => ~Idle(s),
         u.at = "abandoned" => launcher'.gaveUp,
         UNCHANGED <<session, bridges>>, launcher'.at = launcher.at, launcher' \in [at : {"idle", "joining"}, gaveUp : BOOLEAN],
         launcher.gaveUp => launcher'.gaveUp,
         server' = server \/ \E id \in Video!Ids : Video!Publish(id, s) /\ decoders[s][v].at \in {"working", "abandoned"}
  PROVE  VideoIInv'
<1>1. VideoTypes /\ Backlogs /\ NoneLeft /\ (launcher.gaveUp \/ OneSession)
  BY DEF VideoIInv
<1>2. /\ decoders \in [Video!Sessions -> [Streams -> Workers]]
      /\ u \in Workers
  BY <1>1 DEF VideoTypes, Lined
<1>3. /\ decoders' \in [Video!Sessions -> [Streams -> Workers]]
      /\ decoders'[s][v] = u
      /\ \A r \in Video!Sessions, w \in Streams :
           r # s \/ w # v => decoders'[r][w] = decoders[r][w]
  BY <1>2
<1>4. server' \in [table : [Video!Ids -> Nat], last : [by : Nat, under : Nat]]
  BY <1>1, PublishKeeps DEF VideoTypes
<1>5. VideoTypes'
  BY <1>1, <1>3, <1>4 DEF VideoTypes
<1>6. Backlogs'
  BY <1>1, <1>3 DEF Backlogs
<1>7. NoneLeft'
  BY <1>1, <1>3 DEF NoneLeft, Idle
<1>8. ASSUME ~launcher'.gaveUp PROVE OneSession'
  <2>1. OneSession /\ u.at # "abandoned"
    BY <1>1, <1>8, Zenon
  <2>2. \A r \in Video!Sessions : r # session => Idle(r)'
    BY <2>1 DEF OneSession, Idle
  <2>3. \A r \in Video!Sessions, w \in Streams : decoders'[r][w].at # "abandoned"
    BY <1>3, <2>1 DEF OneSession
  <2>4. /\ \A id \in Video!Ids : server'.table[id] \in {0, session}
        /\ server'.last.by = server'.last.under
    <3>1. CASE server' = server
      BY <2>1, <3>1 DEF OneSession
    <3>2. ASSUME NEW id \in Video!Ids, Video!Publish(id, s), decoders[s][v].at \in {"working", "abandoned"}
          PROVE  /\ \A k \in Video!Ids : server'.table[k] \in {0, session}
                 /\ server'.last.by = server'.last.under
      <4>1. decoders[s][v].at = "working"
        BY <2>1, <3>2 DEF OneSession
      <4>2. s = session
        BY <1>1, <2>1, <4>1 DEF OneSession, NoneLeft
      <4> QED BY <1>1, <2>1, <3>2, <4>2, PublishKeeps DEF OneSession
    <3> QED BY <3>1, <3>2
  <2> QED BY <2>2, <2>3, <2>4 DEF OneSession
<1> QED BY <1>5, <1>6, <1>7, <1>8 DEF VideoIInv

(* A reader steps: the launcher's session is where it was, and the workers *)
(* are those it had.                                                       *)
LEMMA ReaderSteps ==
  ASSUME VideoIInv, NEW s \in Video!Sessions, NEW r \in Readers, bridges' = [bridges EXCEPT ![s] = r],
         UNCHANGED <<session, launcher>>,
         decoders' \in [Video!Sessions -> [Streams -> Workers]],
         \A t \in Video!Sessions, v \in Streams :
           /\ Lined(decoders'[t][v], bridges'[t].n)
           /\ t # s => decoders'[t][v] = decoders[t][v]
           /\ decoders'[t][v].at = "abandoned" => decoders[t][v].at = "abandoned",
         Idle(s) => r.at \in {"none", "done"},
         r.at \in {"none", "done"} => \A v \in Streams : decoders'[s][v].at \notin {"waiting", "working"},
         server' = server \/ \E id \in Video!Ids : Video!Publish(id, s) /\ ~Idle(s)
  PROVE  VideoIInv'
<1>1. VideoTypes /\ NoneLeft /\ (launcher.gaveUp \/ OneSession)
  BY DEF VideoIInv
<1>2. /\ bridges' \in [Video!Sessions -> Readers] /\ bridges'[s] = r
      /\ \A t \in Video!Sessions : t # s => bridges'[t] = bridges[t]
  BY <1>1 DEF VideoTypes
<1>3. server' \in [table : [Video!Ids -> Nat], last : [by : Nat, under : Nat]]
  BY <1>1, PublishKeeps DEF VideoTypes
<1>4. VideoTypes'
  BY <1>1, <1>2, <1>3 DEF VideoTypes
<1>5. Backlogs'
  BY DEF Backlogs
<1>6. NoneLeft'
  BY <1>1, <1>2 DEF NoneLeft, Idle
<1>7. ASSUME OneSession PROVE OneSession'
  <2>1. \A t \in Video!Sessions : t # session => Idle(t)'
    BY <1>2, <1>7 DEF OneSession, Idle
  <2>2. \A t \in Video!Sessions, v \in Streams : decoders'[t][v].at # "abandoned"
    BY <1>7 DEF OneSession
  <2>3. /\ \A id \in Video!Ids : server'.table[id] \in {0, session}
        /\ server'.last.by = server'.last.under
    <3>1. CASE server' = server
      BY <1>7, <3>1 DEF OneSession
    <3>2. ASSUME NEW id \in Video!Ids, Video!Publish(id, s), ~Idle(s)
          PROVE  /\ \A k \in Video!Ids : server'.table[k] \in {0, session}
                 /\ server'.last.by = server'.last.under
      <4>1. s = session
        BY <1>7, <3>2 DEF OneSession
      <4> QED BY <1>1, <1>7, <3>2, <4>1, PublishKeeps DEF OneSession
    <3> QED BY <3>1, <3>2
  <2> QED BY <2>1, <2>2, <2>3 DEF OneSession
<1> QED BY <1>1, <1>4, <1>5, <1>6, <1>7 DEF VideoIInv

(* A reader routes a row, ends, and stops its workers (run_bridge,         *)
(* VideoDecodeSink.close).                                                 *)
LEMMA ReaderKeeps ==
  ASSUME VideoIInv, NEW s \in Video!Sessions, Video!Reader(s) PROVE VideoIInv'
<1>0. /\ VideoTypes /\ Backlogs /\ NoneLeft
      /\ bridges[s] \in Readers /\ bridges[s].n \in Nat
      /\ decoders \in [Video!Sessions -> [Streams -> Workers]]
      /\ bridges \in [Video!Sessions -> Readers] /\ launcher \in [at : {"idle", "joining"}, gaveUp : BOOLEAN]
  BY DEF VideoIInv, VideoTypes, Readers
<1>1. \A t \in Video!Sessions, v \in Streams : Lined(decoders[t][v], bridges[t].n)
  BY <1>0 DEF Backlogs
<1>2. CASE Video!Route(s)
  <2>1. PICK v \in Streams :
          /\ bridges[s].at = "reading"
          /\ bridges' = [bridges EXCEPT ![s].n = bridges[s].n + 1,
                                        ![s].stop = IF @ = "set" THEN "seen" ELSE @]
          /\ \/ Video!Publish(<<"raw", v>>, s) /\ decoders' = decoders
             \/ /\ decoders' = [decoders EXCEPT ![s][v].q = Video!Submit(@, bridges[s].n + 1),
                                                ![s][v].at = IF @ = "none" THEN "waiting" ELSE @]
                /\ server' = server
          /\ UNCHANGED <<session, launcher>>
    BY <1>2, Zenon DEF Video!Route
  <2> DEFINE n == bridges[s].n + 1
             halt == IF bridges[s].stop = "set" THEN "seen" ELSE bridges[s].stop
             r == [bridges[s] EXCEPT !.n = n, !.stop = halt]
             w == decoders[s][v]
             at == IF w.at = "none" THEN "waiting" ELSE w.at
             u == [w EXCEPT !.q = Video!Submit(@, n), !.at = at]
  <2>2. r \in Readers /\ r.n = n /\ r.at = "reading"
    <3>1. n \in Nat /\ halt \in {"clear", "set", "seen"}
      BY <1>0 DEF Readers
    <3> HIDE DEF n, halt
    <3> QED BY <1>0, <2>1, <3>1 DEF Readers
  <2>3. bridges' = [bridges EXCEPT ![s] = r]
    BY <1>0, <2>1
  <2>4. ~Idle(s)
    BY <2>1 DEF Idle
  <2>5. /\ Lined(u, n) /\ Lined(w, n) /\ \A x \in Streams : Lined(decoders[s][x], n)
    BY <1>0, <1>1, SubmitLined
  <2>6. u.at = "abandoned" => w.at = "abandoned"
    <3>1. w \in Workers
      BY <1>0
    <3> QED BY <3>1 DEF Workers
  <2> HIDE DEF r, n, u
  <2>7. CASE Video!Publish(<<"raw", v>>, s) /\ decoders' = decoders
    <3>1. <<"raw", v>> \in Video!Ids
      BY DEF Video!Ids
    <3>2. \A t \in Video!Sessions, x \in Streams : Lined(decoders'[t][x], bridges'[t].n)
      BY <1>0, <1>1, <2>2, <2>3, <2>5, <2>7
    <3>3. \A t \in Video!Sessions, x \in Streams :
            /\ Lined(decoders'[t][x], bridges'[t].n)
            /\ t # s => decoders'[t][x] = decoders[t][x]
            /\ decoders'[t][x].at = "abandoned" => decoders[t][x].at = "abandoned"
      BY <2>7, <3>2, Zenon
    <3>4. decoders' \in [Video!Sessions -> [Streams -> Workers]]
      BY <1>0, <2>7
    <3>5. r.at \notin {"none", "done"}
      BY <2>2
    <3>6. UNCHANGED <<session, launcher>>
      BY <2>1
    <3>7. Idle(s) => r.at \in {"none", "done"}
      BY <2>4, Zenon
    <3>8. r.at \in {"none", "done"} => \A x \in Streams : decoders'[s][x].at \notin {"waiting", "working"}
      BY <3>5, Zenon
    <3>9. server' = server \/ \E id \in Video!Ids : Video!Publish(id, s) /\ ~Idle(s)
      BY <2>4, <2>7, <3>1, Zenon
    <3>10. r \in Readers
      BY <2>2
    <3> QED BY <2>3, <3>3, <3>4, <3>6, <3>7, <3>8, <3>9, <3>10, ReaderSteps, Zenon
  <2>8. CASE decoders' = [decoders EXCEPT ![s][v] = u] /\ server' = server
    <3>1. u \in Workers
      BY <2>5 DEF Lined
    <3>2. /\ decoders' \in [Video!Sessions -> [Streams -> Workers]]
          /\ decoders'[s][v] = u
          /\ \A t \in Video!Sessions, x \in Streams : t # s \/ x # v => decoders'[t][x] = decoders[t][x]
      BY <1>0, <2>8, <3>1
    <3>3. \A t \in Video!Sessions, x \in Streams : Lined(decoders'[t][x], bridges'[t].n)
      BY <1>0, <1>1, <2>2, <2>3, <2>5, <3>2
    <3>4. \A t \in Video!Sessions, x \in Streams :
            /\ Lined(decoders'[t][x], bridges'[t].n)
            /\ t # s => decoders'[t][x] = decoders[t][x]
            /\ decoders'[t][x].at = "abandoned" => decoders[t][x].at = "abandoned"
      BY <2>6, <3>2, <3>3, Zenon
    <3>5. r.at \notin {"none", "done"}
      BY <2>2
    <3>6. UNCHANGED <<session, launcher>>
      BY <2>1
    <3>7. Idle(s) => r.at \in {"none", "done"}
      BY <2>4, Zenon
    <3>8. r.at \in {"none", "done"} => \A x \in Streams : decoders'[s][x].at \notin {"waiting", "working"}
      BY <3>5, Zenon
    <3>9. r \in Readers /\ server' = server
      BY <2>2, <2>8
    <3> QED BY <2>3, <3>2, <3>4, <3>6, <3>7, <3>8, <3>9, ReaderSteps, Zenon
  <2>9. (decoders' = [decoders EXCEPT ![s][v].q = Video!Submit(@, bridges[s].n + 1),
                                      ![s][v].at = IF @ = "none" THEN "waiting" ELSE @]) =>
           decoders' = [decoders EXCEPT ![s][v] = u]
    BY <1>0 DEF u, n
  <2> QED BY <2>1, <2>7, <2>8, <2>9
<1>3. ASSUME NEW at \in {"closing", "done"}, bridges[s].at \in {"reading", "closing"},
             at = "done" => \A v \in Streams : decoders[s][v].at \notin {"waiting", "working"},
             bridges' = [bridges EXCEPT ![s].at = at], UNCHANGED <<session, launcher, decoders, server>>
      PROVE  VideoIInv'
  <2> DEFINE r == [bridges[s] EXCEPT !.at = at]
  <2>1. r \in Readers /\ r.n = bridges[s].n /\ r.at = at /\ bridges' = [bridges EXCEPT ![s] = r]
    BY <1>0, <1>3 DEF Readers
  <2>2. ~Idle(s)
    BY <1>3 DEF Idle
  <2> HIDE DEF r
  <2>3. \A t \in Video!Sessions, x \in Streams : Lined(decoders'[t][x], bridges'[t].n)
    BY <1>0, <1>1, <1>3, <2>1
  <2> QED BY <1>0, <1>3, <2>1, <2>2, <2>3, ReaderSteps
<1>4. CASE Video!ReaderEnds(s)
  BY <1>3, <1>4 DEF Video!ReaderEnds
<1>5. CASE Video!ReaderDone(s)
  BY <1>3, <1>5 DEF Video!ReaderDone, Video!Running
<1>6. CASE Video!TellWorker(s)
  <2>1. PICK v \in Video!Running(s) : decoders' = [decoders EXCEPT ![s][v].told = TRUE]
    BY <1>6 DEF Video!TellWorker
  <2> DEFINE w == decoders[s][v]
             u == [w EXCEPT !.told = TRUE]
  <2>2. v \in Streams /\ bridges[s].at = "closing" /\ UNCHANGED <<session, launcher, bridges, server>>
    BY <1>6 DEF Video!TellWorker, Video!Running
  <2>3. w \in Workers /\ w.at \in {"waiting", "working"} /\ decoders' = [decoders EXCEPT ![s][v] = u] /\ u.at = w.at
    BY <1>0, <2>1, <2>2 DEF Video!Running, Workers
  <2>4. Lined(u, bridges[s].n) /\ ~Idle(s)
    BY <1>0, <1>1, <2>2, WorkLined DEF Idle
  <2> HIDE DEF u
  <2> QED BY <1>0, <2>2, <2>3, <2>4, WorkerSteps
<1>7. CASE Video!AbandonWorker(s)
  <2>1. PICK v \in Streams : decoders[s][v].at = "working" /\ decoders' = [decoders EXCEPT ![s][v].at = "abandoned"]
    BY <1>7 DEF Video!AbandonWorker
  <2> DEFINE w == decoders[s][v]
             u == [w EXCEPT !.at = "abandoned"]
  <2>2. launcher' = [launcher EXCEPT !.gaveUp = TRUE] /\ UNCHANGED <<session, bridges, server>>
    BY <1>7 DEF Video!AbandonWorker
  <2>3. w \in Workers /\ decoders' = [decoders EXCEPT ![s][v] = u] /\ u.at = "abandoned"
    BY <1>0, <2>1 DEF Workers
  <2>4. Lined(u, bridges[s].n)
    BY <1>0, <1>1, <2>1, WorkLined
  <2>5. /\ launcher'.at = launcher.at /\ launcher' \in [at : {"idle", "joining"}, gaveUp : BOOLEAN]
        /\ launcher'.gaveUp = TRUE
    BY <1>0, <2>2
  <2> HIDE DEF u
  <2> QED BY <2>2, <2>3, <2>4, <2>5, WorkerSteps
<1> QED BY <1>2, <1>4, <1>5, <1>6, <1>7 DEF Video!Reader

(* A worker takes a frame, or is done with one (VideoDecodeSink._run).     *)
LEMMA WorkKeeps ==
  ASSUME VideoIInv, NEW s \in Video!Sessions, NEW v \in Streams, Video!Work(s, v)
  PROVE  VideoIInv'
<1> DEFINE w == decoders[s][v]
           n == bridges[s].n
<1>0. /\ VideoTypes /\ NoneLeft /\ n \in Nat /\ w \in Workers
      /\ Lined(w, n)
      /\ decoders \in [Video!Sessions -> [Streams -> Workers]]
      /\ launcher \in [at : {"idle", "joining"}, gaveUp : BOOLEAN]
  BY DEF VideoIInv, VideoTypes, Readers, Backlogs
<1>1. UNCHANGED <<session, launcher, bridges>>
  BY Zenon DEF Video!Work, Video!Take, Video!Process
<1>2. w.at \in {"waiting", "working"} => ~Idle(s)
  BY <1>0 DEF NoneLeft
<1>3. CASE Video!Take(s, v)
  <2>1. w.at = "waiting" /\ server' = server
    BY <1>3 DEF Video!Take
  <2>2. CASE decoders' = [decoders EXCEPT ![s][v].at = "exited"]
    <3> DEFINE u == [w EXCEPT !.at = "exited"]
    <3>1. decoders' = [decoders EXCEPT ![s][v] = u] /\ u.at = "exited"
      BY <1>0, <2>2 DEF Workers
    <3>2. Lined(u, n)
      BY <1>0, WorkLined
    <3> HIDE DEF u, n
    <3>3. Lined(u, bridges[s].n)
      BY <3>2 DEF n
    <3> QED BY <1>0, <1>1, <2>1, <3>1, <3>3, WorkerSteps
  <2>3. CASE /\ w.q # <<>>
             /\ decoders' = [decoders EXCEPT ![s][v].at = "working", ![s][v].msg = Head(w.q),
                                             ![s][v].q = Tail(w.q)]
    <3> DEFINE u == [w EXCEPT !.at = "working", !.msg = Head(w.q), !.q = Tail(w.q)]
    <3>1. decoders' = [decoders EXCEPT ![s][v] = u]
      BY <1>0, <2>3
    <3>2. Lined(u, n)
      BY <1>0, <2>3, TakeLined
    <3>3. u.at = "working"
      BY <1>0 DEF Workers
    <3> HIDE DEF u, n
    <3>4. Lined(u, bridges[s].n)
      BY <3>2 DEF n
    <3> QED BY <1>0, <1>1, <1>2, <2>1, <3>1, <3>3, <3>4, WorkerSteps
  <2> QED BY <1>3, <2>2, <2>3 DEF Video!Take
<1>4. CASE Video!Process(s, v)
  <2>1. PICK lag \in Video!Lags :
          LET p == [Video!Pace(w, lag) EXCEPT !.at = IF w.at = "abandoned" THEN "exited" ELSE "waiting"]
          IN \/ /\ decoders' = [decoders EXCEPT ![s][v] = [p EXCEPT !.shown = w.msg]]
                /\ Video!Publish(<<"jpeg", v>>, s)
             \/ decoders' = [decoders EXCEPT ![s][v] = p] /\ server' = server
    BY <1>4, Zenon DEF Video!Process
  <2> DEFINE at == IF w.at = "abandoned" THEN "exited" ELSE "waiting"
             p == [Video!Pace(w, lag) EXCEPT !.at = at]
             u == [p EXCEPT !.shown = w.msg]
  <2>2. w.at \in {"working", "abandoned"} /\ at \in {"exited", "waiting"}
        /\ (at = "waiting" => ~Idle(s))
    BY <1>2, <1>4 DEF Video!Process
  <2>3. Lined(p, n) /\ Lined(u, n) /\ p.at = at
    <3>1. /\ at \in {"exited", "waiting"}
          /\ \A l : \A a \in {"exited", "waiting"} :
               LET x == [Video!Pace(w, l) EXCEPT !.at = a]
               IN Lined(x, n) /\ Lined([x EXCEPT !.shown = w.msg], n) /\ x.at = a
      BY <1>0, <2>2, WorkLined, Zenon
    <3> HIDE DEF at, w, n
    <3> QED BY <3>1, Zenon
  <2>4. u.at = at
    <3>1. p \in Workers
      BY <2>3 DEF Lined
    <3> HIDE DEF p
    <3> QED BY <2>3, <3>1 DEF Workers
  <2>5. /\ \/ decoders' = [decoders EXCEPT ![s][v] = u] /\ Video!Publish(<<"jpeg", v>>, s)
           \/ decoders' = [decoders EXCEPT ![s][v] = p] /\ server' = server
        /\ <<"jpeg", v>> \in Video!Ids
    BY <2>1 DEF Video!Ids
  <2> HIDE DEF u, p, at, n
  <2>6. Lined(p, bridges[s].n) /\ Lined(u, bridges[s].n)
    BY <2>3 DEF n
  <2>7. at \in {"waiting", "working"} => ~Idle(s)
    BY <2>2
  <2>8. at # "abandoned"
    BY <2>2
  <2> QED BY <1>0, <1>1, <2>2, <2>3, <2>4, <2>5, <2>6, <2>7, <2>8, WorkerSteps
<1> QED BY <1>3, <1>4 DEF Video!Work

(* The launcher stops the session it is in, and starts the next one.       *)
LEMMA LauncherKeeps ==
  VideoIInv /\ (Video!Connect \/ Video!Switched \/ Video!JoinTimesOut) => VideoIInv'
<1> SUFFICES ASSUME VideoIInv, Video!Connect \/ Video!Switched \/ Video!JoinTimesOut PROVE VideoIInv'
  OBVIOUS
<1>0. /\ VideoTypes /\ Backlogs /\ NoneLeft /\ (launcher.gaveUp \/ OneSession)
      /\ bridges \in [Video!Sessions -> Readers] /\ session \in 0..MaxSessions
      /\ launcher \in [at : {"idle", "joining"}, gaveUp : BOOLEAN] /\ MaxSessions \in Nat
      /\ Video!Sessions = 1..MaxSessions
  BY VideoSizes DEF VideoIInv, VideoTypes
<1>1. CASE Video!Connect
  <2>1. /\ launcher.at = "idle" /\ session < MaxSessions /\ launcher' = [launcher EXCEPT !.at = "joining"]
        /\ bridges' = IF session = 0 THEN bridges ELSE [bridges EXCEPT ![session].stop = "set"]
        /\ UNCHANGED <<session, decoders, server>>
    BY <1>1, Zenon DEF Video!Connect
  <2>2. launcher' \in [at : {"idle", "joining"}, gaveUp : BOOLEAN] /\ launcher'.gaveUp = launcher.gaveUp
    BY <1>0, <2>1
  <2>3. /\ bridges' \in [Video!Sessions -> Readers]
        /\ \A s \in Video!Sessions : bridges'[s].at = bridges[s].at /\ bridges'[s].n = bridges[s].n
    <3>1. CASE session = 0
      BY <1>0, <2>1, <3>1
    <3>2. CASE session # 0
      <4>1. bridges' = [bridges EXCEPT ![session].stop = "set"] /\ session \in Video!Sessions
        BY <1>0, <2>1, <3>2
      <4> QED BY <1>0, <4>1 DEF Readers
    <3> QED BY <3>1, <3>2
  <2>4. VideoTypes'
    BY <1>0, <2>1, <2>2, <2>3 DEF VideoTypes
  <2>5. Backlogs'
    BY <1>0, <2>1, <2>3 DEF Backlogs
  <2>6. NoneLeft' /\ (OneSession => OneSession')
    BY <1>0, <2>1, <2>3 DEF NoneLeft, OneSession, Idle
  <2> QED BY <1>0, <2>2, <2>4, <2>5, <2>6, Zenon DEF VideoIInv
<1>2. ASSUME NEW gaveUp \in BOOLEAN, Video!Joins(gaveUp), ~gaveUp => Video!Live = "done" PROVE VideoIInv'
  <2>1. /\ launcher.at = "joining" /\ launcher' = [at |-> "idle", gaveUp |-> launcher.gaveUp \/ gaveUp]
        /\ session' = session + 1 /\ decoders' = decoders
        /\ bridges' = [bridges EXCEPT ![session + 1].at = "reading"]
        /\ server' = [server EXCEPT !.table = [id \in Video!Ids |-> 0]]
    BY <1>2, Zenon DEF Video!Joins, Video!Reset
  <2>2. session < MaxSessions
    BY <1>0, <2>1 DEF VideoTypes
  <2>3. session + 1 \in Video!Sessions /\ session' \in 0..MaxSessions
    BY <1>0, <2>1, <2>2
  <2>4. /\ bridges' \in [Video!Sessions -> Readers] /\ bridges'[session + 1].at = "reading"
        /\ \A s \in Video!Sessions : bridges'[s].n = bridges[s].n
        /\ \A s \in Video!Sessions : s # session + 1 => bridges'[s] = bridges[s]
    BY <1>0, <2>1, <2>3 DEF Readers
  <2>5. launcher'.at = "idle" /\ launcher' \in [at : {"idle", "joining"}, gaveUp : BOOLEAN]
        /\ (~launcher'.gaveUp => ~launcher.gaveUp /\ ~gaveUp)
    <3>1. launcher'.at = "idle" /\ launcher'.gaveUp = (launcher.gaveUp \/ gaveUp)
      BY <2>1, Zenon
    <3>2. (launcher.gaveUp \/ gaveUp) \in BOOLEAN
      OBVIOUS
    <3>3. launcher' \in [at : {"idle", "joining"}, gaveUp : BOOLEAN]
      BY <2>1, <3>2
    <3> QED BY <3>1, <3>3, Zenon
  <2>6. /\ server' \in [table : [Video!Ids -> Nat], last : [by : Nat, under : Nat]]
        /\ \A id \in Video!Ids : server'.table[id] = 0
        /\ server'.last = server.last
    BY <1>0, <2>1 DEF VideoTypes
  <2>7. VideoTypes'
    BY <1>0, <2>1, <2>3, <2>4, <2>5, <2>6 DEF VideoTypes
  <2>8. Backlogs'
    BY <1>0, <2>1, <2>4 DEF Backlogs
  <2>9. NoneLeft'
    BY <1>0, <2>1, <2>4 DEF NoneLeft, Idle
  <2>10. ASSUME ~launcher'.gaveUp PROVE OneSession'
    <3>1. OneSession /\ Video!Live = "done"
      BY <1>0, <1>2, <2>5, <2>10, Zenon
    <3>2. session \in Video!Sessions => Idle(session)
      BY <1>0, <3>1 DEF Video!Live, Idle
    <3>3. \A s \in Video!Sessions : s # session + 1 => Idle(s)'
      BY <1>0, <2>4, <3>1, <3>2 DEF OneSession, Idle
    <3> QED BY <2>1, <2>6, <3>1, <3>3 DEF OneSession
  <2> QED BY <2>7, <2>8, <2>9, <2>10, Zenon DEF VideoIInv
<1>3. CASE Video!Switched
  BY <1>2, <1>3 DEF Video!Switched
<1>4. CASE Video!JoinTimesOut
  BY <1>2, <1>4 DEF Video!JoinTimesOut
<1> QED BY <1>1, <1>3, <1>4

(* Every step of the launcher, the readers and the workers.                *)
LEMMA VideoNext == VideoIInv /\ [Video!Next]_video_v => VideoIInv'
<1> SUFFICES ASSUME VideoIInv, [Video!Next]_video_v PROVE VideoIInv'
  OBVIOUS
<1>1. CASE UNCHANGED video_v
  BY <1>1 DEF video_v, VideoIInv, VideoTypes, Backlogs, NoneLeft, OneSession, Idle
<1> QED BY <1>1, LauncherKeeps, ReaderKeeps, WorkKeeps DEF Video!Next

(* What the invariant says of the server and of the frames shown.          *)
LEMMA VideoSafe == VideoIInv => Video!SwitchIsClean
<1> SUFFICES ASSUME VideoIInv PROVE Video!SwitchIsClean
  OBVIOUS
<1>1. ~launcher.gaveUp => /\ \A id \in Video!Ids : server.table[id] \in {0, session}
                          /\ server.last.by = server.last.under
  BY Zenon DEF VideoIInv, OneSession
<1>2. ASSUME NEW s \in Video!Sessions, NEW v \in Streams
      PROVE  LET w == decoders[s][v]
                 backlog == (IF w.at = "working" THEN <<w.msg>> ELSE <<>>) \o w.q
             IN /\ Len(w.q) <= VideoQueue
                /\ \A i \in DOMAIN backlog : backlog[i] > (IF i = 1 THEN w.shown ELSE backlog[i - 1])
  <2> DEFINE w == decoders[s][v]
             first == IF w.at = "working" THEN <<w.msg>> ELSE <<>>
             backlog == first \o w.q
  <2>1. Lined(w, bridges[s].n)
    BY DEF VideoIInv, Backlogs
  <2>2. w.q \in Seq(Nat) /\ Len(w.q) \in Nat /\ w.msg \in Nat /\ w.shown \in Nat
    BY <2>1 DEF Lined, Workers
  <2>3. /\ Len(w.q) <= VideoQueue /\ w.shown <= w.msg
        /\ \A i \in 1..Len(w.q) : w.msg < w.q[i] /\ w.q[i] \in Nat
        /\ \A i, j \in 1..Len(w.q) : i < j => w.q[i] < w.q[j]
        /\ w.at = "working" => w.shown < w.msg
    BY <2>1, <2>2 DEF Lined
  <2> HIDE DEF w
  <2>4. CASE w.at = "working"
    <3>1. backlog \in Seq(Nat) /\ Len(backlog) = 1 + Len(w.q) /\ backlog[1] = w.msg
          /\ \A i \in 2..(1 + Len(w.q)) : backlog[i] = w.q[i - 1] /\ i - 1 \in 1..Len(w.q)
      BY <2>2, <2>4
    <3> HIDE DEF backlog
    <3>2. ASSUME NEW i \in DOMAIN backlog PROVE backlog[i] > (IF i = 1 THEN w.shown ELSE backlog[i - 1])
      <4>1. i \in 1..(1 + Len(w.q))
        <5>1. DOMAIN backlog = 1..Len(backlog)
          BY <3>1
        <5>2. i \in 1..Len(backlog)
          BY <5>1, Zenon
        <5> QED BY <3>1, <5>2, Zenon
      <4>2. CASE i = 1
        BY <2>2, <2>3, <2>4, <3>1, <4>2
      <4>3. CASE i = 2
        <5>1. backlog[2] = w.q[1] /\ 1 \in 1..Len(w.q)
          BY <2>2, <3>1, <4>1, <4>3
        <5> QED BY <2>2, <2>3, <3>1, <4>3, <5>1
      <4>4. CASE i > 2 /\ i \in Int
        <5>1. /\ backlog[i] = w.q[i - 1] /\ backlog[i - 1] = w.q[i - 2] /\ i # 1
              /\ i - 1 \in 1..Len(w.q) /\ i - 2 \in 1..Len(w.q) /\ i - 2 < i - 1
          <6>1. i \in 2..(1 + Len(w.q)) /\ i - 1 \in 2..(1 + Len(w.q)) /\ (i - 1) - 1 = i - 2
            BY <2>2, <4>1, <4>4
          <6>2. backlog[i - 1] = w.q[i - 2] /\ i - 2 \in 1..Len(w.q)
            BY <3>1, <6>1, Zenon
          <6>3. backlog[i] = w.q[i - 1] /\ i - 1 \in 1..Len(w.q)
            BY <3>1, <6>1, Zenon
          <6> QED BY <4>1, <4>4, <6>2, <6>3
        <5>2. w.q[i - 2] < w.q[i - 1] /\ w.q[i - 2] \in Nat /\ w.q[i - 1] \in Nat
          BY <2>3, <5>1, Zenon
        <5> QED BY <5>1, <5>2
      <4> QED BY <2>2, <4>1, <4>2, <4>3, <4>4
    <3> QED BY <2>3, <3>2, Zenon DEF backlog, w
  <2>5. CASE w.at # "working"
    <3>1. backlog = w.q
      BY <2>2, <2>5
    <3>2. ASSUME NEW i \in 1..Len(w.q) PROVE w.q[i] > (IF i = 1 THEN w.shown ELSE w.q[i - 1])
      <4>1. CASE i = 1
        BY <2>2, <2>3, <4>1
      <4>2. CASE i # 1
        <5>1. i - 1 \in 1..Len(w.q) /\ i - 1 < i
          BY <2>2, <4>2
        <5>2. w.q[i - 1] < w.q[i] /\ w.q[i - 1] \in Nat /\ w.q[i] \in Nat
          BY <2>3, <5>1, Zenon
        <5> QED BY <4>2, <5>2
      <4> QED BY <4>1, <4>2
    <3>3. DOMAIN w.q = 1..Len(w.q)
      BY <2>2
    <3>4. \A i \in DOMAIN backlog : backlog[i] > (IF i = 1 THEN w.shown ELSE backlog[i - 1])
      <4> HIDE DEF backlog
      <4> QED BY <3>1, <3>2, <3>3
    <3> QED BY <2>3, <3>4, Zenon DEF w
  <2> QED BY <2>4, <2>5 DEF w
<1> QED BY <1>1, <1>2, Zenon DEF Video!SwitchIsClean

(* A session whose threads ended within their joins leaves nothing in the  *)
(* viewer's server, and frames are shown in order from a bounded backlog:  *)
(* for any streams, queue, sessions and rows, in any order the threads     *)
(* take.                                                                   *)
THEOREM SwitchesAreClean == MCSpec => []SwitchIsClean
<1> DEFINE Inv == focus = "video" => VideoIInv
<1>1. MCInit => Inv
  BY VideoInit, Zenon DEF MCInit
<1>2. Inv /\ [MCNext]_vars => Inv'
  <2>1. [MCNext]_vars => focus' = focus /\ (focus = "video" => [Video!Next]_video_v)
    BY Zenon DEF MCNext, vars
  <2> QED BY <2>1, VideoNext, Zenon
<1>3. Inv => SwitchIsClean
  BY VideoSafe, Zenon DEF SwitchIsClean
<1> QED BY <1>1, <1>2, <1>3, PTL DEF MCSpec

-----------------------------------------------------------------------------
(***************************************************************************)
(* The launcher's list (Discovery).  A tether is its own unit's, through   *)
(* all that is still to be told of it: what is announced, what the callback *)
(* in progress is about to list, what a name resolved to.  A Wi-Fi row is  *)
(* of a name resolved to it; a name shares its row with others that have   *)
(* its address, and is robbed when one of them takes the row along.        *)
(***************************************************************************)
Hosts == Units \cup Lans
UsbIds == {<<"usb", u>> : u \in Units}
AnyRow ==
  {Found!Usb(u) : u \in Units} \cup {Found!Sta(u, a) : u \in Units, a \in Hosts}
  \cup {Found!Manual(a) : a \in Hosts} \cup {Found!Replay}

Worlds ==
  [plugged : SUBSET Units, announced : [Units -> Hosts \cup {"none"}],
   due : [Units -> {"none", "add", "update", "remove"}], moved : SUBSET Units]

FoundTypes ==
  /\ world \in Worlds /\ robbed \in SUBSET Units
  /\ mdns_ids \in [Units -> Hosts \cup {"none"}]
  /\ mdns \in [at : {"idle", "resolve", "drop", "add", "off"}, name : Units \cup {"none"}, addr : Hosts \cup {"none"}]
  /\ scan \in [at : {"waiting", "adding", "removing"}, seen : SUBSET UsbIds, ports : SUBSET Units, gone : SUBSET UsbIds]
  /\ devices \in SUBSET AnyRow
  /\ page \in [posted : BOOLEAN, ev : BOOLEAN, at : {"wait", "read"}, sent : SUBSET AnyRow]

(* The callback in progress, m, of what the names resolved to, ids.        *)
CallbackOf(m, ids) ==
  /\ m.at # "idle" => m.name \in Units
  /\ m.at \in {"drop", "add"} => m.addr \in Hosts
  /\ m.at = "add" => ids[m.name] = m.addr

(* Unit u is known, or about to be, at a.                                  *)
Uses(w, ids, m, u, a) ==
  \/ w.announced[u] = a \/ ids[u] = a
  \/ m.at \in {"drop", "add"} /\ m.name = u /\ m.addr = a
OwnTether(w, ids, m) == \A u, v \in Units : Uses(w, ids, m, u, v) => u = v

Has(rows, id) == \E d \in rows : d.id = id
Distinct(rows) == \A d, e \in rows : d.id = e.id => d = e
Resolved(rows, ids) == \A d \in rows : d.transport = "sta" => ids[d.unit] = d.at
NamesListed(rows, ids, m, away) ==
  \A u \in Units \ away :
    ids[u] # "none" /\ ~(m.at = "add" /\ m.name = u) => Has(rows, <<"tcp", ids[u]>>)

(* A page that is behind the rows has a wake-up on its way.                *)
PageTold(p, rows) == p.sent # rows => p.posted \/ p.ev \/ p.at = "read"

FoundIInv ==
  /\ FoundTypes /\ CallbackOf(mdns, mdns_ids) /\ OwnTether(world, mdns_ids, mdns)
  /\ Distinct(devices) /\ Resolved(devices, mdns_ids) /\ NamesListed(devices, mdns_ids, mdns, robbed)
  /\ PageTold(page, devices)

(* A row, by what it is a row of.                                          *)
LEMMA RowIs ==
  ASSUME NEW d \in AnyRow
  PROVE  \/ \E u \in Units : d = Found!Usb(u)
         \/ \E u \in Units, a \in Hosts : d = Found!Sta(u, a)
         \/ \E a \in Hosts : d = Found!Manual(a)
         \/ d = Found!Replay
BY DEF AnyRow

(* What the fields of a row say of each other.                             *)
LEMMA RowSays ==
  ASSUME NEW d \in AnyRow
  PROVE  /\ d.transport = "usb" => d.unit \in Units /\ d = Found!Usb(d.unit) /\ d.id \in UsbIds /\ d.id = <<"usb", d.unit>>
         /\ d.transport = "sta" => /\ d.unit \in Units /\ d.at \in Hosts /\ d = Found!Sta(d.unit, d.at)
                                   /\ d.id = <<"tcp", d.at>>
         /\ d.id \in UsbIds => d.transport = "usb"
<1>1. CASE \E u \in Units : d = Found!Usb(u)
  BY <1>1 DEF Found!Usb, UsbIds
<1>2. CASE \E u \in Units, a \in Hosts : d = Found!Sta(u, a)
  BY <1>2 DEF Found!Sta, UsbIds
<1>3. CASE \E a \in Hosts : d = Found!Manual(a)
  BY <1>3 DEF Found!Manual, UsbIds
<1>4. CASE d = Found!Replay
  BY <1>4 DEF Found!Replay, UsbIds
<1> QED BY <1>1, <1>2, <1>3, <1>4, RowIs, Zenon

(* A row put in takes the place of the one with its id, and of no other.   *)
LEMMA Upserted ==
  ASSUME NEW rows \in SUBSET AnyRow, Distinct(rows), NEW d \in AnyRow
  PROVE  LET more == Found!Upsert(rows, d)
         IN /\ more \in SUBSET AnyRow /\ Distinct(more) /\ Has(more, d.id)
            /\ \A id : Has(rows, id) => Has(more, id)
            /\ \A e \in more : e = d \/ (e \in rows /\ e.id # d.id)
BY DEF Found!Upsert, Distinct, Has

(* A row taken out is the one with the id, and no other.                   *)
LEMMA Removed ==
  ASSUME NEW rows \in SUBSET AnyRow, Distinct(rows), NEW id
  PROVE  LET less == Found!Remove(rows, id)
         IN /\ less \in SUBSET AnyRow /\ Distinct(less)
            /\ \A i : Has(rows, i) /\ i # id => Has(less, i)
            /\ \A e \in less : e \in rows /\ e.id # id
BY DEF Found!Remove, Distinct, Has

(* Whoever changes the rows tells the page (_notify).                      *)
LEMMA MutateTells ==
  ASSUME FoundTypes, PageTold(page, devices), NEW rows \in SUBSET AnyRow, Found!Mutate(rows)
  PROVE  /\ devices' = rows /\ PageTold(page', rows)
         /\ page' \in [posted : BOOLEAN, ev : BOOLEAN, at : {"wait", "read"}, sent : SUBSET AnyRow]
<1>1. page \in [posted : BOOLEAN, ev : BOOLEAN, at : {"wait", "read"}, sent : SUBSET AnyRow]
  BY Zenon DEF FoundTypes
<1>2. CASE rows = devices
  BY <1>1, <1>2, Zenon DEF Found!Mutate
<1>3. CASE rows # devices
  <2>1. devices' = rows /\ page' = [page EXCEPT !.posted = TRUE]
    BY <1>3, Zenon DEF Found!Mutate
  <2>2. page'.posted = TRUE /\ page' \in [posted : BOOLEAN, ev : BOOLEAN, at : {"wait", "read"}, sent : SUBSET AnyRow]
    BY <1>1, <2>1
  <2> QED BY <2>1, <2>2, Zenon DEF PageTold
<1> QED BY <1>2, <1>3, Zenon

(* A tether with fewer users is still its own unit's.                      *)
LEMMA OwnStill ==
  ASSUME OwnTether(world, mdns_ids, mdns), NEW w, NEW ids, NEW m,
         \A u \in Units, a \in Hosts : Uses(w, ids, m, u, a) => Uses(world, mdns_ids, mdns, u, a)
  PROVE  OwnTether(w, ids, m)
<1>1. \A v \in Units : v \in Hosts
  BY DEF Hosts
<1> QED BY <1>1, Zenon DEF OwnTether

(* No unit is plugged, announced or listed.                                *)
LEMMA FoundInit == Found!Init => FoundIInv
<1> SUFFICES ASSUME Found!Init PROVE FoundIInv
  OBVIOUS
<1>0. /\ world = [plugged |-> {}, announced |-> [u \in Units |-> "none"],
                   due |-> [u \in Units |-> "none"], moved |-> {}] /\ robbed = {}
      /\ devices = {} /\ page = [posted |-> FALSE, ev |-> FALSE, at |-> "wait", sent |-> {}]
      /\ mdns_ids = [u \in Units |-> "none"]
      /\ scan = [at |-> "waiting", seen |-> {}, ports |-> {}, gone |-> {}]
      /\ mdns = [at |-> "idle", name |-> "none", addr |-> "none"]
  BY Zenon DEF Found!Init, Found!NoRow
<1>1. FoundTypes
  BY <1>0 DEF FoundTypes, Worlds
<1>2. CallbackOf(mdns, mdns_ids)
  BY <1>0 DEF CallbackOf
<1>3. OwnTether(world, mdns_ids, mdns)
  BY <1>0, UnitsAssumption DEF OwnTether, Uses, Hosts
<1>4. Distinct(devices) /\ Resolved(devices, mdns_ids) /\ NamesListed(devices, mdns_ids, mdns, robbed)
  BY <1>0 DEF Distinct, Resolved, NamesListed
<1>5. PageTold(page, devices)
  BY <1>0 DEF PageTold
<1> QED BY <1>1, <1>2, <1>3, <1>4, <1>5, Zenon DEF FoundIInv

(* The page's stream: the wake-up, the event, and then the list.           *)
LEMMA FeedKeeps == FoundIInv /\ Found!Stream => FoundIInv'
<1> SUFFICES ASSUME FoundIInv, Found!Stream PROVE FoundIInv'
  OBVIOUS
<1>1. UNCHANGED <<world, devices, mdns_ids, scan, mdns, robbed>>
  BY Zenon DEF Found!Stream
<1>2. /\ page \in [posted : BOOLEAN, ev : BOOLEAN, at : {"wait", "read"}, sent : SUBSET AnyRow]
      /\ devices \in SUBSET AnyRow
  BY Zenon DEF FoundIInv, FoundTypes
<1>3. /\ page' \in [posted : BOOLEAN, ev : BOOLEAN, at : {"wait", "read"}, sent : SUBSET AnyRow]
      /\ PageTold(page', devices)
  <2>1. CASE Found!WakeAll
    <3>1. page' = [page EXCEPT !.posted = FALSE, !.ev = TRUE]
      BY <2>1, Zenon DEF Found!WakeAll
    <3>2. page'.ev = TRUE
      BY <1>2, <3>1
    <3>3. page' \in [posted : BOOLEAN, ev : BOOLEAN, at : {"wait", "read"}, sent : SUBSET AnyRow]
      BY <1>2, <3>1
    <3> QED BY <3>2, <3>3, Zenon DEF PageTold
  <2>2. CASE Found!Clear
    <3>1. page' = [page EXCEPT !.ev = FALSE, !.at = "read"]
      BY <2>2, Zenon DEF Found!Clear
    <3>2. page'.at = "read"
      BY <1>2, <3>1
    <3>3. page' \in [posted : BOOLEAN, ev : BOOLEAN, at : {"wait", "read"}, sent : SUBSET AnyRow]
      BY <1>2, <3>1
    <3> QED BY <3>2, <3>3, Zenon DEF PageTold
  <2>3. CASE Found!SendSnapshot
    <3>1. page' = [page EXCEPT !.at = "wait", !.sent = devices]
      BY <2>3, Zenon DEF Found!SendSnapshot
    <3>2. page'.sent = devices
      BY <1>2, <3>1
    <3>3. page' \in [posted : BOOLEAN, ev : BOOLEAN, at : {"wait", "read"}, sent : SUBSET AnyRow]
      BY <1>2, <3>1
    <3> QED BY <3>2, <3>3, Zenon DEF PageTold
  <2> QED BY <2>1, <2>2, <2>3, Zenon DEF Found!Stream
<1> QED BY <1>1, <1>3, Zenon DEF FoundIInv, FoundTypes

(* What the invariant says, unprimed, one conjunct at a time.              *)
LEMMA FoundHas ==
  ASSUME FoundIInv
  PROVE  /\ FoundTypes /\ CallbackOf(mdns, mdns_ids) /\ OwnTether(world, mdns_ids, mdns)
         /\ Distinct(devices) /\ Resolved(devices, mdns_ids) /\ NamesListed(devices, mdns_ids, mdns, robbed)
         /\ PageTold(page, devices) /\ devices \in SUBSET AnyRow
BY Zenon DEF FoundIInv, FoundTypes

(* The serial scan: the ports that are there, then the rows that are not.  *)
LEMMA SerialKeeps == FoundIInv /\ Found!SerialLoop => FoundIInv'
<1> SUFFICES ASSUME FoundIInv, Found!SerialLoop PROVE FoundIInv'
  OBVIOUS
<1> DEFINE Scans == [at : {"waiting", "adding", "removing"}, seen : SUBSET UsbIds, ports : SUBSET Units,
                     gone : SUBSET UsbIds]
<1>0. /\ FoundTypes /\ CallbackOf(mdns, mdns_ids) /\ OwnTether(world, mdns_ids, mdns)
      /\ Distinct(devices) /\ Resolved(devices, mdns_ids) /\ NamesListed(devices, mdns_ids, mdns, robbed)
      /\ PageTold(page, devices) /\ devices \in SUBSET AnyRow
  BY FoundHas
<1>1. UNCHANGED <<world, mdns_ids, mdns, robbed>>
  BY Zenon DEF Found!SerialLoop, Found!ListPorts, Found!AddPort, Found!RemovePort
<1>a. scan \in Scans /\ world.plugged \in SUBSET Units
  BY <1>0 DEF FoundTypes, Worlds
<1>2. ASSUME UNCHANGED <<devices, page>>, scan' \in Scans PROVE FoundIInv'
  BY <1>0, <1>1, <1>2, Zenon DEF FoundIInv, FoundTypes
<1>3. ASSUME NEW rows \in SUBSET AnyRow, Found!Mutate(rows), scan' \in Scans,
             Distinct(rows), Resolved(rows, mdns_ids), NamesListed(rows, mdns_ids, mdns, robbed)
      PROVE  FoundIInv'
  <2>1. /\ devices' = rows /\ PageTold(page', rows)
        /\ page' \in [posted : BOOLEAN, ev : BOOLEAN, at : {"wait", "read"}, sent : SUBSET AnyRow]
    BY <1>0, <1>3, MutateTells, Zenon
  <2> QED BY <1>0, <1>1, <1>3, <2>1, Zenon DEF FoundIInv, FoundTypes
<1>4. CASE Found!ListPorts
  <2>1. scan' \in Scans
    BY <1>a, <1>4 DEF Found!ListPorts
  <2>2. UNCHANGED <<devices, page>>
    BY <1>4, Zenon DEF Found!ListPorts
  <2> QED BY <1>2, <2>1, <2>2, Zenon
<1>5. CASE Found!AddPort
  <2>1. CASE scan.ports = {}
    <3>1. scan' = [scan EXCEPT !.at = "removing",
                      !.gone = {d.id : d \in {r \in devices : r.transport = "usb"}} \ scan.seen]
          /\ UNCHANGED <<devices, page>>
      BY <1>5, <2>1, Zenon DEF Found!AddPort
    <3>2. {d.id : d \in {r \in devices : r.transport = "usb"}} \ scan.seen \in SUBSET UsbIds
      BY <1>0, RowSays
    <3>3. scan' \in Scans
      BY <1>a, <3>1, <3>2
    <3> QED BY <1>2, <3>1, <3>3, Zenon
  <2>2. CASE scan.ports # {}
    <3>1. PICK u \in scan.ports :
            /\ scan' = [scan EXCEPT !.ports = @ \ {u}, !.seen = @ \cup {Found!Usb(u).id}]
            /\ Found!Mutate(Found!Upsert(devices, Found!Usb(u)))
      BY <1>5, <2>2, Zenon DEF Found!AddPort
    <3>2. u \in Units /\ Found!Usb(u) \in AnyRow /\ Found!Usb(u).id \in UsbIds
          /\ Found!Usb(u).transport = "usb" /\ \A a : <<"tcp", a>> # Found!Usb(u).id
      BY <1>a DEF AnyRow, UsbIds, Found!Usb
    <3>3. scan' \in Scans
      BY <1>a, <3>1, <3>2
    <3> DEFINE rows == Found!Upsert(devices, Found!Usb(u))
    <3>4. /\ rows \in SUBSET AnyRow /\ Distinct(rows)
          /\ \A id : Has(devices, id) => Has(rows, id)
          /\ \A e \in rows : e = Found!Usb(u) \/ (e \in devices /\ e.id # Found!Usb(u).id)
      BY <1>0, <3>2, Upserted
    <3>5. Found!Mutate(rows)
      BY <3>1, Zenon
    <3> HIDE DEF rows
    <3>6. Resolved(rows, mdns_ids)
      BY <1>0, <3>2, <3>4 DEF Resolved
    <3>7. NamesListed(rows, mdns_ids, mdns, robbed)
      BY <1>0, <3>4, Zenon DEF NamesListed
    <3> QED BY <1>3, <3>3, <3>4, <3>5, <3>6, <3>7, Zenon
  <2> QED BY <2>1, <2>2, Zenon
<1>6. CASE Found!RemovePort
  <2>1. CASE scan.gone = {}
    <3>1. scan' = [scan EXCEPT !.at = "waiting"] /\ UNCHANGED <<devices, page>>
      BY <1>6, <2>1, Zenon DEF Found!RemovePort
    <3>2. scan' \in Scans
      BY <1>a, <3>1
    <3> QED BY <1>2, <3>1, <3>2, Zenon
  <2>2. CASE scan.gone # {}
    <3>1. PICK id \in scan.gone :
            scan' = [scan EXCEPT !.gone = @ \ {id}] /\ Found!Mutate(Found!Remove(devices, id))
      BY <1>6, <2>2, Zenon DEF Found!RemovePort
    <3>2. id \in UsbIds /\ \A a : <<"tcp", a>> # id
      BY <1>a DEF UsbIds
    <3>3. scan' \in Scans
      BY <1>a, <3>1
    <3> DEFINE rows == Found!Remove(devices, id)
    <3>4. /\ rows \in SUBSET AnyRow /\ Distinct(rows)
          /\ \A i : Has(devices, i) /\ i # id => Has(rows, i)
          /\ \A e \in rows : e \in devices /\ e.id # id
      BY <1>0, Removed
    <3>5. Found!Mutate(rows)
      BY <3>1
    <3> HIDE DEF rows
    <3>6. Resolved(rows, mdns_ids)
      BY <1>0, <3>4 DEF Resolved
    <3>7. NamesListed(rows, mdns_ids, mdns, robbed)
      BY <1>0, <3>2, <3>4, Zenon DEF NamesListed
    <3> QED BY <1>3, <3>3, <3>4, <3>5, <3>6, <3>7, Zenon
  <2> QED BY <2>1, <2>2, Zenon
<1> QED BY <1>4, <1>5, <1>6, Zenon DEF Found!SerialLoop

(* The operator's additions.                                               *)
LEMMA OperatorKeeps == FoundIInv /\ (Found!AddManual \/ Found!AddMcap) => FoundIInv'
<1> SUFFICES ASSUME FoundIInv, Found!AddManual \/ Found!AddMcap PROVE FoundIInv'
  OBVIOUS
<1>0. /\ FoundTypes /\ CallbackOf(mdns, mdns_ids) /\ OwnTether(world, mdns_ids, mdns)
      /\ Distinct(devices) /\ Resolved(devices, mdns_ids) /\ NamesListed(devices, mdns_ids, mdns, robbed)
      /\ PageTold(page, devices) /\ devices \in SUBSET AnyRow
  BY FoundHas
<1>1. UNCHANGED <<world, mdns_ids, scan, mdns, robbed>>
  BY Zenon DEF Found!AddManual, Found!AddMcap
<1>2. PICK d \in AnyRow : d.transport # "sta" /\ Found!Mutate(Found!Upsert(devices, d))
  <2>1. CASE Found!AddManual
    <3>1. PICK a \in {world.announced[u] : u \in Units} \ {"none"} :
                 Found!Mutate(Found!Upsert(devices, Found!Manual(a)))
      BY <2>1, Zenon DEF Found!AddManual, Found!NoRow
    <3>2. a \in Hosts
      BY <1>0 DEF FoundTypes, Worlds
    <3>3. Found!Manual(a) \in AnyRow /\ Found!Manual(a).transport = "ap"
      BY <3>2 DEF AnyRow, Found!Manual
    <3> QED BY <3>1, <3>3
  <2>2. CASE Found!AddMcap
    <3>1. Found!Mutate(Found!Upsert(devices, Found!Replay))
      BY <2>2, Zenon DEF Found!AddMcap
    <3>2. Found!Replay \in AnyRow /\ Found!Replay.transport = "mcap"
      BY DEF AnyRow, Found!Replay
    <3> QED BY <3>1, <3>2
  <2> QED BY <2>1, <2>2, Zenon
<1> DEFINE rows == Found!Upsert(devices, d)
<1>3. /\ rows \in SUBSET AnyRow /\ Distinct(rows)
      /\ \A id : Has(devices, id) => Has(rows, id)
      /\ \A e \in rows : e = d \/ (e \in devices /\ e.id # d.id)
  BY <1>0, Upserted
<1>4. Found!Mutate(rows)
  BY <1>2
<1> HIDE DEF rows
<1>5. Resolved(rows, mdns_ids)
  BY <1>0, <1>2, <1>3 DEF Resolved
<1>6. NamesListed(rows, mdns_ids, mdns, robbed)
  BY <1>0, <1>3, Zenon DEF NamesListed
<1>7. /\ devices' = rows /\ PageTold(page', rows)
      /\ page' \in [posted : BOOLEAN, ev : BOOLEAN, at : {"wait", "read"}, sent : SUBSET AnyRow]
  BY <1>0, <1>3, <1>4, MutateTells, Zenon
<1> QED BY <1>0, <1>1, <1>3, <1>5, <1>6, <1>7, Zenon DEF FoundIInv, FoundTypes

(* What a unit announces, and the callback due for it, is all that changes. *)
Announce(w, u, a, kind, gone) == [w EXCEPT !.announced[u] = a, !.due[u] = kind, !.moved = gone]
LEMMA Announces ==
  ASSUME NEW w \in Worlds, NEW u \in Units, NEW a \in Hosts \cup {"none"},
         NEW kind \in {"none", "add", "update", "remove"}, NEW gone \in SUBSET Units
  PROVE  /\ Announce(w, u, a, kind, gone) \in Worlds
         /\ Announce(w, u, a, kind, gone).announced[u] = a
         /\ \A x \in Units : x # u => Announce(w, u, a, kind, gone).announced[x] = w.announced[x]
<1> DEFINE says == [w.announced EXCEPT ![u] = a]
           dues == [w.due EXCEPT ![u] = kind]
           v == Announce(w, u, a, kind, gone)
<1>1. says \in [Units -> Hosts \cup {"none"}] /\ dues \in [Units -> {"none", "add", "update", "remove"}]
      /\ w.plugged \in SUBSET Units
  BY DEF Worlds
<1>2. says[u] = a /\ \A x \in Units : x # u => says[x] = w.announced[x]
  BY DEF Worlds
<1>3. v = [w EXCEPT !.announced = says, !.due = dues, !.moved = gone]
  BY DEF Announce
<1> HIDE DEF says, dues, v
<1>4. v = [plugged |-> w.plugged, announced |-> says, due |-> dues, moved |-> gone]
  BY <1>3 DEF Worlds
<1>5. v \in Worlds /\ v.announced[u] = a /\ \A x \in Units : x # u => v.announced[x] = w.announced[x]
  BY <1>1, <1>2, <1>4 DEF Worlds
<1> QED BY <1>5, Zenon DEF v

(* The world: a tether is announced by the unit it is of.                  *)
LEMMA WorldKeeps == FoundIInv /\ Found!World => FoundIInv'
<1> SUFFICES ASSUME FoundIInv, Found!World PROVE FoundIInv'
  OBVIOUS
<1>0. /\ FoundTypes /\ CallbackOf(mdns, mdns_ids) /\ OwnTether(world, mdns_ids, mdns)
      /\ Distinct(devices) /\ Resolved(devices, mdns_ids) /\ NamesListed(devices, mdns_ids, mdns, robbed)
      /\ PageTold(page, devices) /\ devices \in SUBSET AnyRow
  BY FoundHas
<1>1. UNCHANGED <<devices, mdns_ids, scan, mdns, robbed, page>>
  BY Zenon DEF Found!World
<1>2. world \in Worlds
  BY <1>0, Zenon DEF FoundTypes
<1>t. \A u \in Units : \A a : Found!MayAnnounce(u, a) /\ a \in Units => a = u
  <2>1. \A v \in Units : [x \in Units |-> x][v] = v
    OBVIOUS
  <2> QED BY <2>1 DEF Found!MayAnnounce
<1>k. "none" \notin Units
  BY UnitsAssumption
<1>3. ASSUME world' \in Worlds, NEW u \in Units,
             \A v \in Units : v # u => world'.announced[v] = world.announced[v],
             world'.announced[u] \in Units => world'.announced[u] \in {u, world.announced[u]}
      PROVE  FoundIInv'
  <2>1. OwnTether(world', mdns_ids, mdns)
    <3>1. ASSUME NEW v \in Units, NEW w \in Units, Uses(world', mdns_ids, mdns, v, w) PROVE v = w
      <4>1. CASE world'.announced[v] = w
        <5>1. world.announced[v] = w \/ w = v
          BY <1>3, <4>1
        <5> QED BY <1>0, <5>1, Zenon DEF OwnTether, Uses
      <4>2. CASE world'.announced[v] # w
        BY <1>0, <3>1, <4>2, Zenon DEF OwnTether, Uses
      <4> QED BY <4>1, <4>2
    <3> QED BY <3>1, Zenon DEF OwnTether
  <2> QED BY <1>0, <1>1, <1>3, <2>1, Zenon DEF FoundIInv, FoundTypes
<1>a. ASSUME NEW u \in Units, NEW a \in Hosts \cup {"none"}, NEW kind \in {"none", "add", "update", "remove"},
             NEW gone \in SUBSET Units, world' = Announce(world, u, a, kind, gone), a \in Units => a = u
      PROVE  FoundIInv'
  <2> DEFINE told == Announce(world, u, a, kind, gone)
  <2>0. /\ told \in Worlds /\ told.announced[u] = a
        /\ \A v \in Units : v # u => told.announced[v] = world.announced[v]
    BY <1>2, <1>a, Announces
  <2> HIDE DEF told
  <2>1. /\ world' \in Worlds /\ world'.announced[u] = a
        /\ \A v \in Units : v # u => world'.announced[v] = world.announced[v]
    BY <1>a, <2>0, Zenon DEF told
  <2>2. world'.announced[u] \in Units => world'.announced[u] \in {u, world.announced[u]}
    BY <1>a, <2>1
  <2> QED BY <1>3, <2>1, <2>2, Zenon
<1>4. CASE Found!Plug
  <2>1. PICK u \in Units : world' = [world EXCEPT !.plugged = IF u \in @ THEN @ \ {u} ELSE @ \cup {u}]
    BY <1>4, Zenon DEF Found!Plug
  <2> DEFINE ports == IF u \in world.plugged THEN world.plugged \ {u} ELSE world.plugged \cup {u}
  <2>2. ports \in SUBSET Units
    BY <1>2 DEF Worlds
  <2>3. world' = [world EXCEPT !.plugged = ports]
    BY <2>1, Zenon
  <2> HIDE DEF ports
  <2>4. world' = [plugged |-> ports, announced |-> world.announced, due |-> world.due, moved |-> world.moved]
    BY <1>2, <2>3 DEF Worlds
  <2>5. world' \in Worlds /\ world'.announced = world.announced
    BY <1>2, <2>2, <2>4 DEF Worlds
  <2>6. /\ \A v \in Units : v # u => world'.announced[v] = world.announced[v]
        /\ world'.announced[u] \in {u, world.announced[u]}
    BY <2>5
  <2> QED BY <1>3, <2>5, <2>6, Zenon
<1>5. CASE Found!Hello
  <2>1. PICK u \in Units, a \in Hosts :
          Found!MayAnnounce(u, a) /\ world' = Announce(world, u, a, "add", world.moved \ {u})
    BY <1>5, Zenon DEF Found!Hello, Hosts, Announce
  <2>2. world.moved \ {u} \in SUBSET Units /\ a \in Hosts \cup {"none"}
        /\ "add" \in {"none", "add", "update", "remove"}
    BY <1>2 DEF Worlds
  <2>3. a \in Units => a = u
    BY <1>t, <2>1, Zenon
  <2> QED BY <1>a, <2>1, <2>2, <2>3, Zenon
<1>6. CASE Found!Refresh
  <2>1. PICK u \in Units, a \in Hosts :
          /\ Found!MayAnnounce(u, a)
          /\ LET kind == IF world.due[u] = "none" THEN "update" ELSE world.due[u]
                 gone == IF a = world.announced[u] \/ world.due[u] = "add" THEN {} ELSE {u}
             IN world' = Announce(world, u, a, kind, world.moved \cup gone)
    BY <1>6, Zenon DEF Found!Refresh, Hosts, Announce
  <2> DEFINE kind == IF world.due[u] = "none" THEN "update" ELSE world.due[u]
             gone == IF a = world.announced[u] \/ world.due[u] = "add" THEN {} ELSE {u}
             left == world.moved \cup gone
  <2>2. kind \in {"none", "add", "update", "remove"} /\ left \in SUBSET Units /\ a \in Hosts \cup {"none"}
    BY <1>2 DEF Worlds
  <2>3. world' = Announce(world, u, a, kind, left)
    BY <2>1
  <2> HIDE DEF kind, left
  <2>4. a \in Units => a = u
    BY <1>t, <2>1, Zenon
  <2> QED BY <1>a, <2>2, <2>3, <2>4, Zenon
<1>7. CASE Found!Goodbye
  <2> DEFINE a == "none"
             kind == "remove"
  <2>1. PICK u \in Units : world' = Announce(world, u, a, kind, world.moved \ {u})
    BY <1>7, Zenon DEF Found!Goodbye, Found!NoRow, Announce
  <2>2. world.moved \ {u} \in SUBSET Units /\ a \in Hosts \cup {"none"} /\ a \notin Units
        /\ kind \in {"none", "add", "update", "remove"}
    BY <1>2, <1>k DEF Worlds
  <2> HIDE DEF a, kind
  <2> QED BY <1>a, <2>1, <2>2, Zenon
<1> QED BY <1>4, <1>5, <1>6, <1>7, Zenon DEF Found!World

(* The browser's callbacks: a name is resolved, listed, and dropped again. *)
LEMMA BrowserKeeps == FoundIInv /\ Found!Browser => FoundIInv'
<1> SUFFICES ASSUME FoundIInv, Found!Browser PROVE FoundIInv'
  OBVIOUS
<1> DEFINE Ids == [Units -> Hosts \cup {"none"}]
           Callbacks == [at : {"idle", "resolve", "drop", "add", "off"}, name : Units \cup {"none"},
                         addr : Hosts \cup {"none"}]
           Pages == [posted : BOOLEAN, ev : BOOLEAN, at : {"wait", "read"}, sent : SUBSET AnyRow]
<1>0. /\ FoundTypes /\ CallbackOf(mdns, mdns_ids) /\ OwnTether(world, mdns_ids, mdns)
      /\ Distinct(devices) /\ Resolved(devices, mdns_ids) /\ NamesListed(devices, mdns_ids, mdns, robbed)
      /\ PageTold(page, devices) /\ devices \in SUBSET AnyRow
  BY FoundHas
<1>1. world \in Worlds /\ mdns_ids \in Ids /\ mdns \in Callbacks /\ page \in Pages /\ robbed \in SUBSET Units
  BY <1>0, Zenon DEF FoundTypes
<1>2. scan' = scan
  BY Zenon DEF Found!Browser, Found!Callback, Found!GetServiceInfo, Found!DropMoved, Found!OnMdns, Found!OffMdns
<1>3. \A a \in Hosts : a # "none"
  BY UnitsAssumption DEF Hosts
<1>4. ASSUME world' \in Worlds, mdns_ids' \in Ids, mdns' \in Callbacks, page' \in Pages, devices' \in SUBSET AnyRow,
             robbed' \in SUBSET Units,
             CallbackOf(mdns', mdns_ids'), PageTold(page', devices'), Distinct(devices'), Resolved(devices', mdns_ids'),
             NamesListed(devices', mdns_ids', mdns', robbed'),
             \A u \in Units, a \in Hosts : Uses(world', mdns_ids', mdns', u, a) => Uses(world, mdns_ids, mdns, u, a)
      PROVE  FoundIInv'
  <2>1. OwnTether(world', mdns_ids', mdns')
    BY <1>0, <1>4, OwnStill, Zenon
  <2> QED BY <1>0, <1>2, <1>4, <2>1, Zenon DEF FoundIInv, FoundTypes
<1>5. ASSUME UNCHANGED <<devices, page>>
      PROVE  devices' \in SUBSET AnyRow /\ page' \in Pages /\ Distinct(devices') /\ PageTold(page', devices')
  BY <1>0, <1>1, <1>5, Zenon
<1>6. ASSUME NEW rows \in SUBSET AnyRow, Distinct(rows), Found!Mutate(rows)
      PROVE  /\ devices' = rows /\ devices' \in SUBSET AnyRow /\ page' \in Pages
             /\ Distinct(devices') /\ PageTold(page', devices')
  BY <1>0, <1>6, MutateTells, Zenon
<1>7. CASE Found!Callback
  <2>1. UNCHANGED <<devices, mdns_ids, robbed, page>> /\ mdns.at = "idle"
    BY <1>7, Zenon DEF Found!Callback
  <2>2. PICK u \in Units :
          /\ world' = [world EXCEPT !.due[u] = "none"]
          /\ \/ mdns' = [at |-> "off", name |-> u, addr |-> "none"]
             \/ mdns' = [at |-> "resolve", name |-> u, addr |-> "none"]
             \/ mdns' = mdns
    BY <1>7, Zenon DEF Found!Callback, Found!NoRow
  <2>3. world' \in Worlds /\ world'.announced = world.announced
    BY <1>1, <2>2 DEF Worlds
  <2>4. mdns' \in Callbacks /\ CallbackOf(mdns', mdns_ids) /\ mdns'.at \notin {"drop", "add"}
    BY <1>0, <1>1, <2>1, <2>2 DEF CallbackOf
  <2>5. \A v \in Units, a \in Hosts : Uses(world', mdns_ids', mdns', v, a) => Uses(world, mdns_ids, mdns, v, a)
    BY <2>1, <2>3, <2>4, Zenon DEF Uses
  <2>6. NamesListed(devices', mdns_ids', mdns', robbed')
    BY <1>0, <2>1 DEF NamesListed
  <2>7. Resolved(devices', mdns_ids')
    BY <1>0, <2>1 DEF Resolved
  <2> QED BY <1>1, <1>4, <1>5, <2>1, <2>3, <2>4, <2>5, <2>6, <2>7, Zenon
<1>8. CASE Found!GetServiceInfo
  <2>1. UNCHANGED <<world, devices, mdns_ids, robbed, page>> /\ mdns.at = "resolve"
    BY <1>8, Zenon DEF Found!GetServiceInfo
  <2>2. mdns.name \in Units /\ world.announced \in Ids
    BY <1>0, <1>1, <2>1 DEF CallbackOf, Worlds
  <2>3. \/ mdns' = [mdns EXCEPT !.at = "idle"]
        \/ /\ world.announced[mdns.name] \in Hosts
           /\ mdns' = [mdns EXCEPT !.at = "drop", !.addr = world.announced[mdns.name]]
    BY <1>8, <2>2 DEF Found!GetServiceInfo, Found!NoRow
  <2>4. mdns' \in Callbacks /\ CallbackOf(mdns', mdns_ids) /\ mdns'.at # "add" /\ mdns'.name = mdns.name
        /\ (mdns'.at = "drop" => mdns'.addr = world.announced[mdns.name])
    BY <1>1, <2>2, <2>3 DEF CallbackOf
  <2>5. \A v \in Units, a \in Hosts : Uses(world', mdns_ids', mdns', v, a) => Uses(world, mdns_ids, mdns, v, a)
    BY <2>1, <2>4 DEF Uses
  <2>6. NamesListed(devices', mdns_ids', mdns', robbed')
    BY <1>0, <2>1 DEF NamesListed
  <2>7. Resolved(devices', mdns_ids')
    BY <1>0, <2>1 DEF Resolved
  <2> QED BY <1>1, <1>4, <1>5, <2>1, <2>4, <2>5, <2>6, <2>7, Zenon
<1>r. ASSUME NEW u \in Units, mdns_ids[u] # "none", mdns.at # "add",
             LET a == mdns_ids[u]
                 rows == Found!Remove(devices, <<"tcp", a>>)
             IN Found!Mutate(rows) /\ robbed' = robbed \cup Found!Sharing(u, a),
             mdns_ids' \in Ids, mdns_ids'[u] # mdns_ids[u], \A v \in Units : v # u => mdns_ids'[v] = mdns_ids[v],
             (mdns'.at = "add" /\ mdns'.name = u) \/ mdns_ids'[u] = "none"
      PROVE  /\ devices' \in SUBSET AnyRow /\ page' \in Pages /\ Distinct(devices') /\ PageTold(page', devices')
             /\ robbed' \in SUBSET Units /\ Resolved(devices', mdns_ids')
             /\ NamesListed(devices', mdns_ids', mdns', robbed')
  <2> DEFINE a == mdns_ids[u]
             rows == Found!Remove(devices, <<"tcp", a>>)
  <2>1. Found!Mutate(rows) /\ robbed' = robbed \cup Found!Sharing(u, a)
    BY <1>r
  <2>2. robbed' \in SUBSET Units /\ robbed \subseteq robbed'
        /\ \A v \in Units \ robbed' : v # u => mdns_ids[v] # a
    BY <1>1, <2>1 DEF Found!Sharing
  <2> HIDE DEF a
  <2>3. /\ rows \in SUBSET AnyRow /\ Distinct(rows)
        /\ \A i : Has(devices, i) /\ i # <<"tcp", a>> => Has(rows, i)
        /\ \A e \in rows : e \in devices /\ e.id # <<"tcp", a>>
    BY <1>0, Removed
  <2> HIDE DEF rows
  <2>4. NamesListed(rows, mdns_ids', mdns', robbed')
    <3>1. ASSUME NEW v \in Units \ robbed', mdns_ids'[v] # "none", ~(mdns'.at = "add" /\ mdns'.name = v)
          PROVE  Has(rows, <<"tcp", mdns_ids'[v]>>)
      <4>1. v # u
        BY <1>r, <3>1
      <4>2. mdns_ids'[v] = mdns_ids[v] /\ mdns_ids[v] # a /\ v \in Units \ robbed
        BY <1>r, <2>2, <4>1
      <4>3. Has(devices, <<"tcp", mdns_ids[v]>>)
        BY <1>0, <1>r, <3>1, <4>2 DEF NamesListed
      <4>4. <<"tcp", mdns_ids[v]>> # <<"tcp", a>>
        BY <4>2
      <4> QED BY <2>3, <4>2, <4>3, <4>4, Zenon
    <3> QED BY <3>1, Zenon DEF NamesListed
  <2>5. Resolved(rows, mdns_ids')
    <3>1. ASSUME NEW d \in rows, d.transport = "sta" PROVE mdns_ids'[d.unit] = d.at
      <4>1. d \in devices /\ d \in AnyRow /\ d.id # <<"tcp", a>>
        BY <2>3
      <4>2. mdns_ids[d.unit] = d.at /\ d.unit \in Units /\ d.id = <<"tcp", d.at>>
        BY <1>0, <3>1, <4>1, RowSays DEF Resolved
      <4>3. d.unit # u
        BY <4>1, <4>2 DEF a
      <4> QED BY <1>r, <4>2, <4>3
    <3> QED BY <3>1, Zenon DEF Resolved
  <2>6. /\ devices' = rows /\ devices' \in SUBSET AnyRow /\ page' \in Pages
        /\ Distinct(devices') /\ PageTold(page', devices')
    BY <1>6, <2>1, <2>3, Zenon
  <2> QED BY <2>2, <2>4, <2>5, <2>6, Zenon
<1>9. CASE Found!DropMoved
  <2>1. world' = world /\ mdns.at = "drop"
    BY <1>9, Zenon DEF Found!DropMoved
  <2>2. mdns.name \in Units /\ mdns.addr \in Hosts
    BY <1>0, <2>1 DEF CallbackOf
  <2>4. mdns_ids' = [mdns_ids EXCEPT ![mdns.name] = mdns.addr] /\ mdns' = [mdns EXCEPT !.at = "add"]
    BY <1>9, Zenon DEF Found!DropMoved
  <2>5. mdns_ids' \in Ids /\ mdns' \in Callbacks /\ mdns'.at = "add" /\ mdns'.name = mdns.name
        /\ mdns'.addr = mdns.addr /\ mdns_ids'[mdns.name] = mdns.addr
        /\ \A v \in Units : v # mdns.name => mdns_ids'[v] = mdns_ids[v]
    BY <1>1, <2>2, <2>4
  <2>6. CallbackOf(mdns', mdns_ids')
    BY <2>2, <2>5 DEF CallbackOf
  <2>7. \A v \in Units, a \in Hosts : Uses(world', mdns_ids', mdns', v, a) => Uses(world, mdns_ids, mdns, v, a)
    BY <2>1, <2>5 DEF Uses
  <2>8. CASE mdns_ids[mdns.name] \in {"none", mdns.addr}
    <3>1. UNCHANGED <<devices, page, robbed>>
      BY <1>9, <2>8, Zenon DEF Found!DropMoved, Found!NoRow
    <3>2. NamesListed(devices', mdns_ids', mdns', robbed')
      BY <1>0, <2>1, <2>5, <3>1 DEF NamesListed
    <3>3. Resolved(devices', mdns_ids')
      <4>1. ASSUME NEW d \in devices, d.transport = "sta" PROVE mdns_ids'[d.unit] = d.at
        <5>1. mdns_ids[d.unit] = d.at /\ d.unit \in Units /\ d.at \in Hosts
          BY <1>0, <4>1, RowSays DEF Resolved
        <5> QED BY <1>3, <2>5, <2>8, <5>1
      <4> QED BY <3>1, <4>1 DEF Resolved
    <3> QED BY <1>1, <1>4, <1>5, <2>1, <2>5, <2>6, <2>7, <3>1, <3>2, <3>3, Zenon
  <2>9. CASE mdns_ids[mdns.name] \notin {"none", mdns.addr}
    <3>1. /\ Found!Mutate(Found!Remove(devices, <<"tcp", mdns_ids[mdns.name]>>))
          /\ robbed' = robbed \cup Found!Sharing(mdns.name, mdns_ids[mdns.name])
      BY <1>9, <2>9, Zenon DEF Found!DropMoved, Found!NoRow
    <3>2. mdns_ids[mdns.name] # "none" /\ mdns.at # "add" /\ mdns_ids'[mdns.name] # mdns_ids[mdns.name]
      BY <2>1, <2>5, <2>9
    <3>3. /\ devices' \in SUBSET AnyRow /\ page' \in Pages /\ Distinct(devices') /\ PageTold(page', devices')
          /\ robbed' \in SUBSET Units /\ Resolved(devices', mdns_ids')
          /\ NamesListed(devices', mdns_ids', mdns', robbed')
      BY <1>r, <2>2, <2>5, <3>1, <3>2, Zenon
    <3> QED BY <1>1, <1>4, <2>1, <2>5, <2>6, <2>7, <3>3, Zenon
  <2> QED BY <2>8, <2>9, Zenon
<1>10. CASE Found!OnMdns
  <2>1. UNCHANGED <<world, mdns_ids>> /\ mdns.at = "add" /\ mdns' = [mdns EXCEPT !.at = "idle"]
    BY <1>10, Zenon DEF Found!OnMdns
  <2>2. mdns.name \in Units /\ mdns.addr \in Hosts /\ mdns_ids[mdns.name] = mdns.addr
    BY <1>0, <2>1 DEF CallbackOf
  <2>3. mdns' \in Callbacks /\ mdns'.at = "idle"
    BY <1>1, <2>1
  <2> DEFINE d == Found!Sta(mdns.name, mdns.addr)
             rows == Found!Upsert(devices, d)
  <2>4. d \in AnyRow /\ d.id = <<"tcp", mdns.addr>> /\ d.unit = mdns.name /\ d.at = mdns.addr
    BY <2>2 DEF AnyRow, Found!Sta
  <2>5. Found!Mutate(rows)
    BY <1>10 DEF Found!OnMdns
  <2> HIDE DEF d
  <2>6. /\ rows \in SUBSET AnyRow /\ Distinct(rows) /\ Has(rows, d.id)
        /\ \A id : Has(devices, id) => Has(rows, id)
        /\ \A e \in rows : e = d \/ (e \in devices /\ e.id # d.id)
    BY <1>0, <2>4, Upserted
  <2> HIDE DEF rows
  <2>7. CallbackOf(mdns', mdns_ids)
    BY <2>3 DEF CallbackOf
  <2>8. \A v \in Units, a \in Hosts : Uses(world', mdns_ids', mdns', v, a) => Uses(world, mdns_ids, mdns, v, a)
    BY <2>1, <2>3 DEF Uses
  <2>e. robbed' = {v \in robbed : mdns_ids[v] # mdns.addr}
    BY <1>10, Zenon DEF Found!OnMdns
  <2>9. NamesListed(rows, mdns_ids, mdns', robbed') /\ robbed' \in SUBSET Units
    <3>1. robbed' \in SUBSET Units /\ \A v \in Units \ robbed' : v \notin robbed \/ mdns_ids[v] = mdns.addr
      BY <1>1, <2>e
    <3>2. ASSUME NEW v \in Units \ robbed', mdns_ids[v] # "none" PROVE Has(rows, <<"tcp", mdns_ids[v]>>)
      <4>1. CASE mdns_ids[v] = mdns.addr
        BY <2>4, <2>6, <4>1, Zenon
      <4>2. CASE mdns_ids[v] # mdns.addr
        <5>1. v \in Units \ robbed /\ v # mdns.name
          BY <2>2, <3>1, <4>2
        <5>2. Has(devices, <<"tcp", mdns_ids[v]>>)
          BY <1>0, <3>2, <5>1, Zenon DEF NamesListed
        <5> QED BY <2>6, <5>2, Zenon
      <4> QED BY <4>1, <4>2
    <3> QED BY <3>1, <3>2, Zenon DEF NamesListed
  <2>10. Resolved(rows, mdns_ids)
    BY <1>0, <2>2, <2>4, <2>6 DEF Resolved
  <2>11. /\ devices' = rows /\ devices' \in SUBSET AnyRow /\ page' \in Pages
         /\ Distinct(devices') /\ PageTold(page', devices')
    BY <1>6, <2>5, <2>6, Zenon
  <2> QED BY <1>1, <1>4, <2>1, <2>3, <2>7, <2>8, <2>9, <2>10, <2>11, Zenon
<1>11. CASE Found!OffMdns
  <2>1. world' = world /\ mdns.at = "off" /\ mdns' = [mdns EXCEPT !.at = "idle"]
        /\ mdns_ids' = [mdns_ids EXCEPT ![mdns.name] = "none"]
    BY <1>11, Zenon DEF Found!OffMdns, Found!NoRow
  <2>2. mdns.name \in Units
    BY <1>0, <2>1 DEF CallbackOf
  <2>3. mdns_ids' \in Ids /\ mdns' \in Callbacks /\ mdns'.at = "idle"
        /\ mdns_ids'[mdns.name] = "none" /\ \A v \in Units : v # mdns.name => mdns_ids'[v] = mdns_ids[v]
    BY <1>1, <2>1, <2>2
  <2>4. CallbackOf(mdns', mdns_ids')
    BY <2>3 DEF CallbackOf
  <2>5. \A v \in Units, a \in Hosts : Uses(world', mdns_ids', mdns', v, a) => Uses(world, mdns_ids, mdns, v, a)
    BY <1>3, <2>1, <2>3 DEF Uses
  <2>6. CASE mdns_ids[mdns.name] = "none"
    <3>1. UNCHANGED <<devices, page, robbed>> /\ mdns_ids' = mdns_ids
      <4>1. UNCHANGED <<devices, page, robbed>>
        BY <1>11, <2>6, Zenon DEF Found!OffMdns, Found!NoRow
      <4>2. mdns_ids' = mdns_ids
        BY <1>1, <2>1, <2>2, <2>6
      <4> QED BY <4>1, <4>2
    <3>2. NamesListed(devices', mdns_ids', mdns', robbed')
      BY <1>0, <2>1, <3>1 DEF NamesListed
    <3>3. Resolved(devices', mdns_ids')
      BY <1>0, <3>1 DEF Resolved
    <3> QED BY <1>1, <1>4, <1>5, <2>1, <2>3, <2>4, <2>5, <3>1, <3>2, <3>3, Zenon
  <2>7. CASE mdns_ids[mdns.name] # "none"
    <3>1. /\ Found!Mutate(Found!Remove(devices, <<"tcp", mdns_ids[mdns.name]>>))
          /\ robbed' = robbed \cup Found!Sharing(mdns.name, mdns_ids[mdns.name])
      BY <1>11, <2>7, Zenon DEF Found!OffMdns, Found!NoRow
    <3>2. mdns.at # "add" /\ mdns_ids'[mdns.name] # mdns_ids[mdns.name]
      BY <2>1, <2>3, <2>7
    <3>3. /\ devices' \in SUBSET AnyRow /\ page' \in Pages /\ Distinct(devices') /\ PageTold(page', devices')
          /\ robbed' \in SUBSET Units /\ Resolved(devices', mdns_ids')
          /\ NamesListed(devices', mdns_ids', mdns', robbed')
      BY <1>r, <2>2, <2>3, <2>7, <3>1, <3>2, Zenon
    <3> QED BY <1>1, <1>4, <2>1, <2>3, <2>4, <2>5, <3>3, Zenon
  <2> QED BY <2>6, <2>7, Zenon
<1> QED BY <1>7, <1>8, <1>9, <1>10, <1>11, Zenon DEF Found!Browser

(* Every step of the scan, the browser, the page, the operator, the world. *)
LEMMA FoundNext == FoundIInv /\ [Found!Next]_discovery_v => FoundIInv'
<1> SUFFICES ASSUME FoundIInv, [Found!Next]_discovery_v PROVE FoundIInv'
  OBVIOUS
<1>1. CASE UNCHANGED discovery_v
  BY <1>1, Zenon DEF discovery_v, FoundIInv, FoundTypes
<1> QED BY <1>1, SerialKeeps, BrowserKeeps, FeedKeeps, OperatorKeeps, WorldKeeps, Zenon DEF Found!Next

(* A row that is on a tether is on its own unit's.                         *)
LEMMA TethersAre ==
  ASSUME FoundIInv
  PROVE  \A d \in Found!Tethers(devices) :
           d \in devices /\ d \in AnyRow /\ d.transport = "sta" /\ d.unit \in Units /\ d = Found!Sta(d.unit, d.unit)
<1> SUFFICES ASSUME NEW d \in Found!Tethers(devices)
             PROVE  d \in devices /\ d \in AnyRow /\ d.transport = "sta" /\ d.unit \in Units
                    /\ d = Found!Sta(d.unit, d.unit)
  OBVIOUS
<1>0. /\ FoundTypes /\ OwnTether(world, mdns_ids, mdns) /\ Resolved(devices, mdns_ids) /\ devices \in SUBSET AnyRow
  BY FoundHas
<1>1. d \in devices /\ d.transport = "sta" /\ Found!IsNcmTether(d.at)
  BY DEF Found!Tethers
<1>2. d.at \in Units
  <2>1. PICK u \in Units : [x \in Units |-> x][u] = d.at
    BY <1>1, Zenon DEF Found!IsNcmTether
  <2> QED BY <2>1
<1>3. d \in AnyRow /\ d.unit \in Units /\ d = Found!Sta(d.unit, d.at) /\ mdns_ids[d.unit] = d.at
  BY <1>0, <1>1, RowSays DEF Resolved
<1>4. d.unit = d.at
  BY <1>0, <1>2, <1>3, Zenon DEF OwnTether, Uses
<1> QED BY <1>1, <1>3, <1>4

(* The rows' backing, their ids and the page.                              *)
LEMMA RowsSafe == FoundIInv => Found!RowsBacked
<1> SUFFICES ASSUME FoundIInv PROVE Found!RowsBacked
  OBVIOUS
<1>1. page.sent # devices => page.posted \/ page.ev \/ page.at = "read"
  BY FoundHas, Zenon DEF PageTold
<1>2. \A d, e \in devices : d.id = e.id => d = e
  BY FoundHas, Zenon DEF Distinct
<1>3. \A d \in devices : d.transport = "sta" => mdns_ids[d.unit] = d.at
  BY FoundHas, Zenon DEF Resolved
<1>4. mdns.at = "idle" => \A u \in Units \ robbed : mdns_ids[u] # "none" => \E d \in devices : d.id = <<"tcp", mdns_ids[u]>>
  BY FoundHas DEF NamesListed, Has
<1> QED BY <1>1, <1>2, <1>3, <1>4, Zenon DEF Found!RowsBacked, Found!NoRow

(* A unit is shown on USB once, and a click finds it.                      *)
LEMMA UnitSafe == FoundIInv => Found!UnitOnce
<1> SUFFICES ASSUME FoundIInv PROVE Found!UnitOnce
  OBVIOUS
<1> DEFINE T == Found!Tethers(devices)
           tethered == {d.unit : d \in T}
           base == {r \in devices : ~(r.transport = "usb" /\ r.unit \in tethered)}
           As(r) == IF r \in T THEN [r EXCEPT !.transport = "usb"] ELSE r
           shows == Found!UiSnapshot(devices)
<1>0. Distinct(devices) /\ devices \in SUBSET AnyRow
  BY FoundHas
<1>1. \A d \in T : d \in devices /\ d \in AnyRow /\ d.transport = "sta" /\ d.unit \in Units /\ d = Found!Sta(d.unit, d.unit)
  BY TethersAre, Zenon
<1>2. shows = {As(r) : r \in base}
  BY Zenon DEF Found!UiSnapshot
<1>t. \A d \in T : d.unit \in tethered
  BY Zenon
<1> HIDE DEF T
<1>3. ASSUME NEW d \in shows, NEW e \in shows, d.transport = "usb", e.transport = "usb", d.unit = e.unit
      PROVE  d = e
  <2>1. PICK r \in base : d = As(r)
    BY <1>2, Zenon
  <2>2. PICK s \in base : e = As(s)
    BY <1>2, Zenon
  <2>3. ASSUME NEW x \in base, As(x).transport = "usb"
        PROVE  /\ x \in T => As(x).unit = x.unit /\ x = Found!Sta(x.unit, x.unit)
               /\ x \notin T => As(x) = x /\ x = Found!Usb(x.unit) /\ x.unit \notin tethered
    <3>1. CASE x \in T
      <4>1. x = Found!Sta(x.unit, x.unit)
        BY <1>1, <3>1, Zenon
      <4>2. As(x) = [x EXCEPT !.transport = "usb"]
        BY <3>1, Zenon
      <4> HIDE DEF As
      <4> QED BY <3>1, <4>1, <4>2 DEF Found!Sta
    <3>2. CASE x \notin T
      <4>1. As(x) = x /\ x \in devices /\ x.unit \notin tethered /\ x.transport = "usb"
        BY <2>3, <3>2
      <4> QED BY <1>0, <3>2, <4>1, RowSays
    <3> QED BY <3>1, <3>2, Zenon
  <2> HIDE DEF base, As, tethered
  <2>4. /\ r \in T => d.unit = r.unit /\ r = Found!Sta(r.unit, r.unit)
        /\ r \notin T => d = r /\ r = Found!Usb(r.unit) /\ r.unit \notin tethered
    BY <1>3, <2>1, <2>3, Zenon
  <2>5. /\ s \in T => e.unit = s.unit /\ s = Found!Sta(s.unit, s.unit)
        /\ s \notin T => e = s /\ s = Found!Usb(s.unit) /\ s.unit \notin tethered
    BY <1>3, <2>2, <2>3, Zenon
  <2> QED BY <1>3, <1>t, <2>1, <2>2, <2>4, <2>5, Zenon
<1>4. ASSUME NEW d \in devices
      PROVE  /\ Found!Cardinality(Found!Resolve(devices, d.id)) = 1
             /\ \A r \in Found!Resolve(devices, d.id) :
                  /\ r.unit = d.unit
                  /\ d.transport = "usb" /\ d.unit \in tethered => r.at = d.unit
  <2> DEFINE clicked == {x \in devices : x.id = d.id}
             ncm == {x \in T : \E c \in clicked : c.transport = "usb" /\ c.unit = x.unit}
             hit == Found!Resolve(devices, d.id)
  <2>1. hit = IF ncm # {} THEN ncm ELSE clicked
    BY Zenon DEF Found!Resolve, T
  <2>2. clicked = {d}
    BY <1>0 DEF Distinct
  <2> HIDE DEF clicked
  <2>3. \A x \in ncm : x \in T /\ d.transport = "usb" /\ x.unit = d.unit /\ x = Found!Sta(d.unit, d.unit)
    BY <1>1, <2>2
  <2>4. d.transport = "usb" /\ d.unit \in tethered => ncm # {}
    BY <2>2
  <2>5. PICK h : /\ hit = {h} /\ h.unit = d.unit
                 /\ d.transport = "usb" /\ d.unit \in tethered => h = Found!Sta(d.unit, d.unit)
    <3> HIDE DEF ncm, hit
    <3>1. CASE ncm = {}
      BY <2>1, <2>2, <2>4, <3>1, Zenon
    <3>2. CASE ncm # {}
      <4>1. PICK x \in ncm : TRUE
        BY <3>2, Zenon
      <4>2. ncm = {x}
        BY <2>3, <4>1
      <4> QED BY <2>1, <2>3, <3>2, <4>1, <4>2, Zenon
    <3> QED BY <3>1, <3>2, Zenon
  <2>6. Found!Cardinality(hit) = 1
    <3>1. Found!Cardinality(hit) = Cardinality(hit)
      BY Zenon DEF Cardinality, Found!Cardinality
    <3>2. Cardinality({h}) = 1
      BY FS_Singleton, Zenon
    <3> QED BY <2>5, <3>1, <3>2, Zenon
  <2> HIDE DEF hit
  <2>7. Found!Sta(d.unit, d.unit).at = d.unit
    BY DEF Found!Sta
  <2>8. \A r \in hit : r.unit = d.unit /\ (d.transport = "usb" /\ d.unit \in tethered => r.at = d.unit)
    BY <2>5, <2>7, Zenon
  <2> QED BY <2>6, <2>8, Zenon DEF hit
<1>5. ASSUME NEW d \in devices, d.unit \in tethered PROVE [u \in Units |-> u][d.unit] = d.unit
  BY <1>1, <1>5
<1>6. \A d \in devices :
        /\ Found!Cardinality(Found!Resolve(devices, d.id)) = 1
        /\ \A r \in Found!Resolve(devices, d.id) :
             /\ r.unit = d.unit
             /\ d.transport = "usb" /\ d.unit \in {t.unit : t \in Found!Tethers(devices)} =>
                  r.at = [u \in Units |-> u][d.unit]
  <2> SUFFICES ASSUME NEW d \in devices
               PROVE  /\ Found!Cardinality(Found!Resolve(devices, d.id)) = 1
                      /\ \A r \in Found!Resolve(devices, d.id) :
                           /\ r.unit = d.unit
                           /\ d.transport = "usb" /\ d.unit \in tethered => r.at = [u \in Units |-> u][d.unit]
    BY Zenon DEF T
  <2> QED BY <1>4, <1>5, Zenon
<1> QED BY <1>3, <1>6, Zenon DEF Found!UnitOnce

(* Every Wi-Fi row is of the name that resolved to it and every name has   *)
(* its row, ids are unique, the page is told; a unit on its tether is one  *)
(* row on USB, and a click connects to the unit it was on: for any units   *)
(* and addresses, however plugs, announcements, goodbyes, scans and the    *)
(* operator's additions interleave.                                        *)
THEOREM RowsAreTrue == MCSpec => []RowsTrue
<1> DEFINE Inv == focus = "discovery" => FoundIInv
<1>1. MCInit => Inv
  BY FoundInit, Zenon DEF MCInit
<1>2. Inv /\ [MCNext]_vars => Inv'
  <2>1. [MCNext]_vars => focus' = focus /\ (focus = "discovery" => [Found!Next]_discovery_v)
    BY Zenon DEF MCNext, vars
  <2> QED BY <2>1, FoundNext, Zenon
<1>3. Inv => RowsTrue
  BY RowsSafe, UnitSafe, Zenon DEF RowsTrue
<1> QED BY <1>1, <1>2, <1>3, PTL DEF MCSpec

-----------------------------------------------------------------------------
(***************************************************************************)
(* The settings code (SettingsQr), of every configuration and every flag.  *)
(* A text is its length or what it is instead of one; what is in a         *)
(* configuration's other fields does not matter.                           *)
(***************************************************************************)
Texts == Nat \cup {Qr!Absent, Qr!Wrong, Qr!Number}
Configs ==
  [t : STRING, v : Int, keys : SUBSET STRING, meta : [Qr!MetaFields -> Texts],
   storage : [host : HostKinds, slash : BOOLEAN, text : [Qr!StorageTexts -> Texts]],
   bitrate_kbps : Int, resolution : Int, wifi : [Qr!WifiFields -> Texts],
   sealed : [kid : STRING, has : SUBSET STRING, bytes : Nat]]
Args ==
  [rk : STRING, rko : STRING, dev : Nat, exp : BOOLEAN, plaintext : BOOLEAN,
   first_provision : BOOLEAN]

(* What normalising a configuration leaves of it.                          *)
LEMMA NormalisedKeeps ==
  ASSUME NEW c \in Configs
  PROVE  LET n == Qr!NormalizeStoragePrefix(Qr!NormalizeBareNumbers(c))
             m == Qr!NormalizeBareNumbers(c)
         IN /\ n \in Configs /\ m \in Configs
            /\ n.keys = m.keys
            /\ n.storage.text["secret_access_key"] = m.storage.text["secret_access_key"]
            /\ m.storage.text["secret_access_key"] \in Nat \cup {Qr!Absent, Qr!Wrong}
<1> DEFINE m == Qr!NormalizeBareNumbers(c)
           n == Qr!NormalizeStoragePrefix(m)
<1>1. m.storage = Qr!StorageAsText(c.storage) /\ m.keys = c.keys /\ m \in Configs
  <2>1. Qr!AsText(c.meta) \in [Qr!MetaFields -> Texts] /\ Qr!AsText(c.wifi) \in [Qr!WifiFields -> Texts]
    BY DEF Qr!AsText, Configs, Texts, Qr!Number
  <2>2. Qr!StorageAsText(c.storage) \in [host : HostKinds, slash : BOOLEAN, text : [Qr!StorageTexts -> Texts]]
    <3>1. Qr!AsText(c.storage.text) \in [Qr!StorageTexts -> Texts]
      BY DEF Qr!AsText, Configs, Texts, Qr!Number
    <3>2. c.storage.host \in HostKinds /\ c.storage.slash \in BOOLEAN
      BY Zenon DEF Configs
    <3>3. (IF c.storage.text.endpoint_url = Qr!Number THEN "not http" ELSE c.storage.host) \in HostKinds
      BY <3>2 DEF HostKinds
    <3> QED BY <3>1, <3>2, <3>3, Zenon DEF Qr!StorageAsText
  <2> QED BY <2>1, <2>2 DEF Configs, Qr!NormalizeBareNumbers
<1>2. m.storage.text["secret_access_key"] \in Nat \cup {Qr!Absent, Qr!Wrong}
  <2>1. c.storage.text \in [Qr!StorageTexts -> Texts] /\ "secret_access_key" \in Qr!StorageTexts
    BY DEF Configs, Qr!StorageTexts
  <2>2. m.storage.text = Qr!AsText(c.storage.text)
    <3>1. Qr!StorageAsText(c.storage).text = Qr!AsText(c.storage.text)
      BY DEF Qr!StorageAsText
    <3> HIDE DEF m
    <3> QED BY <1>1, <3>1
  <2>3. c.storage.text["secret_access_key"] \in Texts
    BY <2>1
  <2>4. m.storage.text["secret_access_key"]
          = IF c.storage.text["secret_access_key"] = Qr!Number THEN 3 ELSE c.storage.text["secret_access_key"]
    BY <2>1, <2>2 DEF Qr!AsText
  <2> QED BY <2>3, <2>4 DEF Texts, Qr!Number, Qr!Absent, Qr!Wrong
<1> HIDE DEF m
<1>3. n \in Configs /\ n.keys = m.keys /\ n.storage.text["secret_access_key"] = m.storage.text["secret_access_key"]
  <2> DEFINE s == m.storage
             prefix == IF s.text.prefix \in {Qr!Absent, 0} THEN Qr!DefaultPrefix
                       ELSE IF Qr!Is(s.text.prefix) /\ ~s.slash THEN s.text.prefix + 1 ELSE s.text.prefix
             text == [s.text EXCEPT !.prefix = prefix]
             store == [host |-> s.host, slash |-> TRUE, text |-> text]
  <2>1. s.text \in [Qr!StorageTexts -> Texts] /\ s.host \in HostKinds
    BY <1>1, Zenon DEF Configs
  <2>2. "prefix" \in Qr!StorageTexts /\ s.text.prefix \in Texts
    BY <2>1 DEF Qr!StorageTexts, Qr!BucketFields
  <2>3. prefix \in Texts
    BY <2>2 DEF Texts, Qr!Is, Qr!DefaultPrefix, Qr!Absent, Qr!Number, Qr!Wrong
  <2> HIDE DEF prefix
  <2>4. text \in [Qr!StorageTexts -> Texts] /\ text["secret_access_key"] = s.text["secret_access_key"]
    BY <2>1, <2>3
  <2> HIDE DEF text
  <2>5. store \in [host : HostKinds, slash : BOOLEAN, text : [Qr!StorageTexts -> Texts]] /\ store.text = text
    BY <2>1, <2>4
  <2>6. n = IF Qr!IsIngest(s) THEN m ELSE [m EXCEPT !.storage = store]
    BY Zenon DEF Qr!NormalizeStoragePrefix, store, text, prefix
  <2> HIDE DEF store, s, n
  <2>7. CASE Qr!IsIngest(s)
    BY <2>6, <2>7, <1>1, Zenon DEF s
  <2>8. CASE ~Qr!IsIngest(s)
    <3>1. n = [m EXCEPT !.storage = store]
      BY <2>6, <2>8
    <3>2. n \in Configs /\ n.keys = m.keys /\ n.storage = store
      BY <3>1, <2>5, <1>1 DEF Configs
    <3> QED BY <3>2, <2>4, <2>5 DEF s
  <2> QED BY <2>7, <2>8
<1> QED BY <1>1, <1>2, <1>3 DEF m

(* A printed payload: what it has sealed is an envelope's summary.         *)
Payloads(kept) ==
  [t : STRING \cup {"visio-settings"}, v : Int, keys : SUBSET (STRING \cup {"sealed"}),
   meta : [Qr!MetaFields -> Texts],
   storage : [host : HostKinds, slash : BOOLEAN, text : [Qr!StorageTexts -> Texts]],
   bitrate_kbps : Int, resolution : Int, wifi : [Qr!WifiFields -> Texts], sealed : kept]

(* What validate() finds nothing wrong with fits the device's buffers.     *)
LEMMA ValidFits ==
  ASSUME NEW kept, NEW p \in Payloads(kept), Qr!Validate(p) = {}
  PROVE  /\ p.v \in {1, 2} /\ p.keys \subseteq Qr!KnownKeys(p.v)
         /\ "meta" \in p.keys => Qr!TextsBad(p.meta, Qr!MetaFields, {}) = {}
         /\ "storage" \in p.keys => Qr!TextsBad(p.storage.text, Qr!StorageTexts, {}) = {}
<1>1. p.v \in {1, 2} /\ p.keys \subseteq Qr!KnownKeys(p.v)
  BY DEF Qr!Validate
<1>2. UNION {Qr!SectionBad(p, k) : k \in p.keys} = {}
  BY <1>1 DEF Qr!Validate
<1>3. \A k \in p.keys : Qr!SectionBad(p, k) = {}
  BY <1>2
<1>4. "meta" \in p.keys => Qr!TextsBad(p.meta, Qr!MetaFields, {}) = {}
  BY <1>3 DEF Qr!SectionBad
<1>5. ASSUME "storage" \in p.keys PROVE Qr!TextsBad(p.storage.text, Qr!StorageTexts, {}) = {}
  <2>1. Qr!ValidateStorage(p.storage, p.v) = {}
    BY <1>3, <1>5 DEF Qr!SectionBad
  <2>2. \A f \in Qr!StorageTexts : p.storage.text[f] \in Texts
    BY DEF Payloads
  <2>3. SUFFICES ASSUME NEW f \in Qr!StorageTexts
                 PROVE  ~Qr!StringBad(p.storage.text[f], f \in {}, Qr!UsableBytes[f])
    BY Zenon DEF Qr!TextsBad
  <2>4. CASE p.storage.text[f] = Qr!Absent
    BY <2>4 DEF Qr!StringBad, Qr!Absent, Qr!Wrong, Qr!Number, Qr!UsableBytes, Qr!StorageTexts, Qr!BucketFields,
                Qr!IngestFields
  <2>5. CASE p.storage.text[f] # Qr!Absent
    <3>1. f \in Qr!Given(p.storage)
      BY <2>5 DEF Qr!Given
    <3>2. CASE Qr!IsIngest(p.storage)
      <4>1. Qr!ValidateIngest(p.storage, p.v) = {}
        BY <2>1, <3>2 DEF Qr!ValidateStorage
      <4>2. CASE f \in Qr!IngestFields
        BY <4>1, <4>2, Zenon DEF Qr!ValidateIngest, Qr!TextsBad, Qr!StringBad
      <4>3. CASE f \notin Qr!IngestFields
        <5>1. f = "secret_access_key" /\ p.v = 1 /\ p.storage.text[f] \in {Qr!Absent, 0, 43}
          BY <3>1, <4>1, <4>3 DEF Qr!ValidateIngest
        <5> QED BY <5>1 DEF Qr!StringBad, Qr!Absent, Qr!Wrong, Qr!Number, Qr!UsableBytes
      <4> QED BY <4>2, <4>3
    <3>3. CASE ~Qr!IsIngest(p.storage)
      <4> DEFINE fields == Qr!BucketFields \cup IF p.v = 1 THEN {"secret_access_key"} ELSE {}
      <4>1. Qr!ValidateBucket(p.storage, p.v) = {}
        BY <2>1, <3>3 DEF Qr!ValidateStorage
      <4>2. f \in fields
        BY <3>1, <4>1 DEF Qr!ValidateBucket
      <4>3. Qr!TextsBad(p.storage.text, fields, {"endpoint_url", "bucket", "access_key_id"}) = {}
        BY <4>1 DEF Qr!ValidateBucket
      <4> HIDE DEF fields
      <4> QED BY <4>2, <4>3, Zenon DEF Qr!TextsBad, Qr!StringBad
    <3> QED BY <3>2, <3>3
  <2> QED BY <2>4, <2>5
<1> QED BY <1>1, <1>4, <1>5

(* The dump of a code shows neither cleartext secret.                      *)
LEMMA MaskHides ==
  ASSUME NEW kept, NEW p \in Payloads(kept)
  PROVE  Qr!Mask(p).storage.text.secret_access_key = Qr!Absent /\ Qr!Mask(p).wifi.passphrase = Qr!Absent
BY DEF Payloads, Qr!Mask, Qr!StorageTexts, Qr!WifiFields

(* The secrets of a code, once a wrong one has been refused.               *)
Secrets ==
  [sk : Nat \cup {Qr!Absent}, rk : STRING, rko : STRING, dev : Nat, exp : BOOLEAN]

(* An envelope opens to what was sealed, with its own key and untouched.   *)
LEMMA EnvelopeOpens ==
  ASSUME NEW s \in Secrets
  PROVE  LET b == Qr!Seal(s, "fleet")
         IN /\ Qr!BodyBytes(s) \in Nat /\ b.bytes = 56 + Qr!BodyBytes(s)
            /\ Qr!Unseal(b, "fleet") = "opened"
            /\ Qr!FromBody(b.body) = [ok |-> TRUE, secrets |-> s]
            /\ Qr!Unseal(b, "other") = "wrong fleet key"
            /\ Qr!Unseal([b EXCEPT !.kid = "other"], "other") # "opened"
            /\ Qr!Unseal([b EXCEPT !.whole = FALSE], "fleet") = "tampered"
<1> DEFINE b == Qr!Seal(s, "fleet")
<1>1. Qr!BodyBytes(s) \in Nat
  <2>1. (IF s.sk = Qr!Absent THEN 0 ELSE 8 + s.sk) \in Nat /\ (IF s.dev = 0 THEN 0 ELSE 8 + 19 * s.dev) \in Nat
    BY DEF Secrets
  <2>2. /\ (IF ~Qr!Touches(s) THEN 0 ELSE IF Qr!Clears(s) THEN 8 ELSE 51) \in Nat
        /\ (IF s.rko = "absent" THEN 0 ELSE 52) \in Nat /\ (IF s.exp THEN 17 ELSE 0) \in Nat
    OBVIOUS
  <2> QED BY <2>1, <2>2 DEF Qr!BodyBytes
<1>2. b.bytes = 56 + Qr!BodyBytes(s)
  BY DEF Qr!Seal
<1>3. Qr!Unseal(b, "fleet") = "opened"
  BY <1>1 DEF Qr!Seal, Qr!Unseal
<1>4. Qr!Unseal(b, "other") = "wrong fleet key"
  BY <1>1 DEF Qr!Seal, Qr!Unseal
<1>5. Qr!Unseal([b EXCEPT !.kid = "other"], "other") # "opened"
  BY <1>1 DEF Qr!Seal, Qr!Unseal
<1>6. Qr!Unseal([b EXCEPT !.whole = FALSE], "fleet") = "tampered"
  BY <1>1 DEF Qr!Seal, Qr!Unseal
<1>7. Qr!FromBody(b.body) = [ok |-> TRUE, secrets |-> s]
  <2>1. b.body = Qr!ToBody(s)
    BY DEF Qr!Seal
  <2> DEFINE d == Qr!ToBody(s)
             rk == CASE Qr!Clears(s) -> "empty" [] Qr!Touches(s) -> "canonical" [] OTHER -> "absent"
  <2>2. /\ d.sk = s.sk /\ d.rk = rk /\ d.key = s.rk /\ d.rko = s.rko /\ d.dev = s.dev
        /\ d.exp = s.exp /\ d.unknown = FALSE
    BY Zenon DEF Qr!ToBody
  <2>3. rk \in {"absent", "empty", "canonical"}
        /\ s.rk = CASE rk = "absent" -> "absent" [] rk = "empty" -> "clear" [] OTHER -> s.rk
    BY DEF Qr!Clears, Qr!Touches
  <2>4. s.sk # Qr!Wrong
    BY DEF Secrets, Qr!Absent, Qr!Wrong
  <2> HIDE DEF d, rk
  <2> DEFINE f == [sk |-> s.sk, rko |-> s.rko, dev |-> s.dev, exp |-> s.exp, rk |-> s.rk]
  <2>5. s = f
    BY DEF Secrets
  <2>6. Qr!FromBody(d) = [ok |-> TRUE, secrets |-> f]
    BY <2>2, <2>3, <2>4, Zenon DEF Qr!FromBody
  <2> QED BY <2>1, <2>5, <2>6 DEF d
<1> QED BY <1>1, <1>2, <1>3, <1>4, <1>5, <1>6, <1>7

(* What sealing makes of a configuration.                                  *)
LEMMA SealedInto ==
  ASSUME NEW n \in Configs, NEW s \in Secrets
  PROVE  LET p == Qr!SealInto(n, s, "fleet")
             b == Qr!Seal(s, "fleet")
             summary == [kid |-> b.kid, has |-> Qr!Has(s), b |-> b, bytes |-> b.bytes]
         IN /\ p.v = 2 /\ p.storage.text["secret_access_key"] = Qr!Absent
            /\ Qr!IsEmpty(s) => p.keys = n.keys /\ p \in Payloads({n.sealed})
            /\ ~Qr!IsEmpty(s) =>
                 p.keys = n.keys \cup {"sealed"} /\ p.sealed = summary /\ p \in Payloads({summary})
<1> DEFINE b == Qr!Seal(s, "fleet")
           summary == [kid |-> b.kid, has |-> Qr!Has(s), b |-> b, bytes |-> b.bytes]
           o == [n EXCEPT !.t = "visio-settings", !.v = 2, !.storage.text.secret_access_key = Qr!Absent]
           p == Qr!SealInto(n, s, "fleet")
<1>1. o.v = 2 /\ o.keys = n.keys /\ o.storage.text["secret_access_key"] = Qr!Absent /\ o \in Payloads({n.sealed})
  <2> DEFINE text == [n.storage.text EXCEPT !["secret_access_key"] = Qr!Absent]
             store == [n.storage EXCEPT !.text = text]
  <2>1. text \in [Qr!StorageTexts -> Texts] /\ text["secret_access_key"] = Qr!Absent
    BY DEF Configs, Texts, Qr!StorageTexts
  <2>2. o = [n EXCEPT !.t = "visio-settings", !.v = 2, !.storage = store]
    OBVIOUS
  <2> HIDE DEF text
  <2>3. store \in [host : HostKinds, slash : BOOLEAN, text : [Qr!StorageTexts -> Texts]] /\ store.text = text
    BY <2>1 DEF Configs
  <2> HIDE DEF store, o
  <2>4. o.v = 2 /\ o.keys = n.keys /\ o.storage = store
    BY <2>2 DEF Configs
  <2>5. n.keys \in SUBSET (STRING \cup {"sealed"})
    BY DEF Configs
  <2>6. o \in Payloads({n.sealed})
    <3>1. o = [t |-> "visio-settings", v |-> 2, keys |-> n.keys, meta |-> n.meta, storage |-> store,
               bitrate_kbps |-> n.bitrate_kbps, resolution |-> n.resolution, wifi |-> n.wifi, sealed |-> n.sealed]
      BY <2>2 DEF Configs
    <3>2. /\ n.meta \in [Qr!MetaFields -> Texts] /\ n.wifi \in [Qr!WifiFields -> Texts]
          /\ n.bitrate_kbps \in Int /\ n.resolution \in Int
      BY DEF Configs
    <3>3. "visio-settings" \in STRING \cup {"visio-settings"} /\ 2 \in Int /\ n.sealed \in {n.sealed}
      OBVIOUS
    <3> QED BY <2>3, <2>5, <3>1, <3>2, <3>3, Zenon DEF Payloads
  <2> QED BY <2>1, <2>3, <2>4, <2>6
<1>2. p = IF Qr!IsEmpty(s) THEN o
          ELSE [o EXCEPT !.keys = n.keys \cup {"sealed"}, !.sealed = summary]
  BY <1>1 DEF Qr!SealInto
<1> HIDE DEF o, p, summary
<1>3. CASE Qr!IsEmpty(s)
  BY <1>1, <1>2, <1>3 DEF p, summary
<1>4. CASE ~Qr!IsEmpty(s)
  <2>1. p = [o EXCEPT !.keys = n.keys \cup {"sealed"}, !.sealed = summary]
    BY <1>2, <1>4
  <2>2. n.keys \cup {"sealed"} \in SUBSET (STRING \cup {"sealed"})
    BY DEF Configs
  <2>3. p.v = 2 /\ p.keys = n.keys \cup {"sealed"} /\ p.sealed = summary /\ p \in Payloads({summary})
        /\ p.storage = o.storage
    BY <1>1, <2>1, <2>2 DEF Payloads
  <2> QED BY <1>1, <1>4, <2>3 DEF p, summary
<1> QED BY <1>3, <1>4

(* A code that is printed carries what it was given, and nothing else.     *)
LEMMA CodesAreWhole ==
  ASSUME NEW c \in Configs, NEW a \in Args
  PROVE  Qr!CodeCarriesSecrets(c, a)
<1> DEFINE m == Qr!NormalizeBareNumbers(c)
           n == Qr!NormalizeStoragePrefix(m)
           s == Qr!CollectSecrets(m, a)
           p == IF a.plaintext THEN [n EXCEPT !.v = 1] ELSE Qr!SealInto(n, s, "fleet")
           b == Qr!Seal(s, "fleet")
           summary == [kid |-> b.kid, has |-> Qr!Has(s), b |-> b, bytes |-> b.bytes]
           r == Qr!CmdQr(c, a)
           texts == (IF "meta" \in p.keys THEN Qr!TextsBad(p.meta, Qr!MetaFields, {}) ELSE {})
                    \cup IF "storage" \in p.keys THEN Qr!TextsBad(p.storage.text, Qr!StorageTexts, {}) ELSE {}
           carried ==
             IF p.v = 1 THEN ~Qr!Touches(s) /\ s.dev = 0 /\ ~s.exp /\ "sealed" \notin p.keys
             ELSE /\ p.storage.text.secret_access_key = Qr!Absent
                  /\ IF "sealed" \notin p.keys THEN Qr!IsEmpty(s)
                     ELSE /\ Qr!Unseal(p.sealed.b, "fleet") = "opened"
                          /\ Qr!FromBody(p.sealed.b.body) = [ok |-> TRUE, secrets |-> s]
                          /\ Qr!Unseal(p.sealed.b, "other") = "wrong fleet key"
                          /\ Qr!Unseal([p.sealed.b EXCEPT !.kid = "other"], "other") # "opened"
                          /\ Qr!Unseal([p.sealed.b EXCEPT !.whole = FALSE], "fleet") = "tampered"
                          /\ p.sealed.bytes <= Qr!SealedMaxBytes
           proven == Qr!Touches(s) => s.rko # "absent" \/ (a.first_provision /\ ~Qr!Clears(s))
           hidden == Qr!Mask(p).storage.text.secret_access_key = Qr!Absent /\ Qr!Mask(p).wifi.passphrase = Qr!Absent
<1>1. /\ n \in Configs /\ m \in Configs
      /\ m.storage.text["secret_access_key"] \in Nat \cup {Qr!Absent, Qr!Wrong}
      /\ Qr!CollectSecrets(n, a) = s
  BY NormalisedKeeps DEF Qr!CollectSecrets
<1> HIDE DEF m, n
<1>2. s.sk # Qr!Wrong => s \in Secrets
  <2>1. s.sk \in Nat \cup {Qr!Absent, Qr!Wrong}
    BY <1>1 DEF Qr!CollectSecrets
  <2>2. s.rk = a.rk /\ s.rko = a.rko /\ s.dev = a.dev /\ s.exp = a.exp
        /\ s = [sk |-> s.sk, rk |-> s.rk, rko |-> s.rko, dev |-> s.dev, exp |-> s.exp]
    BY DEF Qr!CollectSecrets
  <2>3. a.rk \in STRING /\ a.rko \in STRING /\ a.dev \in Nat /\ a.exp \in BOOLEAN
    BY Zenon DEF Args
  <2> HIDE DEF s
  <2> QED BY <2>1, <2>2, <2>3, Zenon DEF Secrets
<1> HIDE DEF s
<1>3. ASSUME r.printed
      PROVE  /\ s.sk # Qr!Wrong /\ (a.plaintext => ~Qr!PlaintextRefused(s))
             /\ ~a.plaintext => /\ ~Qr!ChangeRefused(s, a.first_provision) /\ "sealed" \notin n.keys
                                /\ Qr!IsEmpty(s) \/ ~(56 + Qr!BodyBytes(s) > Qr!SealedMaxBytes)
             /\ Qr!Validate(p) = {} /\ r.payload = p
  <2>1. \A why : Qr!Refused(why).printed = FALSE
    BY DEF Qr!Refused
  <2>2. r = IF s.sk = Qr!Wrong THEN Qr!Refused("secret")
            ELSE IF a.plaintext /\ Qr!PlaintextRefused(s) THEN Qr!Refused("plaintext")
            ELSE IF ~a.plaintext /\ Qr!ChangeRefused(s, a.first_provision) THEN Qr!Refused("proof")
            ELSE IF ~a.plaintext /\ "sealed" \in n.keys THEN Qr!Refused("sealed already")
            ELSE IF ~a.plaintext /\ ~Qr!IsEmpty(s) /\ 56 + Qr!BodyBytes(s) > Qr!SealedMaxBytes THEN Qr!Refused("too large")
            ELSE IF Qr!Validate(p) # {} THEN Qr!Refused("invalid")
            ELSE IF Qr!Encoded(p) > Qr!MaxBytes THEN Qr!Refused("too dense")
            ELSE [printed |-> TRUE, payload |-> p]
    BY <1>1, Zenon DEF Qr!CmdQr, m, n
  <2> HIDE DEF r, p
  <2> QED BY <1>3, <2>1, <2>2
<1>4. Qr!CodeCarriesSecrets(c, a) = (r.printed => /\ carried /\ proven /\ texts = {} /\ hidden)
  <2> SUFFICES ASSUME r.printed PROVE Qr!CodeCarriesSecrets(c, a) = (carried /\ proven /\ texts = {} /\ hidden)
    BY Zenon DEF Qr!CodeCarriesSecrets
  <2>1. r.payload = p
    BY <1>3
  <2> HIDE DEF p
  <2> QED BY <2>1, Zenon DEF Qr!CodeCarriesSecrets, m, s
<1>5. SUFFICES ASSUME r.printed PROVE carried /\ proven /\ texts = {} /\ hidden
  BY <1>4, Zenon
<1>6. s \in Secrets /\ Qr!Validate(p) = {} /\ (a.plaintext => ~Qr!PlaintextRefused(s))
      /\ (~a.plaintext => ~Qr!ChangeRefused(s, a.first_provision) /\ "sealed" \notin n.keys)
  BY <1>2, <1>3, <1>5, Zenon
<1>7. ASSUME NEW kept, p \in Payloads(kept)
      PROVE  texts = {} /\ hidden /\ p.v \in {1, 2} /\ p.keys \subseteq Qr!KnownKeys(p.v)
  <2>1. hidden
    BY <1>7, MaskHides
  <2> HIDE DEF p
  <2> QED BY <1>6, <1>7, <2>1, ValidFits, Zenon
<1>8. CASE a.plaintext
  <2>1. p = [n EXCEPT !.v = 1]
    BY <1>8
  <2>2. p \in Payloads({n.sealed}) /\ p.v = 1
    <3>1. p = [t |-> n.t, v |-> 1, keys |-> n.keys, meta |-> n.meta, storage |-> n.storage,
               bitrate_kbps |-> n.bitrate_kbps, resolution |-> n.resolution, wifi |-> n.wifi, sealed |-> n.sealed]
      BY <1>1, <2>1 DEF Configs
    <3>2. /\ n.meta \in [Qr!MetaFields -> Texts] /\ n.wifi \in [Qr!WifiFields -> Texts]
          /\ n.bitrate_kbps \in Int /\ n.resolution \in Int
          /\ n.storage \in [host : HostKinds, slash : BOOLEAN, text : [Qr!StorageTexts -> Texts]]
      BY <1>1 DEF Configs
    <3>3. n.t \in STRING \cup {"visio-settings"} /\ 1 \in Int /\ n.sealed \in {n.sealed}
          /\ n.keys \in SUBSET (STRING \cup {"sealed"})
      BY <1>1 DEF Configs
    <3> HIDE DEF p
    <3>4. p \in Payloads({n.sealed})
      BY <3>1, <3>2, <3>3, Zenon DEF Payloads
    <3> QED BY <3>1, <3>4
  <2>3. texts = {} /\ hidden /\ p.keys \subseteq Qr!KnownKeys(1)
    BY <1>7, <2>2, Zenon
  <2>4. "sealed" \notin p.keys
    <3> HIDE DEF p
    <3> QED BY <2>3 DEF Qr!KnownKeys, Qr!CommonKeys
  <2>5. ~Qr!Touches(s) /\ s.dev = 0 /\ ~s.exp
    <3>1. s.dev \in Nat
      BY <1>6, Zenon DEF Secrets
    <3>2. ~Qr!Touches(s) /\ ~(s.dev > 0) /\ ~s.exp
      BY <1>6, <1>8, Zenon DEF Qr!PlaintextRefused
    <3> QED BY <3>1, <3>2
  <2> HIDE DEF p
  <2> QED BY <2>2, <2>3, <2>4, <2>5, Zenon
<1>9. CASE ~a.plaintext
  <2>1. p = Qr!SealInto(n, s, "fleet")
    BY <1>9
  <2>2. /\ p.v = 2 /\ p.storage.text["secret_access_key"] = Qr!Absent
        /\ Qr!IsEmpty(s) => p.keys = n.keys /\ p \in Payloads({n.sealed})
        /\ ~Qr!IsEmpty(s) => p.keys = n.keys \cup {"sealed"} /\ p.sealed = summary /\ p \in Payloads({summary})
    <3> DEFINE q == Qr!SealInto(n, s, "fleet")
    <3>1. /\ q.v = 2 /\ q.storage.text["secret_access_key"] = Qr!Absent
          /\ Qr!IsEmpty(s) => q.keys = n.keys /\ q \in Payloads({n.sealed})
          /\ ~Qr!IsEmpty(s) => q.keys = n.keys \cup {"sealed"} /\ q.sealed = summary /\ q \in Payloads({summary})
      BY <1>1, <1>6, SealedInto, Zenon
    <3> HIDE DEF p, q, summary
    <3>2. p = q
      BY <2>1 DEF q
    <3> QED BY <3>1, <3>2
  <2> HIDE DEF p
  <2>3. texts = {} /\ hidden
    BY <1>7, <2>2, Zenon
  <2>4. proven
    BY <1>6, <1>9, Zenon DEF Qr!ChangeRefused
  <2>5. Qr!IsEmpty(s) => carried
    <3>1. p.v # 1 /\ (Qr!IsEmpty(s) => "sealed" \notin p.keys)
      BY <1>6, <1>9, <2>2
    <3> QED BY <2>2, <3>1, Zenon
  <2>6. ASSUME ~Qr!IsEmpty(s) PROVE carried
    <3>1. /\ Qr!BodyBytes(s) \in Nat /\ b.bytes = 56 + Qr!BodyBytes(s)
          /\ Qr!Unseal(b, "fleet") = "opened"
          /\ Qr!FromBody(b.body) = [ok |-> TRUE, secrets |-> s]
          /\ Qr!Unseal(b, "other") = "wrong fleet key"
          /\ Qr!Unseal([b EXCEPT !.kid = "other"], "other") # "opened"
          /\ Qr!Unseal([b EXCEPT !.whole = FALSE], "fleet") = "tampered"
      BY <1>6, EnvelopeOpens
    <3>2. p.sealed.b = b /\ p.sealed.bytes = b.bytes
      BY <2>2, <2>6
    <3>3. b.bytes <= Qr!SealedMaxBytes
      <4>1. ~(56 + Qr!BodyBytes(s) > Qr!SealedMaxBytes)
        BY <1>3, <1>5, <1>9, <2>6, Zenon
      <4>2. Qr!BodyBytes(s) \in Nat /\ b.bytes = 56 + Qr!BodyBytes(s)
        BY <3>1, Zenon
      <4> HIDE DEF b
      <4> QED BY <4>1, <4>2 DEF Qr!SealedMaxBytes
    <3> HIDE DEF b
    <3>4. p.v # 1 /\ "sealed" \in p.keys
      BY <2>2, <2>6
    <3> QED BY <2>2, <3>1, <3>2, <3>3, <3>4, Zenon
  <2> QED BY <2>3, <2>4, <2>5, <2>6, Zenon
<1> QED BY <1>8, <1>9, Zenon

(***************************************************************************)
(* The prompts: any sections, a host of each kind that may be chosen or    *)
(* typed, and answers within the shortest limit they are held to.          *)
(***************************************************************************)
Replies ==
  {a \in [sections : SUBSET {"meta", "storage", "wifi"},
          choice : {"Aliyun OSS", "Tencent COS", "AWS S3", "Google Cloud Storage", "Azure Blob", "custom"},
          host : {"private", "s3", "gcs", "azure", "oss, region unread"}, region : 0..31,
          typed : 1..31, secret : {0} \cup 8..63, set_key : BOOLEAN, held : BOOLEAN, stop : BOOLEAN] :
     /\ a.sections # {} \/ a.set_key
     /\ a.choice = "custom" /\ Qr!RegionMustBeTyped(a.host) /\ a.host # "gcs" => a.region > 0}

(* What the prompts make of the answers.                                   *)
Asked(a) == IF a.choice = "custom" THEN a.host ELSE Qr!EndpointFor(a.choice)
AskedRegion(a) ==
  IF ~Qr!RegionMustBeTyped(Asked(a)) THEN (IF Qr!RegionFromEndpoint(Asked(a)) THEN 9 ELSE 0)
  ELSE IF a.region = 0 /\ Asked(a) = "gcs" THEN 4 ELSE a.region
AskedTexts(a, secret) ==
  [f \in Qr!StorageTexts |->
     CASE f = "endpoint_url" -> 40 [] f = "region" -> Qr!Kept(AskedRegion(a))
       [] f = "prefix" -> Qr!DefaultPrefix [] f = "secret_access_key" -> secret
       [] f = "destination_hint" -> Qr!Absent [] OTHER -> Qr!Kept(a.typed)]
AskedKeys(a) == a.sections \cup IF "storage" \in a.sections THEN {"auto_upload"} ELSE {}
AskedMeta(a) == [f \in Qr!MetaFields |-> Qr!Kept(a.typed)]
AskedWifi(a) == [ssid |-> a.typed, passphrase |-> Qr!Kept(a.secret)]
Stored(host, text) == [host |-> host, slash |-> TRUE, text |-> text]
Filled(v, keys, meta, storage, wifi, kept) ==
  [t |-> "visio-settings", v |-> v, keys |-> keys, meta |-> meta, storage |-> storage,
   bitrate_kbps |-> 8000, resolution |-> 1080, wifi |-> wifi, sealed |-> kept]
AskedConfig(a, v, keys, secret, kept) ==
  Filled(v, keys, AskedMeta(a), Stored(Asked(a), AskedTexts(a, secret)), AskedWifi(a), kept)
NothingSealed == [kid |-> "", has |-> {}, bytes |-> 0]

(* Updates of a configuration, by its parts.                               *)
Restored(c, storage) == [c EXCEPT !.storage = storage]
Retold(c, meta, wifi, storage) == [c EXCEPT !.meta = meta, !.wifi = wifi, !.storage = storage]
FilledWith(c, keys, meta, storage, wifi) ==
  [c EXCEPT !.keys = keys, !.meta = meta, !.storage = storage, !.wifi = wifi]
Emptied(c, storage) == [c EXCEPT !.t = "visio-settings", !.v = 2, !.storage = storage]
Closed(c, keys, kept) == [c EXCEPT !.keys = keys, !.sealed = kept]
Retexted(s, text) == [s EXCEPT !.text = text]
LEMMA FilledParts ==
  ASSUME NEW v, NEW keys, NEW meta, NEW storage, NEW wifi, NEW kept,
         NEW c, c = Filled(v, keys, meta, storage, wifi, kept)
  PROVE  /\ c.t = "visio-settings" /\ c.v = v /\ c.keys = keys /\ c.meta = meta /\ c.storage = storage
         /\ c.bitrate_kbps = 8000 /\ c.resolution = 1080 /\ c.wifi = wifi /\ c.sealed = kept
BY DEF Filled

LEMMA FilledUpdated ==
  ASSUME NEW v, NEW keys, NEW meta, NEW storage, NEW wifi, NEW kept,
         NEW c, c = Filled(v, keys, meta, storage, wifi, kept), NEW x, NEW y
  PROVE  /\ Restored(c, x) = Filled(v, keys, meta, x, wifi, kept)
         /\ Emptied(c, x) = Filled(2, keys, meta, x, wifi, kept)
         /\ Closed(c, x, y) = Filled(v, x, meta, storage, wifi, y)
<1>1. [c EXCEPT !.storage = x] = Filled(v, keys, meta, x, wifi, kept)
  BY Z3 DEF Filled
<1>2. [c EXCEPT !.t = "visio-settings", !.v = 2, !.storage = x] = Filled(2, keys, meta, x, wifi, kept)
  <2> DEFINE d == [c EXCEPT !.t = "visio-settings"]
             e == [d EXCEPT !.v = 2]
  <2>1. [c EXCEPT !.t = "visio-settings", !.v = 2, !.storage = x] = [e EXCEPT !.storage = x]
    OBVIOUS
  <2>2. d = Filled(v, keys, meta, storage, wifi, kept)
    BY Z3 DEF Filled
  <2> HIDE DEF d
  <2>3. e = Filled(2, keys, meta, storage, wifi, kept)
    BY <2>2, Z3 DEF Filled
  <2> HIDE DEF e
  <2>4. [e EXCEPT !.storage = x] = Filled(2, keys, meta, x, wifi, kept)
    BY <2>3, Z3 DEF Filled
  <2> QED BY <2>1, <2>4, Zenon
<1>3. [c EXCEPT !.keys = x, !.sealed = y] = Filled(v, x, meta, storage, wifi, y)
  <2> DEFINE d == [c EXCEPT !.keys = x]
  <2>1. [c EXCEPT !.keys = x, !.sealed = y] = [d EXCEPT !.sealed = y]
    OBVIOUS
  <2>2. d = Filled(v, x, meta, storage, wifi, kept)
    BY Z3 DEF Filled
  <2> HIDE DEF d
  <2>3. [d EXCEPT !.sealed = y] = Filled(v, x, meta, storage, wifi, y)
    BY <2>2, Z3 DEF Filled
  <2> QED BY <2>1, <2>3, Zenon
<1> QED BY <1>1, <1>2, <1>3, Zenon DEF Restored, Emptied, Closed

(* The configuration the dialogue starts from, filled in.                  *)
LEMMA FilledIn ==
  ASSUME NEW v, NEW k, NEW m, NEW stor, NEW w, NEW kept,
         NEW c, c = Filled(v, k, m, stor, w, kept),
         NEW keys, NEW meta, NEW storage, NEW wifi
  PROVE  /\ FilledWith(c, keys, meta, storage, wifi) = Filled(v, keys, meta, storage, wifi, kept)
         /\ Retold(c, meta, wifi, storage) = Filled(v, k, meta, storage, wifi, kept)
<1>1. [c EXCEPT !.keys = keys, !.meta = meta, !.storage = storage, !.wifi = wifi]
        = Filled(v, keys, meta, storage, wifi, kept)
  <2> DEFINE d == [c EXCEPT !.keys = keys]
             e == [d EXCEPT !.meta = meta]
             f == [e EXCEPT !.storage = storage]
  <2>1. [c EXCEPT !.keys = keys, !.meta = meta, !.storage = storage, !.wifi = wifi] = [f EXCEPT !.wifi = wifi]
    OBVIOUS
  <2>2. d = Filled(v, keys, m, stor, w, kept)
    BY Z3 DEF Filled
  <2> HIDE DEF d
  <2>3. e = Filled(v, keys, meta, stor, w, kept)
    BY <2>2, Z3 DEF Filled
  <2> HIDE DEF e
  <2>4. f = Filled(v, keys, meta, storage, w, kept)
    BY <2>3, Z3 DEF Filled
  <2> HIDE DEF f
  <2>5. [f EXCEPT !.wifi = wifi] = Filled(v, keys, meta, storage, wifi, kept)
    BY <2>4, Z3 DEF Filled
  <2> QED BY <2>1, <2>5, Zenon
<1>2. [c EXCEPT !.meta = meta, !.wifi = wifi, !.storage = storage] = Filled(v, k, meta, storage, wifi, kept)
  <2> DEFINE d == [c EXCEPT !.meta = meta]
             e == [d EXCEPT !.wifi = wifi]
  <2>1. [c EXCEPT !.meta = meta, !.wifi = wifi, !.storage = storage] = [e EXCEPT !.storage = storage]
    OBVIOUS
  <2>2. d = Filled(v, k, meta, stor, w, kept)
    BY Z3 DEF Filled
  <2> HIDE DEF d
  <2>3. e = Filled(v, k, meta, stor, wifi, kept)
    BY <2>2, Z3 DEF Filled
  <2> HIDE DEF e
  <2>4. [e EXCEPT !.storage = storage] = Filled(v, k, meta, storage, wifi, kept)
    BY <2>3, Z3 DEF Filled
  <2> QED BY <2>1, <2>4, Zenon
<1> QED BY <1>1, <1>2, Zenon DEF FilledWith, Retold

LEMMA StoredParts ==
  ASSUME NEW host, NEW text
  PROVE  Stored(host, text).host = host /\ Stored(host, text).text = text
BY DEF Stored

LEMMA StoredSlash ==
  ASSUME NEW host, NEW text
  PROVE  Stored(host, text).slash = TRUE
BY DEF Stored

LEMMA StoredUpdated ==
  ASSUME NEW host, NEW text, NEW x
  PROVE  Retexted(Stored(host, text), x) = Stored(host, x)
<1>1. ASSUME NEW slash, NEW s, s = [host |-> host, slash |-> slash, text |-> text]
      PROVE  [s EXCEPT !.text = x] = [host |-> host, slash |-> slash, text |-> x]
  BY <1>1, Z3
<1> DEFINE s == Stored(host, text)
<1>2. s = [host |-> host, slash |-> TRUE, text |-> text]
  BY DEF Stored
<1> HIDE DEF s
<1> QED BY <1>1, <1>2, Zenon DEF Retexted, Stored, s

(* The bare facts about an answer.                                         *)
LEMMA ReplyFields ==
  ASSUME NEW a \in Replies
  PROVE  /\ a.typed \in 1..31 /\ Qr!Kept(a.typed) = a.typed
         /\ Qr!Kept(a.secret) \in {-1} \cup 8..63 /\ Qr!Absent = -1
         /\ a.sections \subseteq {"meta", "storage", "wifi"}
         /\ a.sections # {} \/ a.set_key
<1>1. a.typed \in 1..31 /\ a.secret \in {0} \cup 8..63 /\ a.sections \in SUBSET {"meta", "storage", "wifi"}
      /\ (a.sections # {} \/ a.set_key)
  BY Zenon DEF Replies
<1>2. Qr!Absent = -1
  BY DEF Qr!Absent
<1>3. Qr!Kept(a.typed) = a.typed
  BY <1>1 DEF Qr!Kept
<1>4. Qr!Kept(a.secret) \in {-1} \cup 8..63
  <2>1. CASE a.secret = 0
    BY <2>1, <1>2 DEF Qr!Kept
  <2>2. CASE a.secret \in 8..63
    BY <2>2 DEF Qr!Kept
  <2> QED BY <1>1, <2>1, <2>2
<1> QED BY <1>1, <1>2, <1>3, <1>4

LEMMA AskedHost ==
  ASSUME NEW a \in Replies
  PROVE  /\ Asked(a) \in {"oss", "cos", "s3", "gcs", "azure", "private", "oss, region unread"}
         /\ AskedRegion(a) \in 0..31
         /\ Qr!RegionMustBeTyped(Asked(a)) => AskedRegion(a) > 0
<1>0. a.region \in 0..31
  BY Zenon DEF Replies
<1>1. /\ a.choice \in {"Aliyun OSS", "Tencent COS", "AWS S3", "Google Cloud Storage", "Azure Blob", "custom"}
      /\ a.host \in {"private", "s3", "gcs", "azure", "oss, region unread"} /\ a.region \in 0..31
      /\ a.choice = "custom" /\ Qr!RegionMustBeTyped(a.host) /\ a.host # "gcs" => a.region > 0
  BY DEF Replies
<1>2. Asked(a) \in {"oss", "cos", "s3", "gcs", "azure", "private", "oss, region unread"}
  BY <1>1 DEF Asked, Qr!EndpointFor
<1>3. a.choice # "custom" => Asked(a) \in {"oss", "cos", "s3", "gcs", "azure"}
  BY <1>1 DEF Asked, Qr!EndpointFor
<1>4. a.choice # "custom" => Asked(a) = "gcs" \/ ~Qr!RegionMustBeTyped(Asked(a))
  BY <1>3 DEF Qr!RegionMustBeTyped, Qr!RegionFromEndpoint, Qr!SignsRegion, Qr!ProviderOf
<1>5. a.choice = "custom" => Asked(a) = a.host
  BY DEF Asked
<1>6. AskedRegion(a) \in 0..31
  <2>1. AskedRegion(a) \in {9, 0, 4, a.region}
    BY Zenon DEF AskedRegion
  <2> QED BY <1>0, <2>1
<1>7. Qr!RegionMustBeTyped(Asked(a)) => AskedRegion(a) > 0
  <2> SUFFICES ASSUME Qr!RegionMustBeTyped(Asked(a)) PROVE AskedRegion(a) > 0
    OBVIOUS
  <2>1. Asked(a) = "gcs" \/ a.region > 0
    <3>1. CASE a.choice = "custom"
      <4>1. Asked(a) = a.host
        BY <1>5, <3>1
      <4>2. a.host = "gcs" \/ a.region > 0
        BY <1>1, <3>1, <4>1, Zenon
      <4> QED BY <4>1, <4>2
    <3>2. CASE a.choice # "custom"
      BY <1>4, <3>2, Zenon
    <3> QED BY <3>1, <3>2, Zenon
  <2>2. AskedRegion(a) = IF a.region = 0 /\ Asked(a) = "gcs" THEN 4 ELSE a.region
    BY Zenon DEF AskedRegion
  <2> QED BY <1>0, <2>1, <2>2
<1> QED BY <1>2, <1>6, <1>7

(* The texts, and how long each may be.                                    *)
LEMMA AskedLengths ==
  ASSUME NEW a \in Replies, NEW secret \in {Qr!Absent} \cup 8..63
  PROVE  LET T == AskedTexts(a, secret)
         IN /\ T \in [Qr!StorageTexts -> {-1} \cup 1..63]
            /\ T["endpoint_url"] = 40 /\ T["prefix"] = 11 /\ T["secret_access_key"] = secret
            /\ T["destination_hint"] = -1 /\ T["bucket"] \in 1..31 /\ T["access_key_id"] \in 1..31
            /\ T["region"] \in {-1} \cup 1..31
            /\ Qr!RegionMustBeTyped(Asked(a)) => T["region"] \in 1..31
<1> DEFINE T == AskedTexts(a, secret)
<1>1. a.typed \in 1..31 /\ Qr!Kept(a.typed) = a.typed
  BY ReplyFields, Zenon
<1>2. Qr!Kept(AskedRegion(a)) \in {-1} \cup 1..31
      /\ (Qr!RegionMustBeTyped(Asked(a)) => Qr!Kept(AskedRegion(a)) \in 1..31)
  <2>1. AskedRegion(a) \in 0..31 /\ (Qr!RegionMustBeTyped(Asked(a)) => AskedRegion(a) > 0)
    BY AskedHost, Zenon
  <2>2. Qr!Kept(AskedRegion(a)) = IF AskedRegion(a) = 0 THEN -1 ELSE AskedRegion(a)
    BY DEF Qr!Kept, Qr!Absent
  <2> QED BY <2>1, <2>2
<1>3. \A f \in Qr!StorageTexts :
        T[f] = CASE f = "endpoint_url" -> 40 [] f = "region" -> Qr!Kept(AskedRegion(a))
                 [] f = "prefix" -> 11 [] f = "secret_access_key" -> secret
                 [] f = "destination_hint" -> -1 [] OTHER -> a.typed
  BY <1>1 DEF AskedTexts, Qr!DefaultPrefix, Qr!Absent
<1>4. /\ T["endpoint_url"] = 40 /\ T["prefix"] = 11 /\ T["secret_access_key"] = secret
      /\ T["destination_hint"] = -1 /\ T["bucket"] = a.typed /\ T["access_key_id"] = a.typed
      /\ T["region"] = Qr!Kept(AskedRegion(a))
  BY <1>3 DEF Qr!StorageTexts, Qr!BucketFields, Qr!IngestFields
<1>5. DOMAIN T = Qr!StorageTexts /\ T = [f \in Qr!StorageTexts |-> T[f]]
  BY DEF AskedTexts
<1>6. \A f \in Qr!StorageTexts : T[f] \in {-1} \cup 1..63
  <2>1. Qr!StorageTexts = {"endpoint_url", "region", "bucket", "access_key_id", "prefix", "destination_hint",
                           "secret_access_key"}
    BY DEF Qr!StorageTexts, Qr!BucketFields, Qr!IngestFields
  <2>2. secret \in {-1} \cup 1..63
    BY DEF Qr!Absent
  <2> HIDE DEF T
  <2> QED BY <1>1, <1>2, <1>4, <2>1, <2>2
<1> HIDE DEF T
<1>7. T \in [Qr!StorageTexts -> {-1} \cup 1..63]
  BY <1>5, <1>6
<1> QED BY <1>1, <1>2, <1>4, <1>7 DEF T

(* The dialogue's configuration is already normal.                         *)
LEMMA AskedIsNormal ==
  ASSUME NEW a \in Replies
  PROVE  LET c == Qr!Interactive(a)
         IN /\ c = AskedConfig(a, 1, AskedKeys(a), Qr!Kept(a.secret), NothingSealed)
            /\ Qr!NormalizeStoragePrefix(Qr!NormalizeBareNumbers(c)) = c
<1> DEFINE secret == Qr!Kept(a.secret)
           c == AskedConfig(a, 1, AskedKeys(a), secret, NothingSealed)
           T == AskedTexts(a, secret)
           M == AskedMeta(a)
           W == AskedWifi(a)
           S == Stored(Asked(a), T)
<1>1. Qr!Interactive(a) = c
  <2>1. Qr!Interactive(a)
          = FilledWith(Qr!Blank, AskedKeys(a), M, S, W)
    BY Zenon DEF FilledWith, Qr!Interactive, AskedTexts, AskedRegion, Asked, AskedKeys, AskedMeta, AskedWifi, Stored
  <2>2. Qr!Blank = Filled(1, {}, [f \in Qr!MetaFields |-> Qr!Absent], Qr!NoStorage, [f \in Qr!WifiFields |-> Qr!Absent], NothingSealed)
    BY Zenon DEF Qr!Blank, Filled, NothingSealed
  <2> HIDE DEF M, S, W
  <2>4. FilledWith(Qr!Blank, AskedKeys(a), M, S, W)
          = Filled(1, AskedKeys(a), M, S, W, NothingSealed)
    BY <2>2, FilledIn
  <2> QED BY <2>1, <2>4, Zenon DEF AskedConfig, M, S, W
<1>2. a.typed \in 1..31 /\ Qr!Kept(a.typed) = a.typed /\ secret \in {-1} \cup 8..63 /\ Qr!Absent = -1
  BY ReplyFields, Zenon
<1> HIDE DEF secret
<1>3. /\ T \in [Qr!StorageTexts -> {-1} \cup 1..63] /\ T["endpoint_url"] = 40 /\ T["prefix"] = 11
  <2>1. secret \in {Qr!Absent} \cup 8..63
    BY <1>2
  <2> DEFINE U == AskedTexts(a, secret)
  <2>2. /\ U \in [Qr!StorageTexts -> {-1} \cup 1..63]
        /\ U["endpoint_url"] = 40 /\ U["prefix"] = 11 /\ U["secret_access_key"] = secret
    BY <2>1, AskedLengths
  <2> QED BY <2>2, Zenon
<1> HIDE DEF T
<1>4. Qr!AsText(T) = T
  <2>1. \A f \in Qr!StorageTexts : T[f] # -3
    BY <1>3
  <2> QED BY <1>3, <2>1 DEF Qr!AsText, Qr!Number
<1>5. Qr!AsText(M) = M
  BY <1>2 DEF Qr!AsText, Qr!Number, AskedMeta
<1>6. Qr!AsText(W) = W
  <2>1. W["ssid"] = a.typed /\ W["passphrase"] = secret /\ DOMAIN W = {"ssid", "passphrase"}
    BY DEF AskedWifi, secret
  <2>2. W = [f \in {"ssid", "passphrase"} |-> W[f]]
    BY DEF AskedWifi
  <2>3. W["ssid"] # -3 /\ W["passphrase"] # -3
    BY <1>2, <2>1
  <2> HIDE DEF W
  <2>4. Qr!AsText(W) = [f \in {"ssid", "passphrase"} |-> IF W[f] = -3 THEN 3 ELSE W[f]]
    BY <2>1 DEF Qr!AsText, Qr!Number
  <2> QED BY <2>2, <2>3, <2>4
<1>7. S.text = T /\ S.host = Asked(a) /\ S.slash = TRUE
  BY StoredParts, StoredSlash
<1>8. Qr!StorageAsText(S) = S
  <2> HIDE DEF S
  <2>1. S.text.endpoint_url # Qr!Number
    BY <1>3, <1>7 DEF Qr!Number
  <2>2. Qr!StorageAsText(S) = [host |-> Asked(a), slash |-> TRUE, text |-> T]
    BY <1>4, <1>7, <2>1, Zenon DEF Qr!StorageAsText
  <2> QED BY <2>2, Zenon DEF S, Stored
<1> HIDE DEF M, W, S
<1>9. /\ c.meta = M /\ c.wifi = W /\ c.storage = S
      /\ [c EXCEPT !.meta = M, !.wifi = W, !.storage = S] = c
      /\ [c EXCEPT !.storage = S] = c
  <2>1. c = Filled(1, AskedKeys(a), M, S, W, NothingSealed)
    BY Zenon DEF AskedConfig, M, S, W, T
  <2> HIDE DEF c
  <2>2. c.meta = M /\ c.wifi = W /\ c.storage = S
    BY <2>1, FilledParts
  <2>3. Retold(c, M, W, S) = c
    BY <2>1, FilledIn
  <2>4. Restored(c, S) = c
    BY <2>1, FilledUpdated
  <2> QED BY <2>2, <2>3, <2>4, Zenon DEF Retold, Restored
<1> HIDE DEF c
<1>10. Qr!NormalizeBareNumbers(c) = c
  BY <1>5, <1>6, <1>8, <1>9, Zenon DEF Qr!NormalizeBareNumbers
<1>11. ~Qr!IsIngest(c.storage)
  <2>1. Asked(a) \in {"oss", "cos", "s3", "gcs", "azure", "private", "oss, region unread"}
    BY AskedHost, Zenon
  <2>2. c.storage.host \notin {"ingest", "ingest, no host"}
    BY <1>7, <1>9, <2>1
  <2> QED BY <2>2, Zenon DEF Qr!IsIngest
<1>12. Qr!NormalizeStoragePrefix(c) = c
  <2> DEFINE prefix == IF c.storage.text.prefix \in {Qr!Absent, 0} THEN Qr!DefaultPrefix
                       ELSE IF Qr!Is(c.storage.text.prefix) /\ ~c.storage.slash THEN c.storage.text.prefix + 1
                            ELSE c.storage.text.prefix
  <2>1. Qr!NormalizeStoragePrefix(c)
          = [c EXCEPT !.storage = [host |-> c.storage.host, slash |-> TRUE, text |-> [c.storage.text EXCEPT !.prefix = prefix]]]
    BY <1>11, Zenon DEF Qr!NormalizeStoragePrefix
  <2>2. prefix = 11
    BY <1>3, <1>7, <1>9 DEF Qr!Absent
  <2> HIDE DEF prefix
  <2>3. [T EXCEPT !.prefix = prefix] = T
    BY <1>3, <2>2 DEF Qr!StorageTexts, Qr!BucketFields
  <2>4. [host |-> c.storage.host, slash |-> TRUE, text |-> [c.storage.text EXCEPT !.prefix = prefix]] = S
    BY <1>7, <1>9, <2>3, Zenon DEF S, Stored
  <2> QED BY <1>9, <2>1, <2>4, Zenon
<1> QED BY <1>1, <1>10, <1>12 DEF c, secret

(* Such a configuration, sealed, validates and fits the code.              *)
LEMMA AskedValidates ==
  ASSUME NEW a \in Replies, NEW kept, kept.bytes \in Nat,
         NEW keys \in {AskedKeys(a), AskedKeys(a) \cup {"sealed"}}, keys # {},
         "sealed" \in keys => kept.bytes <= 384 /\ kept.has # {}
  PROVE  LET p == AskedConfig(a, 2, keys, Qr!Absent, kept)
         IN Qr!Validate(p) = {} /\ ~(Qr!Encoded(p) > Qr!MaxBytes)
<1> DEFINE p == AskedConfig(a, 2, keys, Qr!Absent, kept)
           T == AskedTexts(a, Qr!Absent)
           M == AskedMeta(a)
           W == AskedWifi(a)
<1>1. /\ a.typed \in 1..31 /\ Qr!Kept(a.typed) = a.typed
      /\ Qr!Kept(a.secret) \in {-1} \cup 8..63
      /\ a.sections \subseteq {"meta", "storage", "wifi"}
  BY ReplyFields, Zenon
<1>0. Asked(a) \in {"oss", "cos", "s3", "gcs", "azure", "private", "oss, region unread"}
  BY AskedHost, Zenon
<1>2. /\ T["endpoint_url"] = 40 /\ T["prefix"] = 11 /\ T["secret_access_key"] = -1
      /\ T["destination_hint"] = -1 /\ T["bucket"] \in 1..31 /\ T["access_key_id"] \in 1..31
      /\ T["region"] \in {-1} \cup 1..31
      /\ Qr!RegionMustBeTyped(Asked(a)) => T["region"] \in 1..31
  <2>1. Qr!Absent \in {Qr!Absent} \cup 8..63 /\ Qr!Absent = -1
    BY DEF Qr!Absent
  <2> QED BY <2>1, AskedLengths
<1>3. /\ p.t = "visio-settings" /\ p.v = 2 /\ p.keys = keys /\ p.meta = M /\ p.storage.text = T
      /\ p.storage.host = Asked(a) /\ p.bitrate_kbps = 8000 /\ p.resolution = 1080 /\ p.wifi = W
      /\ p.sealed = kept
  <2>1. p = Filled(2, keys, M, Stored(Asked(a), T), W, kept)
    BY Zenon DEF AskedConfig
  <2> HIDE DEF p, M, W, T
  <2>2. /\ p.t = "visio-settings" /\ p.v = 2 /\ p.keys = keys /\ p.meta = M /\ p.storage = Stored(Asked(a), T)
        /\ p.bitrate_kbps = 8000 /\ p.resolution = 1080 /\ p.wifi = W /\ p.sealed = kept
    BY <2>1, FilledParts
  <2>3. p.storage.text = T /\ p.storage.host = Asked(a)
    <3>1. p.storage = Stored(Asked(a), T)
      BY <2>1, FilledParts
    <3> QED BY <3>1, StoredParts
  <2> QED BY <2>2, <2>3
<1>3a. p.storage.text = T /\ p.storage.host = Asked(a)
  BY <1>3
<1>4. keys \subseteq {"meta", "storage", "wifi", "auto_upload", "sealed"}
  BY <1>1 DEF AskedKeys
<1>5. M \in [Qr!MetaFields -> 1..31]
  BY <1>1 DEF AskedMeta
<1>6. W["ssid"] \in 1..31 /\ W["passphrase"] \in {-1} \cup 8..63
  BY <1>1 DEF AskedWifi
<1> HIDE DEF T, M, W, p
<1>7. Qr!TextsBad(M, Qr!MetaFields, {}) = {}
  <2>1. \A f \in Qr!MetaFields : M[f] \in 1..31 /\ Qr!UsableBytes[f] >= 31
    BY <1>5 DEF Qr!MetaFields, Qr!UsableBytes
  <2>2. \A f \in Qr!MetaFields : ~Qr!StringBad(M[f], f \in {}, Qr!UsableBytes[f])
    <3> SUFFICES ASSUME NEW f \in Qr!MetaFields PROVE ~Qr!StringBad(M[f], f \in {}, Qr!UsableBytes[f])
      OBVIOUS
    <3>1. M[f] \in 1..31 /\ Qr!UsableBytes[f] >= 31 /\ Qr!UsableBytes[f] \in Nat
      BY <1>5 DEF Qr!MetaFields, Qr!UsableBytes
    <3> QED BY <3>1 DEF Qr!StringBad, Qr!Wrong, Qr!Number
  <2> QED BY <2>2 DEF Qr!TextsBad
<1>8. Qr!ValidateStorage(p.storage, p.v) = {}
  <2>1. ~Qr!IsIngest(p.storage)
    <3>1. p.storage.host \notin {"ingest", "ingest, no host"}
      <4>1. Asked(a) \notin {"ingest", "ingest, no host"}
        BY <1>0
      <4> QED BY <1>3a, <4>1, Zenon
    <3> QED BY <3>1, Zenon DEF Qr!IsIngest
  <2>2. Qr!Given(p.storage) \ Qr!BucketFields = {}
    BY <1>2, <1>3 DEF Qr!Given, Qr!Absent, Qr!StorageTexts, Qr!BucketFields, Qr!IngestFields
  <2>3. Qr!TextsBad(T, Qr!BucketFields, {"endpoint_url", "bucket", "access_key_id"}) = {}
    <3> SUFFICES ASSUME NEW f \in Qr!BucketFields
                 PROVE  ~Qr!StringBad(T[f], f \in {"endpoint_url", "bucket", "access_key_id"}, Qr!UsableBytes[f])
      BY DEF Qr!TextsBad
    <3>1. f \in {"endpoint_url", "region", "bucket", "access_key_id", "prefix"}
      BY DEF Qr!BucketFields
    <3>2. Qr!UsableBytes["endpoint_url"] = 127 /\ Qr!UsableBytes["region"] = 31 /\ Qr!UsableBytes["bucket"] = 63
          /\ Qr!UsableBytes["access_key_id"] = 63 /\ Qr!UsableBytes["prefix"] = 127
      BY DEF Qr!UsableBytes
    <3>3. CASE f = "endpoint_url"
      BY <1>2, <3>2, <3>3 DEF Qr!StringBad, Qr!Is, Qr!Wrong, Qr!Number
    <3>4. CASE f = "region"
      BY <1>2, <3>2, <3>4 DEF Qr!StringBad, Qr!Is, Qr!Wrong, Qr!Number
    <3>5. CASE f = "bucket"
      BY <1>2, <3>2, <3>5 DEF Qr!StringBad, Qr!Is, Qr!Wrong, Qr!Number
    <3>6. CASE f = "access_key_id"
      BY <1>2, <3>2, <3>6 DEF Qr!StringBad, Qr!Is, Qr!Wrong, Qr!Number
    <3>7. CASE f = "prefix"
      BY <1>2, <3>2, <3>7 DEF Qr!StringBad, Qr!Is, Qr!Wrong, Qr!Number
    <3> QED BY <3>1, <3>3, <3>4, <3>5, <3>6, <3>7
  <2>4. p.storage.host # "not http"
    <3>1. Asked(a) # "not http"
      BY <1>0
    <3> QED BY <1>3a, <3>1, Zenon
  <2>5. ~(~Qr!Is(p.storage.text.region) /\ Qr!Is(p.storage.text.endpoint_url) /\ Qr!RegionMustBeTyped(p.storage.host))
    BY <1>2, <1>3 DEF Qr!Is
  <2>6. Qr!ValidateBucket(p.storage, p.v) = {}
    <3>1. (Qr!BucketFields \cup IF p.v = 1 THEN {"secret_access_key"} ELSE {}) = Qr!BucketFields
      BY <1>3
    <3> DEFINE F == Qr!BucketFields \cup IF p.v = 1 THEN {"secret_access_key"} ELSE {}
               e == IF Qr!Is(p.storage.text.endpoint_url) /\ p.storage.host = "not http" THEN {"endpoint_url"} ELSE {}
               g == IF ~Qr!Is(p.storage.text.region) /\ Qr!Is(p.storage.text.endpoint_url)
                       /\ Qr!RegionMustBeTyped(p.storage.host) THEN {"region"} ELSE {}
    <3>2. Qr!ValidateBucket(p.storage, p.v)
            = (Qr!Given(p.storage) \ F) \cup Qr!TextsBad(p.storage.text, F, {"endpoint_url", "bucket", "access_key_id"})
              \cup e \cup g
      BY Zenon DEF Qr!ValidateBucket
    <3>3. e = {} /\ g = {}
      BY <2>4, <2>5, Zenon
    <3>4. F = Qr!BucketFields /\ p.storage.text = T
      BY <1>3a, <3>1, Zenon
    <3> HIDE DEF F, e, g
    <3> QED BY <2>2, <2>3, <3>2, <3>3, <3>4
  <2> QED BY <2>1, <2>6, Zenon DEF Qr!ValidateStorage
<1>9. Qr!ValidateWifi(W) = {}
  <2>1. \A f \in Qr!WifiFields : ~Qr!StringBad(W[f], f \in {"ssid"}, Qr!UsableBytes[f])
    <3> SUFFICES ASSUME NEW f \in {"ssid", "passphrase"}
                 PROVE  ~Qr!StringBad(W[f], f \in {"ssid"}, Qr!UsableBytes[f])
      BY DEF Qr!WifiFields
    <3>1. Qr!UsableBytes["ssid"] = 32 /\ Qr!UsableBytes["passphrase"] = 63
      BY DEF Qr!UsableBytes
    <3>2. CASE f = "ssid"
      BY <1>6, <3>1, <3>2 DEF Qr!StringBad, Qr!Is, Qr!Wrong, Qr!Number
    <3>3. CASE f = "passphrase"
      BY <1>6, <3>1, <3>3 DEF Qr!StringBad, Qr!Is, Qr!Wrong, Qr!Number
    <3> QED BY <3>2, <3>3
  <2>2. ~(W.passphrase \in 1..7)
    BY <1>6
  <2> QED BY <2>1, <2>2 DEF Qr!ValidateWifi, Qr!TextsBad
<1>10. "sealed" \in keys => Qr!ValidateSealed(p.sealed) = {} /\ Qr!Base64Length(p.sealed.bytes) \in 0..512
  <2>1. "sealed" \in keys => Qr!Base64Length(p.sealed.bytes) \in 0..512
    BY <1>3 DEF Qr!Base64Length
  <2>2. (384 * 4 + 2) \div 3 = 512
    OBVIOUS
  <2> QED BY <1>3, <2>1, <2>2 DEF Qr!ValidateSealed, Qr!SealedMaxBytes
<1>11. \A k \in p.keys : Qr!SectionBad(p, k) = {}
  <2> SUFFICES ASSUME NEW k \in p.keys PROVE Qr!SectionBad(p, k) = {}
    OBVIOUS
  <2>1. CASE k = "meta"
    BY <1>3, <1>7, <2>1 DEF Qr!SectionBad
  <2>2. CASE k = "storage"
    BY <1>3, <1>8, <2>2 DEF Qr!SectionBad
  <2>3. CASE k = "wifi"
    BY <1>3, <1>9, <2>3 DEF Qr!SectionBad
  <2>4. CASE k = "auto_upload"
    BY <2>4 DEF Qr!SectionBad
  <2>5. CASE k = "sealed"
    BY <1>3, <1>10, <2>5 DEF Qr!SectionBad
  <2>6. k \in {"meta", "storage", "wifi", "auto_upload", "sealed"}
    BY <1>3, <1>4
  <2> QED BY <2>1, <2>2, <2>3, <2>4, <2>5, <2>6, Zenon
<1>12. Qr!Validate(p) = {}
  <2>1. UNION {Qr!SectionBad(p, k) : k \in p.keys} = {}
    BY <1>11, Zenon
  <2>2. p.keys \ Qr!KnownKeys(p.v) = {} /\ p.keys \cap Qr!KnownKeys(p.v) # {}
    BY <1>3, <1>4 DEF Qr!KnownKeys, Qr!CommonKeys
  <2>3. ~(p.t # "visio-settings") /\ ~(p.v \notin {1, 2})
    BY <1>3
  <2> QED BY <2>1, <2>2, <2>3 DEF Qr!Validate
<1>13. Qr!Encoded(p) <= 1800 /\ Qr!Encoded(p) \in Int
  <2> DEFINE bytes(text) == IF Qr!Is(text) THEN text ELSE 0
             em == IF "meta" \in p.keys THEN bytes(p.meta.task) + bytes(p.meta.location) + bytes(p.meta.message) + bytes(p.meta.capturer)
                   ELSE 0
             es == IF "storage" \in p.keys
                   THEN bytes(p.storage.text.endpoint_url) + bytes(p.storage.text.region) + bytes(p.storage.text.bucket)
                        + bytes(p.storage.text.access_key_id) + bytes(p.storage.text.prefix)
                        + bytes(p.storage.text.destination_hint) + bytes(p.storage.text.secret_access_key)
                   ELSE 0
             ew == IF "wifi" \in p.keys THEN bytes(p.wifi.ssid) + bytes(p.wifi.passphrase) ELSE 0
             ee == IF "sealed" \in p.keys THEN Qr!Base64Length(p.sealed.bytes) ELSE 0
  <2>1. Qr!Encoded(p) = em + es + ew + ee
    BY Zenon DEF Qr!Encoded
  <2>2. em \in 0..124
    BY <1>3, <1>5 DEF Qr!Is, Qr!MetaFields
  <2>3. es \in 0..220
    BY <1>2, <1>3 DEF Qr!Is
  <2>4. ew \in 0..94
    BY <1>3, <1>6 DEF Qr!Is
  <2>5. ee \in 0..512
    BY <1>3, <1>10
  <2> HIDE DEF em, es, ew, ee
  <2> QED BY <2>1, <2>2, <2>3, <2>4, <2>5
<1> QED BY <1>12, <1>13 DEF p, Qr!MaxBytes

(* The answers make a code, that changes the recording key if they ask it. *)
LEMMA PromptsMake ==
  ASSUME NEW a \in Replies
  PROVE  Qr!PromptsMakeACode(a)
<1> DEFINE args == Qr!InteractiveRecordingKey(Qr!NoFlags, a)
           c == Qr!Interactive(a)
           s == Qr!CollectSecrets(c, args)
           b == Qr!Seal(s, "fleet")
           summary == [kid |-> b.kid, has |-> Qr!Has(s), b |-> b, bytes |-> b.bytes]
           p == Qr!SealInto(c, s, "fleet")
           r == Qr!CmdQr(c, args)
           K == AskedKeys(a)
<1>1. /\ c = AskedConfig(a, 1, K, Qr!Kept(a.secret), NothingSealed)
      /\ Qr!NormalizeStoragePrefix(Qr!NormalizeBareNumbers(c)) = c
  BY AskedIsNormal, Zenon
<1>2. /\ args.plaintext = FALSE /\ args.dev = 0 /\ args.exp = FALSE
      /\ args.rk \in {"absent", "clear", "new"} /\ (a.set_key <=> args.rk # "absent")
      /\ args.rko \in {"absent", "old"}
      /\ args.rk # "absent" /\ args.rko = "absent" => args.rk # "clear" /\ args.first_provision
  <2>1. a.set_key \in BOOLEAN /\ a.held \in BOOLEAN /\ a.stop \in BOOLEAN
    BY DEF Replies
  <2>2. Qr!NoFlags.rk = "absent" /\ Qr!NoFlags.rko = "absent" /\ Qr!NoFlags.first_provision = FALSE
    BY DEF Qr!NoFlags
  <2>3. CASE ~a.set_key
    <3>1. args = Qr!NoFlags
      BY <2>3, Zenon DEF Qr!InteractiveRecordingKey
    <3> QED BY <2>3, <3>1 DEF Qr!NoFlags
  <2>4. CASE a.set_key /\ a.held
    <3> DEFINE q == [rk |-> IF a.stop THEN "clear" ELSE "new", rko |-> "old", dev |-> 0, exp |-> FALSE,
                     plaintext |-> FALSE, first_provision |-> FALSE]
    <3>1. args = q
      BY <2>1, <2>2, <2>4 DEF Qr!InteractiveRecordingKey, Qr!NoFlags
    <3>2. /\ q.plaintext = FALSE /\ q.dev = 0 /\ q.exp = FALSE /\ q.rko = "old"
          /\ q.rk = IF a.stop THEN "clear" ELSE "new"
      OBVIOUS
    <3> HIDE DEF args, q
    <3>3. q.rk \in {"clear", "new"}
      BY <3>2
    <3> QED BY <2>4, <3>1, <3>2, <3>3
  <2>5. CASE a.set_key /\ ~a.held
    <3> DEFINE q == [rk |-> "new", rko |-> "absent", dev |-> 0, exp |-> FALSE,
                     plaintext |-> FALSE, first_provision |-> TRUE]
    <3>1. args = q
      BY <2>1, <2>2, <2>5 DEF Qr!InteractiveRecordingKey, Qr!NoFlags
    <3>2. /\ q.plaintext = FALSE /\ q.dev = 0 /\ q.exp = FALSE /\ q.rko = "absent" /\ q.rk = "new"
          /\ q.first_provision = TRUE
      OBVIOUS
    <3> HIDE DEF args, q
    <3> QED BY <2>5, <3>1, <3>2
  <2> QED BY <2>1, <2>3, <2>4, <2>5
<1> HIDE DEF args
<1>3. /\ Qr!Kept(a.secret) \in {-1} \cup 8..63 /\ a.sections \subseteq {"meta", "storage", "wifi"}
      /\ a.sections # {} \/ a.set_key
  BY ReplyFields, Zenon
<1>4. /\ c.keys = K /\ c.storage.text["secret_access_key"] = Qr!Kept(a.secret)
  <2>1. Qr!Kept(a.secret) \in {Qr!Absent} \cup 8..63
    BY <1>3 DEF Qr!Absent
  <2>2. AskedTexts(a, Qr!Kept(a.secret))["secret_access_key"] = Qr!Kept(a.secret)
    BY <2>1, AskedLengths
  <2> HIDE DEF c, K
  <2>3. c.keys = K /\ c.storage = Stored(Asked(a), AskedTexts(a, Qr!Kept(a.secret)))
    BY <1>1, FilledParts DEF AskedConfig
  <2>4. c.storage.text = AskedTexts(a, Qr!Kept(a.secret))
    BY <2>3, StoredParts
  <2> QED BY <2>2, <2>3, <2>4, Zenon
<1> HIDE DEF c
<1>5. /\ s = [sk |-> s.sk, rk |-> args.rk, rko |-> args.rko, dev |-> args.dev, exp |-> args.exp]
      /\ s.sk \in {-1} \cup 8..63 /\ s.rk = args.rk /\ s.rko = args.rko /\ s.dev = 0 /\ s.exp = FALSE
  BY <1>2, <1>3, <1>4 DEF Qr!CollectSecrets, Qr!Absent
<1> HIDE DEF s
<1>6. Qr!BodyBytes(s) \in 2..200
  <2>1. s.exp = FALSE /\ s.dev = 0
    BY <1>5
  <2> QED BY <1>5, <2>1 DEF Qr!BodyBytes, Qr!Absent
<1>7. b.bytes = 56 + Qr!BodyBytes(s) /\ b.bytes \in 0..384
  BY <1>6 DEF Qr!Seal
<1>8. ~Qr!ChangeRefused(s, args.first_provision) /\ s.sk # Qr!Wrong
  BY <1>2, <1>5 DEF Qr!ChangeRefused, Qr!Touches, Qr!Clears, Qr!Wrong
<1>9. /\ Qr!IsEmpty(s) => ~a.set_key
      /\ ~Qr!IsEmpty(s) => Qr!Has(s) # {}
      /\ a.set_key => "rk" \in Qr!Has(s)
  <2>1. a.set_key => Qr!Touches(s) /\ s.rk # "absent"
    BY <1>2, <1>5 DEF Qr!Touches
  <2>2. a.set_key => "rk" \in Qr!Has(s)
    BY <2>1 DEF Qr!Has
  <2>3. Qr!IsEmpty(s) => s.rk = "absent"
    <3>1. Qr!IsEmpty(s) => s = [sk |-> Qr!Absent, rk |-> "absent", rko |-> "absent", dev |-> 0, exp |-> FALSE]
      BY DEF Qr!IsEmpty
    <3> QED BY <3>1
  <2>4. ASSUME ~Qr!IsEmpty(s), Qr!Has(s) = {} PROVE FALSE
    <3>1. s.sk = Qr!Absent /\ s.rk = "absent"
      BY <2>4 DEF Qr!Has, Qr!Touches
    <3>2. ~a.set_key
      BY <2>2, <2>4
    <3>3. args.rko = "absent"
      <4>1. args = Qr!NoFlags
        BY <3>2, Zenon DEF args, Qr!InteractiveRecordingKey
      <4> QED BY <4>1 DEF Qr!NoFlags
    <3>4. s = [sk |-> Qr!Absent, rk |-> "absent", rko |-> "absent", dev |-> 0, exp |-> FALSE]
      BY <1>2, <1>5, <3>1, <3>3, Zenon
    <3> QED BY <2>4, <3>4, Zenon DEF Qr!IsEmpty
  <2> QED BY <2>1, <2>2, <2>3, <2>4
<1>10. "sealed" \notin K
  BY <1>3 DEF AskedKeys
<1>11. p = IF Qr!IsEmpty(s) THEN AskedConfig(a, 2, K, Qr!Absent, NothingSealed)
           ELSE AskedConfig(a, 2, K \cup {"sealed"}, Qr!Absent, summary)
  <2> DEFINE U == AskedTexts(a, Qr!Kept(a.secret))
             T == AskedTexts(a, Qr!Absent)
             emptied == [c EXCEPT !.t = "visio-settings", !.v = 2, !.storage.text.secret_access_key = Qr!Absent]
             o == AskedConfig(a, 2, K, Qr!Absent, NothingSealed)
  <2>1. [U EXCEPT !["secret_access_key"] = Qr!Absent] = T
    BY DEF AskedTexts, Qr!StorageTexts
  <2>2. c = Filled(1, K, AskedMeta(a), Stored(Asked(a), U), AskedWifi(a), NothingSealed)
    BY <1>1, Zenon DEF AskedConfig
  <2>3. c.storage = Stored(Asked(a), U) /\ c.storage.text = U
    <3> HIDE DEF U
    <3>1. c.storage = Stored(Asked(a), U)
      BY <2>2, FilledParts
    <3>2. c.storage.text = U
      BY <3>1, StoredParts
    <3> QED BY <3>1, <3>2, Zenon
  <2>4. emptied = [c EXCEPT !.t = "visio-settings", !.v = 2,
               !.storage = [c.storage EXCEPT !.text = [c.storage.text EXCEPT !["secret_access_key"] = Qr!Absent]]]
    OBVIOUS
  <2> HIDE DEF U, T, emptied
  <2>5. Retexted(c.storage, T) = Stored(Asked(a), T)
    BY <2>3, StoredUpdated
  <2>6. emptied = Emptied(c, Stored(Asked(a), T))
    BY <2>1, <2>3, <2>4, <2>5, Zenon DEF Emptied, Retexted
  <2>7. o = Filled(2, K, AskedMeta(a), Stored(Asked(a), T), AskedWifi(a), NothingSealed)
    BY Zenon DEF AskedConfig, T
  <2> HIDE DEF o
  <2>8. emptied = o
    BY <2>2, <2>6, <2>7, FilledUpdated
  <2>9. p = IF Qr!IsEmpty(s) THEN emptied ELSE Closed(emptied, emptied.keys \cup {"sealed"}, summary)
    BY Zenon DEF Qr!SealInto, emptied, Closed
  <2> HIDE DEF p, summary
  <2>10. o.keys = K
    BY <2>7, FilledParts
  <2>11. Closed(o, K \cup {"sealed"}, summary)
           = Filled(2, K \cup {"sealed"}, AskedMeta(a), Stored(Asked(a), T), AskedWifi(a), summary)
    BY <2>7, FilledUpdated
  <2>12. AskedConfig(a, 2, K \cup {"sealed"}, Qr!Absent, summary)
           = Filled(2, K \cup {"sealed"}, AskedMeta(a), Stored(Asked(a), T), AskedWifi(a), summary)
    BY Zenon DEF AskedConfig, T
  <2> QED BY <2>8, <2>9, <2>10, <2>11, <2>12, Zenon DEF o
<1>12. summary.bytes = b.bytes /\ summary.has = Qr!Has(s) /\ NothingSealed.bytes = 0
  BY DEF NothingSealed
<1> HIDE DEF b, summary, p, K
<1>13. Qr!Validate(p) = {} /\ ~(Qr!Encoded(p) > Qr!MaxBytes)
  <2>1. CASE Qr!IsEmpty(s)
    <3>1. K # {}
      BY <1>3, <1>9, <2>1 DEF K, AskedKeys
    <3>2. K \in {AskedKeys(a), AskedKeys(a) \cup {"sealed"}} /\ NothingSealed.bytes \in Nat
      BY <1>12 DEF K
    <3> QED BY <1>10, <1>11, <2>1, <3>1, <3>2, AskedValidates
  <2>2. CASE ~Qr!IsEmpty(s)
    <3> DEFINE keys == K \cup {"sealed"}
    <3>1. keys # {} /\ keys \in {AskedKeys(a), AskedKeys(a) \cup {"sealed"}}
      BY DEF K
    <3>2. summary.bytes \in Nat /\ summary.bytes <= 384 /\ summary.has # {}
      BY <1>7, <1>9, <1>12, <2>2
    <3> HIDE DEF keys
    <3>3. Qr!Validate(AskedConfig(a, 2, keys, Qr!Absent, summary)) = {}
          /\ ~(Qr!Encoded(AskedConfig(a, 2, keys, Qr!Absent, summary)) > Qr!MaxBytes)
      BY <3>1, <3>2, AskedValidates
    <3> QED BY <1>11, <2>2, <3>3 DEF keys
  <2> QED BY <2>1, <2>2
<1>14. /\ s.sk # Qr!Wrong /\ args.plaintext = FALSE /\ ~Qr!ChangeRefused(s, args.first_provision)
       /\ "sealed" \notin c.keys /\ ~(56 + Qr!BodyBytes(s) > Qr!SealedMaxBytes)
  BY <1>2, <1>4, <1>6, <1>8, <1>10 DEF Qr!SealedMaxBytes
<1>15. r = [printed |-> TRUE, payload |-> p]
  BY <1>1, <1>13, <1>14, Zenon DEF Qr!CmdQr, p, s
<1>16. a.set_key => "rk" \in p.sealed.has
  <2>1. a.set_key => p.sealed = summary
    BY <1>9, <1>11, FilledParts DEF AskedConfig
  <2> QED BY <1>9, <1>12, <2>1
<1>17. Qr!PromptsMakeACode(a) = (r.printed /\ (a.set_key => "rk" \in r.payload.sealed.has))
  BY Zenon DEF Qr!PromptsMakeACode, args, c
<1>18. r.printed = TRUE /\ r.payload = p
  <2> HIDE DEF r
  <2> QED BY <1>15
<1> HIDE DEF r
<1> QED BY <1>16, <1>17, <1>18, Zenon

(***************************************************************************)
(* A printed code carries each secret it was given once, in the one place  *)
(* that may hold it, and its proof and guards (cmd_qr); the answers to the *)
(* prompts make a code that does what was asked (interactive.py); and a    *)
(* malformed body stops nothing (SealedSecrets.from_body): for every       *)
(* configuration, every flag, all such answers and every body whose key is *)
(* not the mark of a cleared one.                                          *)
(***************************************************************************)
THEOREM CodesAreTrue ==
  ASSUME tried = "code" => trial \in [cfg : Configs, args : Args],
         tried = "prompts" => trial \in Replies,
         tried = "body" => trial.key # "clear"
  PROVE  CodesCarrySecrets
<1>1. ASSUME tried = "code" PROVE Qr!CodeCarriesSecrets(trial.cfg, trial.args)
  <2>1. trial.cfg \in Configs /\ trial.args \in Args
    BY <1>1
  <2> QED BY <2>1, CodesAreWhole
<1>2. ASSUME tried = "body" PROVE Qr!BodyReadStrictly(trial)
  <2>1. trial.key # "clear"
    BY <1>2
  <2> QED BY <2>1 DEF Qr!BodyReadStrictly, Qr!FromBody
<1>3. ASSUME tried = "prompts" PROVE Qr!PromptsMakeACode(trial)
  BY <1>3, PromptsMake, Zenon
<1> QED BY <1>1, <1>2, <1>3, Zenon DEF CodesCarrySecrets

-----------------------------------------------------------------------------
(***************************************************************************)
(* Encrypted recordings (Vrec), of every file, cut anywhere, and every     *)
(* sequence of seeks and reads.                                            *)
(***************************************************************************)
Files ==
  [magic : STRING, head : Nat, fmt : Int, cipher : Int,
   fp : STRING \ {"mismatch", "unavailable"}, data : Nat, valid : Nat]
Steps == [offset : Int, whence : {"set", "cur", "end"}, want : Nat]
Views(at, size) == [at : {at}, pos : Nat, size : {size}]
Readable == {"plain", "decrypting"}

(* A number is its blocks and what is left.                                *)
LEMMA WholeIsParts ==
  ASSUME NEW a \in Nat, NEW b \in Nat, b > 0 PROVE (a \div b) * b + (a % b) = a
<1>1. a % b = a - b * (a \div b)
  OBVIOUS
<1>2. a \div b \in Int /\ a % b \in Int
  OBVIOUS
<1> QED BY <1>1, <1>2

\* Bytes a read takes
Taken(view, want) ==
  IF view.pos >= view.size THEN 0 ELSE IF want < view.size - view.pos THEN want ELSE view.size - view.pos

(* A view reads the plaintext where it stands, and moves past it: the      *)
(* keystream of a byte is that of its place whatever the block             *)
(* (_xor_at, readinto).                                                    *)
LEMMA ReadsWhereItStands ==
  ASSUME NEW at \in Readable, NEW size \in Nat, NEW view \in Views(at, size), NEW want \in Nat
  PROVE  /\ Crypt!ReadInto(view, want).got = Crypt!Plaintext(view, view.pos, want)
         /\ Crypt!ReadInto(view, want).view \in Views(at, size)
         /\ Crypt!ReadInto(view, want).view.pos = view.pos + Taken(view, want)
<1> DEFINE n == Taken(view, want)
           raw == [i \in 1 .. n |-> LET p == view.pos + i - 1 IN IF view.at = "plain" THEN p ELSE <<p, p>>]
           r == Crypt!ReadInto(view, want)
<1>1. view.at = at /\ view.pos \in Nat /\ view.size = size /\ view = [at |-> at, pos |-> view.pos, size |-> size]
  BY DEF Views
<1>2. n \in Nat
  BY <1>1 DEF Taken
<1>3. Crypt!KeystreamAt(view.pos) = view.pos
  <2>1. Block \in Nat /\ Block > 0
    BY BlockAssumption
  <2>2. (view.pos \div Block) * Block + (view.pos % Block) = view.pos
    BY <1>1, <2>1, WholeIsParts
  <2> QED BY <2>2, Zenon DEF Crypt!KeystreamAt
<1>4. n = IF view.pos >= view.size THEN 0 ELSE Crypt!SmallerOf(want, view.size - view.pos)
  BY <1>1 DEF Crypt!SmallerOf, Taken
<1>5. /\ r.view = [view EXCEPT !.pos = @ + n]
      /\ r.got = IF view.at = "plain" THEN raw ELSE Crypt!XorAt(view.pos, raw)
  <2> DEFINE v == view.pos
  <2> QED BY <1>4, Zenon DEF Crypt!ReadInto
<1>6. r.view = [at |-> at, pos |-> view.pos + n, size |-> size]
  <2>1. [view EXCEPT !.pos = @ + n] = [at |-> at, pos |-> view.pos + n, size |-> size]
    <3> HIDE DEF n
    <3> QED BY <1>1, <1>2
  <2> QED BY <1>5, <2>1, Zenon
<1> HIDE DEF n, r
<1>7. r.got = [i \in 1 .. n |-> view.pos + i - 1]
  <2>1. CASE at = "plain"
    <3>1. raw = [i \in 1 .. n |-> view.pos + i - 1]
      BY <1>1, <2>1
    <3> QED BY <1>1, <1>5, <2>1, <3>1, Zenon
  <2>2. CASE at # "plain"
    <3>1. DOMAIN raw = 1 .. n
      OBVIOUS
    <3>2. \A i \in 1 .. n : raw[i] = <<view.pos + i - 1, view.pos + i - 1>>
      BY <1>1, <2>2
    <3>3. r.got = Crypt!XorAt(view.pos, raw)
      BY <1>1, <1>5, <2>2, Zenon
    <3> HIDE DEF raw
    <3>4. Crypt!XorAt(view.pos, raw) = [i \in 1 .. n |-> view.pos + i - 1]
      BY <1>1, <1>3, <3>1, <3>2 DEF Crypt!XorAt
    <3> QED BY <3>3, <3>4
  <2> QED BY <2>1, <2>2
<1>8. Crypt!Plaintext(view, view.pos, want) = [i \in 1 .. n |-> view.pos + i - 1]
  BY <1>1, <1>4, Zenon DEF Crypt!Plaintext
<1>9. r.view \in Views(at, size) /\ r.view.pos = view.pos + n
  BY <1>1, <1>2, <1>6 DEF Views
<1> QED BY <1>7, <1>8, <1>9 DEF n, r

OpenedAtStart(view, rec, key) ==
  /\ view.pos = 0 /\ view.size \in Nat
  /\ view = [at |-> view.at, pos |-> 0, size |-> view.size]
  /\ view.at \in Readable \cup {"refused", "mismatch", "unavailable"}
  /\ view.at = "decrypting" =>
       /\ key \in {"none", rec.fp}
       /\ \A i \in 1 .. view.size : i <= rec.data /\ (rec.valid # 0 => i <= rec.valid)

(* What open_recording gives: a view of all a reader may have, from the    *)
(* start, or a refusal.                                                    *)
LEMMA OpensAtTheStart ==
  ASSUME NEW rec \in Files, NEW key, NEW env
  PROVE  OpenedAtStart(Crypt!Open(rec, key, env), rec, key)
<1>1. rec.head \in Nat /\ rec.data \in Nat /\ rec.valid \in Nat
      /\ rec.fp # "mismatch" /\ rec.fp # "unavailable"
  BY DEF Files
<1>2. Crypt!Size(rec) \in Nat
      /\ \A i \in 1 .. Crypt!Size(rec) : i <= rec.data /\ (rec.valid # 0 => i <= rec.valid)
  BY <1>1 DEF Crypt!Size, Crypt!SmallerOf
<1>3. /\ Crypt!KeyFor(rec, key, env) \in {rec.fp, "mismatch", "unavailable"}
      /\ Crypt!KeyFor(rec, key, env) = rec.fp => key \in {"none", rec.fp}
  BY <1>1, Zenon DEF Crypt!KeyFor
<1>4. rec.head + rec.data \in Nat
  BY <1>1
<1>5. CASE ~Crypt!IsVrec(rec)
  BY <1>4, <1>5 DEF Crypt!Open, Readable, OpenedAtStart
<1>6. CASE Crypt!IsVrec(rec) /\ Crypt!HeaderRefused(rec)
  BY <1>6 DEF Crypt!Open, Readable, OpenedAtStart
<1>7. CASE Crypt!IsVrec(rec) /\ ~Crypt!HeaderRefused(rec)
  <2> DEFINE k == Crypt!KeyFor(rec, key, env)
  <2>1. Crypt!Open(rec, key, env)
          = [at |-> IF k = rec.fp THEN "decrypting" ELSE k, pos |-> 0, size |-> Crypt!Size(rec)]
    BY <1>7, Zenon DEF Crypt!Open
  <2> HIDE DEF k
  <2>2. k \in {rec.fp, "mismatch", "unavailable"} /\ (k = rec.fp => key \in {"none", rec.fp})
    BY <1>3 DEF k
  <2> QED BY <1>1, <1>2, <2>1, <2>2 DEF Readable, OpenedAtStart
<1> QED BY <1>5, <1>6, <1>7

(***************************************************************************)
(* Seeks and reads, one after another.                                     *)
(***************************************************************************)
MovesUp(view, moves, top, f) ==
  f = [k \in 0..top |-> IF k = 0 THEN [view |-> view, good |-> TRUE]
                        ELSE Crypt!ReadAfter(f[k - 1], view, moves[k])]

LEMMA MovesExist == ASSUME NEW view, NEW moves, NEW top \in Nat PROVE \E f : MovesUp(view, moves, top, f)
<1> DEFINE Bad == {n \in Nat : ~ \E f : MovesUp(view, moves, n, f)}
           start == [view |-> view, good |-> TRUE]
           Step(s, k) == Crypt!ReadAfter(s, view, moves[k])
<1>1. ASSUME NEW n \in Nat, NEW f, MovesUp(view, moves, n, f) PROVE \E g : MovesUp(view, moves, n + 1, g)
  <2> DEFINE g == [k \in 0 .. n + 1 |-> IF k = 0 THEN start ELSE Step(f[k - 1], k)]
  <2>1. \A k \in 0 .. n : g[k] = f[k]
    <3>1. f = [k \in 0 .. n |-> IF k = 0 THEN start ELSE Step(f[k - 1], k)]
      BY <1>1 DEF MovesUp
    <3> HIDE DEF Step, start
    <3>2. \A k \in 0 .. n : f[k] = IF k = 0 THEN start ELSE Step(f[k - 1], k)
      BY <3>1, Zenon
    <3>3. \A k \in 0 .. n : k \in 0 .. n + 1
      OBVIOUS
    <3> QED BY <3>2, <3>3, Zenon
  <2>2. \A k \in 0 .. n + 1 : k # 0 => k - 1 \in 0 .. n
    OBVIOUS
  <2>3. \A k \in 0 .. n + 1 : g[k] = IF k = 0 THEN start ELSE Step(g[k - 1], k)
    <3> HIDE DEF Step, start
    <3>1. \A k \in 0 .. n + 1 : g[k] = IF k = 0 THEN start ELSE Step(f[k - 1], k)
      BY Zenon
    <3> HIDE DEF g
    <3> QED BY <2>1, <2>2, <3>1, Zenon
  <2>4. MovesUp(view, moves, n + 1, g)
    BY <2>3, Zenon DEF MovesUp
  <2> QED BY <2>4
<1>2. MovesUp(view, moves, 0, [k \in 0 .. 0 |-> start])
  BY DEF MovesUp
<1>3. Bad = {}
  <2> SUFFICES ASSUME Bad # {} PROVE FALSE
    OBVIOUS
  <2>1. PICK n \in Bad : \A k \in Bad : n <= k
    BY LeastNat
  <2>2. n # 0
    BY <1>2, <2>1
  <2>3. n - 1 \in Nat /\ n - 1 \notin Bad /\ (n - 1) + 1 = n
    BY <2>1, <2>2
  <2> QED BY <1>1, <2>1, <2>3
<1> QED BY <1>3

(* One seek and one read: what was read is the plaintext.                  *)
LEMMA OneMoveReads ==
  ASSUME NEW at \in Readable, NEW size \in Nat, NEW view \in Views(at, size),
         NEW was, was.view \in Views(at, size), was.good = TRUE, NEW move \in Steps
  PROVE  /\ Crypt!ReadAfter(was, view, move).view \in Views(at, size)
         /\ Crypt!ReadAfter(was, view, move).good = TRUE
<1> DEFINE sought == Crypt!Seek(was.view, move.offset, move.whence)
           r == Crypt!ReadInto(sought, move.want)
<1>1. sought \in Views(at, size) /\ move.want \in Nat
  BY DEF Crypt!Seek, Views, Steps
<1> HIDE DEF sought
<1>2. /\ r.got = Crypt!Plaintext(sought, sought.pos, move.want)
      /\ r.view \in Views(at, size)
  <2> DEFINE want == move.want
  <2>1. want \in Nat
    BY <1>1
  <2> HIDE DEF want
  <2>2. /\ Crypt!ReadInto(sought, want).got = Crypt!Plaintext(sought, sought.pos, want)
        /\ Crypt!ReadInto(sought, want).view \in Views(at, size)
    BY <1>1, <2>1, ReadsWhereItStands, Zenon
  <2> QED BY <2>2, Zenon DEF want
<1>3. Crypt!Plaintext(sought, sought.pos, move.want) = Crypt!Plaintext(view, sought.pos, move.want)
  <2>1. sought.size = view.size
    BY <1>1 DEF Views
  <2> QED BY <2>1, Zenon DEF Crypt!Plaintext
<1>4. Crypt!ReadAfter(was, view, move)
        = [view |-> r.view, good |-> was.good /\ r.got = Crypt!Plaintext(view, sought.pos, move.want)]
  BY Zenon DEF Crypt!ReadAfter, sought
<1> HIDE DEF r
<1>5. (was.good /\ r.got = Crypt!Plaintext(view, sought.pos, move.want)) = TRUE
  BY <1>2, <1>3, Zenon
<1>6. Crypt!ReadAfter(was, view, move) = [view |-> r.view, good |-> TRUE]
  BY <1>4, <1>5, Zenon
<1> QED BY <1>2, <1>6

(* Every reader reads plaintext, however it seeks.                         *)
LEMMA ReadersReadPlaintext ==
  ASSUME NEW rec \in Files, NEW key, NEW env, NEW moves \in Seq(Steps)
  PROVE  Crypt!ReadsArePlaintext(rec, key, env, moves)
<1> DEFINE view == Crypt!Open(rec, key, env)
           top == Len(moves)
           f == CHOOSE g : MovesUp(view, moves, top, g)
<1>1. top \in Nat
  OBVIOUS
<1>2. MovesUp(view, moves, top, f)
  BY <1>1, MovesExist
<1>3. Crypt!ReadsArePlaintext(rec, key, env, moves)
        = (view.at \in {"plain", "decrypting"} =>
             /\ f[top].good
             /\ view.at = "decrypting" =>
                  /\ key \in {"none", rec.fp}
                  /\ \A i \in 1..view.size : i <= rec.data /\ (rec.valid # 0 => i <= rec.valid))
  BY Zenon DEF Crypt!ReadsArePlaintext, MovesUp
<1> HIDE DEF f
<1>4. OpenedAtStart(view, rec, key)
  BY OpensAtTheStart
<1> HIDE DEF view
<1>5. ASSUME view.at \in Readable PROVE f[top].good
  <2> DEFINE Fine(k) == f[k].view \in Views(view.at, view.size) /\ f[k].good = TRUE
             Bad == {k \in 0 .. top : ~Fine(k)}
  <2>1. f[0] = [view |-> view, good |-> TRUE]
        /\ \A k \in 1 .. top : f[k] = Crypt!ReadAfter(f[k - 1], view, moves[k])
    <3>1. f = [k \in 0..top |-> IF k = 0 THEN [view |-> view, good |-> TRUE]
                                ELSE Crypt!ReadAfter(f[k - 1], view, moves[k])]
      BY <1>2 DEF MovesUp
    <3>2. \A k \in 0 .. top : f[k] = IF k = 0 THEN [view |-> view, good |-> TRUE]
                                     ELSE Crypt!ReadAfter(f[k - 1], view, moves[k])
      BY <3>1, Zenon
    <3>3. 0 \in 0 .. top /\ \A k \in 1 .. top : k \in 0 .. top /\ k # 0
      BY <1>1
    <3> QED BY <3>2, <3>3, Zenon
  <2>2. view \in Views(view.at, view.size)
    BY <1>4 DEF Views, OpenedAtStart
  <2>3. Fine(0)
    BY <2>1, <2>2
  <2>4. ASSUME NEW k \in 1 .. top, Fine(k - 1) PROVE Fine(k)
    <3>1. moves[k] \in Steps
      BY <1>1
    <3>2. view.size \in Nat
      BY <1>4, Zenon DEF OpenedAtStart
    <3> DEFINE was == f[k - 1]
               t == Crypt!ReadAfter(was, view, moves[k])
    <3>3. f[k] = t
      BY <2>1
    <3>4. was.view \in Views(view.at, view.size) /\ was.good = TRUE
      BY <2>4
    <3> HIDE DEF was
    <3>5. t.view \in Views(view.at, view.size) /\ t.good = TRUE
      BY <1>5, <2>2, <3>1, <3>2, <3>4, OneMoveReads
    <3> QED BY <3>3, <3>5
  <2> HIDE DEF Fine
  <2>5. Bad = {}
    <3> SUFFICES ASSUME Bad # {} PROVE FALSE
      OBVIOUS
    <3>1. Bad \in SUBSET Nat
      BY <1>1
    <3>2. PICK n \in Bad : \A k \in Bad : n <= k
      BY <3>1, LeastNat
    <3>3. n # 0
      BY <2>3, <3>2
    <3>4. n \in 0 .. top
      BY <3>2
    <3>5. n \in 1 .. top /\ n - 1 \in 0 .. top /\ ~(n <= n - 1)
      BY <1>1, <3>3, <3>4
    <3>6. n - 1 \notin Bad
      BY <3>2, <3>5
    <3> QED BY <2>4, <3>2, <3>5, <3>6
  <2>6. Fine(top)
    BY <1>1, <2>5
  <2> QED BY <2>6 DEF Fine
<1> QED BY <1>3, <1>4, <1>5, Zenon DEF Readable, OpenedAtStart

(***************************************************************************)
(* The copy.                                                               *)
(***************************************************************************)
CopiesUp(view, step, fails, top, f) ==
  f = [k \in 0..top |-> IF k = 0 THEN [view |-> view, out |-> <<>>, done |-> FALSE, raised |-> FALSE]
                        ELSE Crypt!CopyChunk(f[k - 1], k, step, fails)]

LEMMA CopiesExist ==
  ASSUME NEW view, NEW step, NEW fails, NEW top \in Nat PROVE \E f : CopiesUp(view, step, fails, top, f)
<1> DEFINE Bad == {n \in Nat : ~ \E f : CopiesUp(view, step, fails, n, f)}
           start == [view |-> view, out |-> <<>>, done |-> FALSE, raised |-> FALSE]
           Step(s, k) == Crypt!CopyChunk(s, k, step, fails)
<1>1. ASSUME NEW n \in Nat, NEW f, CopiesUp(view, step, fails, n, f)
      PROVE  \E g : CopiesUp(view, step, fails, n + 1, g)
  <2> DEFINE g == [k \in 0 .. n + 1 |-> IF k = 0 THEN start ELSE Step(f[k - 1], k)]
  <2>1. \A k \in 0 .. n : g[k] = f[k]
    <3>1. f = [k \in 0 .. n |-> IF k = 0 THEN start ELSE Step(f[k - 1], k)]
      BY <1>1 DEF CopiesUp
    <3> HIDE DEF Step, start
    <3>2. \A k \in 0 .. n : f[k] = IF k = 0 THEN start ELSE Step(f[k - 1], k)
      BY <3>1, Zenon
    <3>3. \A k \in 0 .. n : k \in 0 .. n + 1
      OBVIOUS
    <3> QED BY <3>2, <3>3, Zenon
  <2>2. \A k \in 0 .. n + 1 : k # 0 => k - 1 \in 0 .. n
    OBVIOUS
  <2>3. \A k \in 0 .. n + 1 : g[k] = IF k = 0 THEN start ELSE Step(g[k - 1], k)
    <3> HIDE DEF Step, start
    <3>1. \A k \in 0 .. n + 1 : g[k] = IF k = 0 THEN start ELSE Step(f[k - 1], k)
      BY Zenon
    <3> HIDE DEF g
    <3> QED BY <2>1, <2>2, <3>1, Zenon
  <2>4. CopiesUp(view, step, fails, n + 1, g)
    BY <2>3, Zenon DEF CopiesUp
  <2> QED BY <2>4
<1>2. CopiesUp(view, step, fails, 0, [k \in 0 .. 0 |-> start])
  BY DEF CopiesUp
<1>3. Bad = {}
  <2> SUFFICES ASSUME Bad # {} PROVE FALSE
    OBVIOUS
  <2>1. PICK n \in Bad : \A k \in Bad : n <= k
    BY LeastNat
  <2>2. n # 0
    BY <1>2, <2>1
  <2>3. n - 1 \in Nat /\ n - 1 \notin Bad /\ (n - 1) + 1 = n
    BY <2>1, <2>2
  <2> QED BY <1>1, <2>1, <2>3
<1> QED BY <1>3

(* Two sequences joined, by index.                                         *)
LEMMA Joined ==
  ASSUME NEW S, NEW a \in Seq(S), NEW b \in Seq(S)
  PROVE  /\ a \o b \in Seq(S) /\ Len(a \o b) = Len(a) + Len(b)
         /\ \A i \in 1..Len(a) : (a \o b)[i] = a[i]
         /\ \A i \in (Len(a) + 1)..(Len(a) + Len(b)) :
              (a \o b)[i] = b[i - Len(a)] /\ i - Len(a) \in 1..Len(b)
OBVIOUS

(* A copy after k chunks: the plaintext up to where the view stands, which *)
(* is k bytes on at least unless the copy has ended.                       *)
CopyFine(s, at, size, k) ==
  /\ s.view \in Views(at, size) /\ s.view.pos <= size
  /\ s.out = [i \in 1 .. s.view.pos |-> i - 1]
  /\ s.done \in BOOLEAN /\ s.raised \in BOOLEAN
  /\ s.done => s.view.pos = size
  /\ ~s.done /\ ~s.raised => s.view.pos >= k

(* A copy's record, with what it holds.                                    *)
Copies(at, size) == [view : Views(at, size), out : Seq(Nat), done : BOOLEAN, raised : BOOLEAN]

LEMMA ChunkCopies ==
  ASSUME NEW at \in Readable, NEW size \in Nat, NEW step \in Nat \ {0}, NEW fails, NEW k \in Nat,
         NEW s \in Copies(at, size), CopyFine(s, at, size, k)
  PROVE  /\ Crypt!CopyChunk(s, k + 1, step, fails) \in Copies(at, size)
         /\ CopyFine(Crypt!CopyChunk(s, k + 1, step, fails), at, size, k + 1)
<1> DEFINE t == Crypt!CopyChunk(s, k + 1, step, fails)
           n == Taken(s.view, step)
           r == Crypt!ReadInto(s.view, step)
           v == [at |-> at, pos |-> s.view.pos + n, size |-> size]
<1> SUFFICES t \in Copies(at, size) /\ CopyFine(t, at, size, k + 1)
  BY DEF t
<1>1. s.view \in Views(at, size) /\ s.view.pos \in Nat /\ s.view.pos <= size /\ s.out \in Seq(Nat)
      /\ s.done \in BOOLEAN /\ s.raised \in BOOLEAN
  BY DEF CopyFine, Views, Copies
<1>2. r.got = [i \in 1 .. n |-> s.view.pos + i - 1] /\ r.view = v
  <2> DEFINE view == s.view
  <2>0. view \in Views(at, size)
    BY <1>1
  <2> HIDE DEF view
  <2>4. /\ Crypt!ReadInto(view, step).got = Crypt!Plaintext(view, view.pos, step)
        /\ Crypt!ReadInto(view, step).view \in Views(at, size)
        /\ Crypt!ReadInto(view, step).view.pos = view.pos + Taken(view, step)
    BY <2>0, ReadsWhereItStands, Zenon
  <2>5. Crypt!ReadInto(view, step).view = [at |-> at, pos |-> view.pos + Taken(view, step), size |-> size]
    BY <2>4 DEF Views
  <2>1. r.got = Crypt!Plaintext(s.view, s.view.pos, step) /\ r.view = v
    BY <2>4, <2>5, Zenon DEF view
  <2>2. n = IF s.view.pos >= s.view.size THEN 0 ELSE Crypt!SmallerOf(step, s.view.size - s.view.pos)
    BY DEF Taken, Crypt!SmallerOf
  <2>3. Crypt!Plaintext(s.view, s.view.pos, step) = [i \in 1 .. n |-> s.view.pos + i - 1]
    BY <2>2, Zenon DEF Crypt!Plaintext
  <2> QED BY <2>1, <2>3, Zenon
<1>3. n \in Nat /\ s.view.pos + n <= size /\ (n = 0 <=> s.view.pos = size)
  <2>1. s.view.size = size
    BY <1>1 DEF Views
  <2> QED BY <1>1, <2>1 DEF Taken
<1>4. t = IF s.done \/ s.raised THEN s
          ELSE IF k + 1 = fails THEN [s EXCEPT !.raised = TRUE]
          ELSE IF r.got = <<>> THEN [s EXCEPT !.done = TRUE]
          ELSE [s EXCEPT !.view = r.view, !.out = @ \o r.got]
  BY Zenon DEF Crypt!CopyChunk
<1> HIDE DEF r, n, t
<1>5. CASE s.done \/ s.raised
  BY <1>4, <1>5, Zenon DEF CopyFine
<1>6. CASE ~(s.done \/ s.raised) /\ k + 1 = fails
  <2>1. t = [s EXCEPT !.raised = TRUE]
    BY <1>4, <1>6, Zenon
  <2>2. t \in Copies(at, size) /\ t.view = s.view /\ t.out = s.out /\ t.done = s.done /\ t.raised = TRUE
    BY <2>1, Zenon DEF Copies
  <2> QED BY <2>2, Zenon DEF CopyFine
<1>7. CASE ~(s.done \/ s.raised) /\ k + 1 # fails /\ r.got = <<>>
  <2>1. t = [s EXCEPT !.done = TRUE]
    BY <1>4, <1>7, Zenon
  <2>2. t \in Copies(at, size) /\ t.view = s.view /\ t.out = s.out /\ t.done = TRUE /\ t.raised = s.raised
    BY <2>1, Zenon DEF Copies
  <2>3. n = 0
    <3>1. Len(r.got) = 0
      BY <1>7
    <3>2. Len(r.got) = n
      BY <1>2, <1>3
    <3> QED BY <3>1, <3>2
  <2> QED BY <1>3, <2>2, <2>3, Zenon DEF CopyFine
<1>8. CASE ~(s.done \/ s.raised) /\ k + 1 # fails /\ r.got # <<>>
  <2>1. t = [s EXCEPT !.view = v, !.out = s.out \o r.got]
    BY <1>2, <1>4, <1>8, Zenon
  <2>2. t = [view |-> v, out |-> s.out \o r.got, done |-> s.done, raised |-> s.raised]
    BY <2>1, Zenon DEF Copies
  <2>3. n # 0
    BY <1>2, <1>8
  <2>4. v \in Views(at, size)
    BY <1>1, <1>3 DEF Views
  <2>5. /\ s.out \o r.got = [i \in 1 .. s.view.pos + n |-> i - 1]
        /\ s.out \o r.got \in Seq(Nat)
    <3>1. s.out = [i \in 1 .. s.view.pos |-> i - 1]
      BY DEF CopyFine
    <3>2. r.got \in Seq(Nat) /\ Len(r.got) = n /\ Len(s.out) = s.view.pos
          /\ \A i \in 1 .. n : r.got[i] = s.view.pos + i - 1
      BY <1>1, <1>2, <1>3, <3>1
    <3>3. \A i \in 1 .. s.view.pos : s.out[i] = i - 1
      BY <3>1
    <3> DEFINE a == s.out
               b == r.got
               m == s.view.pos
    <3>4. a \in Seq(Nat) /\ b \in Seq(Nat) /\ m \in Nat /\ n \in Nat /\ Len(a) = m /\ Len(b) = n
      BY <1>1, <1>3, <3>2
    <3>5. (\A i \in 1 .. m : a[i] = i - 1) /\ (\A i \in 1 .. n : b[i] = m + i - 1)
      BY <3>2, <3>3
    <3> HIDE DEF a, b, m
    <3> DEFINE c == a \o b
    <3>6. c \in Seq(Nat) /\ Len(c) = m + n /\ \A i \in 1 .. m + n : c[i] = i - 1
      <4>1. c \in Seq(Nat) /\ Len(c) = Len(a) + Len(b)
        BY <3>4, Joined
      <4>2. \A i \in 1 .. Len(a) : c[i] = a[i]
        BY <3>4, Joined
      <4>3. \A i \in (Len(a) + 1)..(Len(a) + Len(b)) : c[i] = b[i - Len(a)] /\ i - Len(a) \in 1 .. Len(b)
        BY <3>4, Joined
      <4> HIDE DEF c
      <4> QED BY <3>4, <3>5, <4>1, <4>2, <4>3
    <3> HIDE DEF c
    <3>7. c = [i \in 1 .. m + n |-> i - 1]
      BY <3>4, <3>6
    <3> QED BY <3>6, <3>7 DEF a, b, c, m
  <2>6. s.view.pos >= k
    BY <1>8, Zenon DEF CopyFine
  <2>7. v.pos = s.view.pos + n /\ v.pos <= size /\ v.pos >= k + 1
    BY <1>1, <1>3, <2>3, <2>6
  <2> HIDE DEF v
  <2>8. t.view = v /\ t.out = s.out \o r.got /\ t.done = s.done /\ t.raised = s.raised /\ t \in Copies(at, size)
    BY <1>1, <2>2, <2>4, <2>5, Zenon DEF Copies
  <2> QED BY <1>1, <1>8, <2>4, <2>5, <2>7, <2>8, Zenon DEF CopyFine
<1> QED BY <1>5, <1>6, <1>7, <1>8

(* A copy ends, by an error or with the whole plaintext.                   *)
LEMMA CopyEnds ==
  ASSUME NEW at \in Readable, NEW size \in Nat, NEW step \in Nat \ {0}, NEW fails, NEW view,
         view = [at |-> at, pos |-> 0, size |-> size]
  PROVE  \/ Crypt!Copied(view, step, fails).raised
         \/ Crypt!Copied(view, step, fails).out = Crypt!Plaintext(view, 0, size)
<1> DEFINE top == size + 1
           f == CHOOSE g : CopiesUp(view, step, fails, top, g)
<1>0. top \in Nat /\ view.size + 1 = top /\ view.size = size
  OBVIOUS
<1>1. CopiesUp(view, step, fails, top, f)
  BY <1>0, CopiesExist
<1>2. Crypt!Copied(view, step, fails) = f[top]
  BY <1>0, Zenon DEF Crypt!Copied, CopiesUp
<1> HIDE DEF f
<1>3. f[0] = [view |-> view, out |-> <<>>, done |-> FALSE, raised |-> FALSE]
      /\ \A k \in 1 .. top : f[k] = Crypt!CopyChunk(f[k - 1], k, step, fails)
  <2>1. f = [k \in 0..top |-> IF k = 0 THEN [view |-> view, out |-> <<>>, done |-> FALSE, raised |-> FALSE]
                              ELSE Crypt!CopyChunk(f[k - 1], k, step, fails)]
    BY <1>1 DEF CopiesUp
  <2>2. \A k \in 0 .. top : f[k] = IF k = 0 THEN [view |-> view, out |-> <<>>, done |-> FALSE, raised |-> FALSE]
                                   ELSE Crypt!CopyChunk(f[k - 1], k, step, fails)
    BY <2>1, Zenon
  <2>3. 0 \in 0 .. top /\ \A k \in 1 .. top : k \in 0 .. top /\ k # 0
    BY <1>0
  <2> QED BY <2>2, <2>3, Zenon
<1> DEFINE Fine(k) == f[k] \in Copies(at, size) /\ CopyFine(f[k], at, size, k)
           Bad == {k \in 0 .. top : ~Fine(k)}
<1>4. Fine(0)
  <2>1. view \in Views(at, size) /\ view.pos = 0
    BY DEF Views
  <2>2. <<>> \in Seq(Nat) /\ <<>> = [i \in 1 .. 0 |-> i - 1]
    OBVIOUS
  <2>3. /\ f[0].view = view /\ f[0].out = <<>> /\ f[0].done = FALSE /\ f[0].raised = FALSE
        /\ f[0] \in Copies(at, size)
    <3>1. f[0] = [view |-> view, out |-> <<>>, done |-> FALSE, raised |-> FALSE]
      BY <1>3
    <3> DEFINE start == [view |-> view, out |-> <<>>, done |-> FALSE, raised |-> FALSE]
    <3>2. start \in Copies(at, size) /\ start.view = view /\ start.out = <<>>
          /\ start.done = FALSE /\ start.raised = FALSE
      BY <2>1, <2>2 DEF Copies
    <3> HIDE DEF start
    <3> QED BY <3>1, <3>2 DEF start
  <2>4. 0 <= size /\ 0 >= 0
    OBVIOUS
  <2> QED BY <2>1, <2>2, <2>3, <2>4, Zenon DEF CopyFine
<1>5. ASSUME NEW k \in 1 .. top, Fine(k - 1) PROVE Fine(k)
  <2>1. k - 1 \in Nat /\ (k - 1) + 1 = k
    OBVIOUS
  <2>2. f[k] = Crypt!CopyChunk(f[k - 1], (k - 1) + 1, step, fails)
    BY <1>3, <2>1, Zenon
  <2>3. f[k] \in Copies(at, size) /\ CopyFine(f[k], at, size, (k - 1) + 1)
    BY <1>5, <2>1, <2>2, ChunkCopies, Zenon
  <2> QED BY <2>1, <2>3, Zenon
<1> HIDE DEF Fine
<1>6. Bad = {}
  <2> SUFFICES ASSUME Bad # {} PROVE FALSE
    OBVIOUS
  <2>1. Bad \in SUBSET Nat
    BY <1>0
  <2>2. PICK n \in Bad : \A k \in Bad : n <= k
    BY <2>1, LeastNat
  <2>3. n # 0
    BY <1>4, <2>2
  <2>4. n \in 0 .. top
    BY <2>2
  <2>5. n \in 1 .. top /\ n - 1 \in 0 .. top /\ ~(n <= n - 1)
    BY <1>0, <2>3, <2>4
  <2>6. n - 1 \notin Bad
    BY <2>2, <2>5
  <2> QED BY <1>5, <2>2, <2>5, <2>6
<1>7. Fine(top)
  BY <1>0, <1>6
<1>8. f[top].raised \/ f[top].out = [i \in 1 .. size |-> i - 1]
  <2>1. f[top].view.pos \in Nat /\ f[top].view.pos <= size
    BY <1>7 DEF Fine, CopyFine, Views
  <2>2. ~(f[top].view.pos >= top)
    BY <2>1
  <2> QED BY <1>7, <2>2, Zenon DEF Fine, CopyFine
<1>9. Crypt!Plaintext(view, 0, size) = [i \in 1 .. size |-> i - 1]
  <2>1. (IF 0 >= view.size THEN 0 ELSE Crypt!SmallerOf(size, view.size - 0)) = size
    BY <1>0 DEF Crypt!SmallerOf
  <2>2. Crypt!Plaintext(view, 0, size) = [i \in 1 .. size |-> 0 + i - 1]
    BY <2>1, Zenon DEF Crypt!Plaintext
  <2>3. [i \in 1 .. size |-> 0 + i - 1] = [i \in 1 .. size |-> i - 1]
    OBVIOUS
  <2> QED BY <2>2, <2>3
<1> QED BY <1>2, <1>8, <1>9

LEMMA CopiesWholeOrNone ==
  ASSUME NEW rec \in Files, NEW key, NEW env, NEW exists \in BOOLEAN, NEW step \in Nat \ {0}, NEW fails
  PROVE  Crypt!CopyIsWholeOrAbsent(rec, key, env, exists, step, fails)
<1> DEFINE view == Crypt!Open(rec, key, env)
           c == Crypt!Copied(view, step, fails)
           d == Crypt!Decrypt(rec, key, env, exists, step, fails)
<1>1. /\ view.size \in Nat
      /\ view = [at |-> view.at, pos |-> 0, size |-> view.size]
      /\ view.at \in Readable \cup {"refused", "mismatch", "unavailable"}
  <2>1. OpenedAtStart(view, rec, key)
    BY OpensAtTheStart
  <2> HIDE DEF view
  <2> QED BY <2>1, Zenon DEF OpenedAtStart
<1>2. view.at \in Readable => c.raised \/ c.out = Crypt!Plaintext(view, 0, view.size)
  <2> DEFINE at == view.at
             size == view.size
  <2>1. view = [at |-> at, pos |-> 0, size |-> size] /\ size \in Nat
    BY <1>1
  <2> HIDE DEF view, at, size
  <2>2. at \in Readable => c.raised \/ c.out = Crypt!Plaintext(view, 0, size)
    BY <2>1, CopyEnds
  <2> QED BY <2>2, Zenon DEF at, size
<1>3. d = IF exists THEN [rc |-> 2, dst |-> <<"theirs">>]
          ELSE IF view.at = "refused" THEN [rc |-> 1, dst |-> Crypt!Absent]
          ELSE IF view.at \in {"mismatch", "unavailable"} THEN [rc |-> 1, dst |-> Crypt!Absent]
          ELSE IF c.raised THEN [rc |-> 1, dst |-> Crypt!Absent] ELSE [rc |-> 0, dst |-> c.out]
  BY Zenon DEF Crypt!Decrypt, Crypt!AfterError
<1>4. Crypt!CopyIsWholeOrAbsent(rec, key, env, exists, step, fails)
        = (/\ exists => d = [rc |-> 2, dst |-> <<"theirs">>]
           /\ ~exists => IF d.rc = 0 THEN d.dst = Crypt!Plaintext(view, 0, view.size) ELSE d.dst = Crypt!Absent)
  BY Zenon DEF Crypt!CopyIsWholeOrAbsent
<1> HIDE DEF view, c, d
<1> QED BY <1>1, <1>2, <1>3, <1>4 DEF Readable

(* An encrypted recording reads as the plaintext it was, and a copy of it  *)
(* is whole or absent: RecordingsReadBack, whatever the file, where it was *)
(* cut, the keys offered, the seeks and reads, the copy's chunk and the    *)
(* chunk that fails.                                                       *)
THEOREM RecordingsAreReadBack ==
  ASSUME tried = "crypt" =>
           trial \in [file : Files, key : STRING, env : Seq(STRING), moves : Seq(Steps),
                      exists : BOOLEAN, chunk : Nat \ {0}, fails : Nat]
  PROVE  RecordingsReadBack
<1>1. ASSUME tried = "crypt"
      PROVE  /\ Crypt!ReadsArePlaintext(trial.file, trial.key, trial.env, trial.moves)
             /\ Crypt!CopyIsWholeOrAbsent(trial.file, trial.key, trial.env, trial.exists, trial.chunk, trial.fails)
  <2>1. /\ trial.file \in Files /\ trial.moves \in Seq(Steps) /\ trial.exists \in BOOLEAN
        /\ trial.chunk \in Nat \ {0}
    BY <1>1, Zenon
  <2>2. Crypt!ReadsArePlaintext(trial.file, trial.key, trial.env, trial.moves)
    BY <2>1, ReadersReadPlaintext
  <2>3. Crypt!CopyIsWholeOrAbsent(trial.file, trial.key, trial.env, trial.exists, trial.chunk, trial.fails)
    BY <2>1, CopiesWholeOrNone
  <2> QED BY <2>2, <2>3
<1> QED BY <1>1, Zenon DEF RecordingsReadBack
=============================================================================
