-------------------------- MODULE WritePolicyProofs --------------------------
(***************************************************************************)
(* What Bytes computes of a queue, one message or one batch at a time: the *)
(* lemmas behind every running byte total that a bound is measured on.     *)
(*                                                                         *)
(* Bytes is a recursive function on the subsets of the queue, and it picks *)
(* the elements in an order nobody chose.  That the function exists, and   *)
(* that the order does not matter, is shown by a least counterexample in   *)
(* the number of elements.                                                 *)
(***************************************************************************)
EXTENDS WritePolicy, FiniteSetTheorems, WellFoundedInduction, TLAPS

(***************************************************************************)
(* The recursive definition behind Bytes, on the subsets of a set.         *)
(***************************************************************************)
AnyOf(s) == CHOOSE e \in s : TRUE
SumsOf(f, S) ==
  f = [s \in SUBSET S |-> IF s = {} THEN 0 ELSE AnyOf(s).size + f[s \ {AnyOf(s)}]]
OfSize(S, n) == {s \in SUBSET S : Cardinality(s) <= n}

(* A set of numbers that is not empty has a least one.                     *)
LEMMA LeastNat ==
  ASSUME NEW T \in SUBSET Nat, T # {} PROVE \E m \in T : \A k \in T : m <= k
<1>1. PICK m \in T : \A k \in T : ~ (<<k, m>> \in OpToRel(<,Nat))
  BY WFMin, NatLessThanWellFounded, Zenon
<1>2. \A k \in T : ~(k < m)
  BY <1>1 DEF OpToRel
<1> QED BY <1>2

(* What the fold chooses from a set is of the set.                         *)
LEMMA AnyOfIn == \A s : s # {} => AnyOf(s) \in s
BY DEF AnyOf

(* The recursion has a solution: on the sets of at most n elements, for *)
(* the least n it has none for, contradicting the one below.            *)
LEMMA SumExists ==
  ASSUME NEW S, IsFiniteSet(S) PROVE \E f : SumsOf(f, S)
<1> DEFINE Step(f, s) == IF s = {} THEN 0 ELSE AnyOf(s).size + f[s \ {AnyOf(s)}]
           Holds(n) == \E f : f = [s \in OfSize(S, n) |-> Step(f, s)]
           Bad == {n \in Nat : ~Holds(n)}
<1>1. Holds(0)
  <2> DEFINE f == [s \in OfSize(S, 0) |-> 0]
  <2>1. ASSUME NEW s \in OfSize(S, 0) PROVE s = {}
    <3>1. IsFiniteSet(s)
      BY FS_Subset DEF OfSize
    <3>2. Cardinality(s) \in Nat
      BY <3>1, FS_CardinalityType
    <3> QED BY <3>1, <3>2, FS_EmptySet DEF OfSize
  <2>2. f = [s \in OfSize(S, 0) |-> Step(f, s)]
    BY <2>1
  <2> QED BY <2>2
<1>2. ASSUME NEW n \in Nat, Holds(n) PROVE Holds(n + 1)
  <2>1. PICK f : f = [s \in OfSize(S, n) |-> Step(f, s)]
    BY <1>2
  <2> DEFINE g == [s \in OfSize(S, n + 1) |-> Step(f, s)]
  <2>2. ASSUME NEW s \in OfSize(S, n + 1), s # {}
        PROVE  s \ {AnyOf(s)} \in OfSize(S, n) /\ s \ {AnyOf(s)} \in OfSize(S, n + 1)
    <3>1. IsFiniteSet(s) /\ AnyOf(s) \in s
      BY <2>2, AnyOfIn, FS_Subset DEF OfSize
    <3>2. Cardinality(s \ {AnyOf(s)}) = Cardinality(s) - 1 /\ Cardinality(s) \in Nat
      BY <3>1, FS_RemoveElement, FS_CardinalityType
    <3> QED BY <3>2, <2>2 DEF OfSize
  <2>3. \A t \in OfSize(S, n) : t \in OfSize(S, n + 1)
    <3> SUFFICES ASSUME NEW t \in OfSize(S, n) PROVE t \in OfSize(S, n + 1)
      OBVIOUS
    <3>1. Cardinality(t) \in Nat
      BY FS_Subset, FS_CardinalityType DEF OfSize
    <3> QED BY <3>1 DEF OfSize
  <2>4. \A t \in OfSize(S, n) : g[t] = f[t]
    BY <2>1, <2>3, Zenon
  <2>5. ASSUME NEW s \in OfSize(S, n + 1) PROVE g[s] = Step(g, s)
    BY <2>2, <2>4
  <2> QED BY <2>5
<1> HIDE DEF Holds
<1>3. Bad = {}
  <2> SUFFICES ASSUME Bad # {} PROVE FALSE
    OBVIOUS
  <2>1. PICK m \in Bad : \A k \in Bad : m <= k
    BY LeastNat
  <2>2. m # 0
    BY <1>1
  <2>3. m - 1 \in Nat /\ m - 1 \notin Bad
    BY <2>1, <2>2
  <2>4. Holds(m - 1 + 1)
    BY <2>3, <1>2
  <2> QED BY <2>4
<1>4. Cardinality(S) \in Nat /\ OfSize(S, Cardinality(S)) = SUBSET S
  BY FS_CardinalityType, FS_Subset DEF OfSize
<1>5. Holds(Cardinality(S))
  BY <1>3, <1>4
<1> QED BY <1>4, <1>5 DEF SumsOf, Holds
(* Two sums of one set agree below a size as soon as both are sums there.  *)
LEMMA SumAgrees ==
  ASSUME NEW S, IsFiniteSet(S), NEW T \in SUBSET S, NEW f, NEW g,
         SumsOf(f, S), SumsOf(g, T)
  PROVE  \A s \in SUBSET T : f[s] = g[s]
<1> DEFINE Bad == {n \in Nat : \E s \in SUBSET T : Cardinality(s) = n /\ f[s] # g[s]}
<1>0. \A s \in SUBSET T : IsFiniteSet(s) /\ Cardinality(s) \in Nat
  BY FS_Subset, FS_CardinalityType
<1>1. Bad = {}
  <2> SUFFICES ASSUME Bad # {} PROVE FALSE
    OBVIOUS
  <2>1. PICK m \in Bad : \A k \in Bad : m <= k
    <3> HIDE DEF Bad
    <3>1. Bad \in SUBSET Nat
      BY DEF Bad
    <3> QED BY <3>1, LeastNat
  <2>2. PICK s \in SUBSET T : Cardinality(s) = m /\ f[s] # g[s]
    BY <2>1
  <2> DEFINE t == s \ {AnyOf(s)}
  <2>3. s # {}
    BY <2>2 DEF SumsOf
  <2>4. t \in SUBSET T /\ Cardinality(t) = m - 1
    BY <1>0, <2>2, <2>3, AnyOfIn, FS_RemoveElement
  <2>5. f[s] = AnyOf(s).size + f[t] /\ g[s] = AnyOf(s).size + g[t]
    BY <2>3, <2>4 DEF SumsOf
  <2>6. f[t] # g[t]
    BY <2>2, <2>5
  <2>7. m - 1 \in Nat /\ m \in Nat
    BY <1>0, <2>1, <2>4
  <2>8. m - 1 \in Bad
    BY <2>4, <2>6, <2>7
  <2> QED BY <2>1, <2>7, <2>8
<1> QED BY <1>0, <1>1

(* What the fold of Bytes computes, one element at a time. *)
LEMMA BytesIs ==
  ASSUME NEW S, IsFiniteSet(S)
  PROVE  \A f : SumsOf(f, S) => Bytes(S) = f[S]
<1>1. Bytes(S) = (CHOOSE f : SumsOf(f, S))[S]
  BY Zenon DEF Bytes, MapThenSumSet, MapThenFoldSet, SumsOf, AnyOf
<1>2. SumsOf(CHOOSE f : SumsOf(f, S), S)
  BY SumExists
<1> QED BY <1>1, <1>2, SumAgrees

(* The bytes of a set are those of one element and of the rest.            *)
LEMMA BytesUnfold ==
  ASSUME NEW S, IsFiniteSet(S)
  PROVE  Bytes(S) = IF S = {} THEN 0 ELSE AnyOf(S).size + Bytes(S \ {AnyOf(S)})
<1> DEFINE T == S \ {AnyOf(S)}
<1>1. IsFiniteSet(T)
  BY FS_Subset
<1>2. PICK f : SumsOf(f, S)
  BY SumExists
<1>3. PICK g : SumsOf(g, T)
  BY <1>1, SumExists
<1>4. f[T] = g[T]
  BY <1>2, <1>3, SumAgrees
<1>5. Bytes(S) = f[S] /\ Bytes(T) = g[T]
  BY <1>1, <1>2, <1>3, BytesIs
<1>6. f[S] = IF S = {} THEN 0 ELSE AnyOf(S).size + f[T]
  BY <1>2 DEF SumsOf
<1> QED BY <1>4, <1>5, <1>6

Sized(S) == IsFiniteSet(S) /\ \A e \in S : e.size \in Nat

(* A frame taken out takes its size with it.                               *)
LEMMA BytesRemove ==
  ASSUME NEW S, Sized(S)
  PROVE  /\ Bytes(S) \in Nat
         /\ \A e \in S : Bytes(S) = e.size + Bytes(S \ {e})
<1> DEFINE Good(s) == Bytes(s) \in Nat /\ \A e \in s : Bytes(s) = e.size + Bytes(s \ {e})
           Bad == {n \in Nat : \E s \in SUBSET S : Cardinality(s) = n /\ ~Good(s)}
<1>0. \A s \in SUBSET S : Sized(s) /\ Cardinality(s) \in Nat
  BY FS_Subset, FS_CardinalityType DEF Sized
<1>1. Bad = {}
  <2> SUFFICES ASSUME Bad # {} PROVE FALSE
    OBVIOUS
  <2>1. PICK m \in Bad : \A k \in Bad : m <= k
    <3> HIDE DEF Bad
    <3>1. Bad \in SUBSET Nat
      BY DEF Bad
    <3> QED BY <3>1, LeastNat
  <2>2. PICK s \in SUBSET S : Cardinality(s) = m /\ ~Good(s)
    BY <2>1
  <2>3. Sized(s) /\ m \in Nat
    BY <1>0, <2>2
  <2>4. ASSUME NEW t \in SUBSET s, t # s PROVE Good(t)
    <3>1. Cardinality(t) < m /\ Cardinality(t) \in Nat
      BY <1>0, <2>2, <2>3, <2>4, FS_Subset DEF Sized
    <3>2. Cardinality(t) \notin Bad
      BY <2>1, <2>3, <3>1
    <3> QED BY <3>1, <3>2
  <2> DEFINE x == AnyOf(s)
             r == s \ {x}
  <2>5. s # {}
    <3> SUFFICES ASSUME s = {} PROVE Good(s)
      BY <2>2
    <3>1. Bytes(s) = 0
      BY <2>3, BytesUnfold DEF Sized
    <3> QED BY <3>1
  <2>6. x \in s
    BY <2>5, AnyOfIn
  <2> HIDE DEF x
  <2>7. Bytes(s) = x.size + Bytes(r) /\ Bytes(r) \in Nat /\ x.size \in Nat
    BY <2>3, <2>4, <2>5, <2>6, BytesUnfold DEF Sized, x
  <2>8. Bytes(s) \in Nat
    BY <2>7
  <2>9. ASSUME NEW e \in s PROVE Bytes(s) = e.size + Bytes(s \ {e})
    <3>1. CASE e = x
      BY <2>7, <3>1
    <3>2. CASE e # x
      <4> DEFINE q == (s \ {x}) \ {e}
      <4>1. Bytes(r) = e.size + Bytes(q)
        BY <2>4, <2>6, <3>2
      <4>2. (s \ {e}) \ {x} = q /\ x \in s \ {e}
        BY <2>6, <3>2
      <4>3. Bytes(s \ {e}) = x.size + Bytes(q)
        BY <2>4, <4>2
      <4>4. Bytes(q) \in Nat /\ e.size \in Nat
        BY <2>3, <2>4, <2>6 DEF Sized
      <4> QED BY <2>7, <4>1, <4>3, <4>4
    <3> QED BY <3>1, <3>2
  <2> QED BY <2>2, <2>8, <2>9
<1> QED BY <1>0, <1>1
(* A frame put in adds its size.                                           *)
LEMMA BytesAdd ==
  ASSUME NEW S, Sized(S), NEW e, e \notin S, e.size \in Nat
  PROVE  Sized(S \cup {e}) /\ Bytes(S \cup {e}) = Bytes(S) + e.size
<1>1. Sized(S \cup {e})
  BY FS_AddElement DEF Sized
<1>2. (S \cup {e}) \ {e} = S
  OBVIOUS
<1>3. Bytes(S) \in Nat
  BY BytesRemove
<1>4. Bytes(S \cup {e}) = e.size + Bytes(S)
  BY <1>1, <1>2, BytesRemove
<1> QED BY <1>1, <1>3, <1>4

(* The bytes of a set are those of a part and of what is left.             *)
LEMMA BytesSplit ==
  ASSUME NEW S, Sized(S), NEW T \in SUBSET S
  PROVE  /\ Sized(T) /\ Sized(S \ T) /\ Bytes(T) \in Nat /\ Bytes(S) \in Nat
         /\ Bytes(S \ T) = Bytes(S) - Bytes(T)
<1>0. \A s \in SUBSET S : Sized(s) /\ Cardinality(s) \in Nat /\ Bytes(s) \in Nat
  <2>1. \A s \in SUBSET S : Sized(s)
    BY FS_Subset DEF Sized
  <2>2. \A s \in SUBSET S : Bytes(s) \in Nat
    BY <2>1, BytesRemove
  <2>3. \A s \in SUBSET S : Cardinality(s) \in Nat
    BY <2>1, FS_CardinalityType DEF Sized
  <2> QED BY <2>1, <2>2, <2>3
<1> DEFINE Good(s) == Bytes(S \ s) = Bytes(S) - Bytes(s)
           Bad == {n \in Nat : \E s \in SUBSET S : Cardinality(s) = n /\ ~Good(s)}
<1>1. Bad = {}
  <2> SUFFICES ASSUME Bad # {} PROVE FALSE
    OBVIOUS
  <2>1. PICK m \in Bad : \A k \in Bad : m <= k
    <3> HIDE DEF Bad
    <3>1. Bad \in SUBSET Nat
      BY DEF Bad
    <3> QED BY <3>1, LeastNat
  <2>2. PICK s \in SUBSET S : Cardinality(s) = m /\ ~Good(s)
    BY <2>1
  <2>3. s # {}
    <3> SUFFICES ASSUME s = {} PROVE Good(s)
      BY <2>2
    <3>1. Bytes(s) = 0 /\ S \ s = S
      BY <1>0, BytesUnfold DEF Sized
    <3> QED BY <1>0, <3>1
  <2>4. PICK e \in s : TRUE
    BY <2>3
  <2> DEFINE t == s \ {e}
  <2>5. Cardinality(t) = m - 1 /\ Cardinality(t) \in Nat /\ m \in Nat
    BY <1>0, <2>2, FS_RemoveElement DEF Sized
  <2>6. Good(t)
    <3>1. t \in SUBSET S
      OBVIOUS
    <3>2. Cardinality(t) \notin Bad
      <4> HIDE DEF Bad
      <4> QED BY <2>1, <2>5
    <3> HIDE DEF t, Good
    <3> QED BY <2>5, <3>1, <3>2
  <2>7. Bytes(s) = e.size + Bytes(t)
    BY <1>0, BytesRemove
  <2>8. S \ s = (S \ t) \ {e} /\ e \in S \ t
    OBVIOUS
  <2>9. Bytes(S \ t) = e.size + Bytes(S \ s)
    BY <1>0, <2>8, BytesRemove
  <2>10. e.size \in Nat /\ Bytes(s) \in Nat /\ Bytes(t) \in Nat /\ Bytes(S \ s) \in Nat
         /\ Bytes(S \ t) \in Nat /\ Bytes(S) \in Nat
    BY <1>0 DEF Sized
  <2>11. Good(s)
    BY <2>6, <2>7, <2>9, <2>10
  <2> QED BY <2>2, <2>11
<1> QED BY <1>0, <1>1
=============================================================================
