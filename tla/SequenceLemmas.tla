--------------------------- MODULE SequenceLemmas ---------------------------
(***************************************************************************)
(* Facts about a sequence that is kept in parts: the queue, the batch and  *)
(* the history of the write path, and the file and the buffer of the WAL.  *)
(* And induction, over numbers and over sequences, stated about the set of *)
(* those that have the property: provers can instantiate a set where they  *)
(* cannot instantiate an operator.  And recursion: a function that is      *)
(* defined by the values at points of lower rank exists.                   *)
(***************************************************************************)
EXTENDS Naturals, Sequences, SequenceTheorems, WellFoundedInduction, TLAPS

(* Moving the border between two sequences changes neither their
   concatenation nor what it consists of. *)
LEMMA MoveHead ==
  ASSUME NEW S, NEW s \in Seq(S), NEW t \in Seq(S), t # <<>>
  PROVE  Append(s, Head(t)) \o Tail(t) = s \o t
<1>1. /\ Head(t) \in S /\ Tail(t) \in Seq(S) /\ Len(Tail(t)) = Len(t) - 1
      /\ \A i \in 1 .. Len(Tail(t)) : Tail(t)[i] = t[i + 1]
      /\ Head(t) = t[1]
  BY HeadTailProperties
<1>2. Len(t) \in Nat \ {0} /\ Len(s) \in Nat
  BY EmptySeq, LenProperties
<1> DEFINE left == Append(s, Head(t)) \o Tail(t)
<1>3. /\ Append(s, Head(t)) \in Seq(S) /\ Len(Append(s, Head(t))) = Len(s) + 1
      /\ \A i \in 1 .. Len(s) : Append(s, Head(t))[i] = s[i]
      /\ Append(s, Head(t))[Len(s) + 1] = t[1]
  BY <1>1
<1>4. /\ left \in Seq(S) /\ Len(left) = Len(s) + Len(t)
      /\ \A i \in 1 .. Len(s) + Len(t) :
           left[i] = IF i <= Len(s) + 1 THEN Append(s, Head(t))[i] ELSE Tail(t)[i - (Len(s) + 1)]
  <2>1. Len(s) + 1 + Len(Tail(t)) = Len(s) + Len(t)
    BY <1>1, <1>2
  <2> QED BY <1>1, <1>3, <2>1, ConcatProperties
<1>5. /\ s \o t \in Seq(S) /\ Len(s \o t) = Len(s) + Len(t)
      /\ \A i \in 1 .. Len(s) + Len(t) : (s \o t)[i] = IF i <= Len(s) THEN s[i] ELSE t[i - Len(s)]
  BY ConcatProperties
<1>6. ASSUME NEW i \in 1 .. Len(s) + Len(t) PROVE left[i] = (s \o t)[i]
  <2>1. CASE i <= Len(s)
    BY <2>1, <1>2, <1>3, <1>4, <1>5
  <2>2. CASE i = Len(s) + 1
    BY <2>2, <1>2, <1>3, <1>4, <1>5
  <2>3. CASE i > Len(s) + 1
    <3>1. i - (Len(s) + 1) \in 1 .. Len(Tail(t)) /\ (i - (Len(s) + 1)) + 1 = i - Len(s)
      BY <2>3, <1>1, <1>2
    <3> QED BY <2>3, <3>1, <1>1, <1>2, <1>4, <1>5
  <2> QED BY <2>1, <2>2, <2>3, <1>2
<1> HIDE DEF left
<1> QED BY <1>4, <1>5, <1>6, SeqEqual DEF left

(* Appending to the right part is appending to the whole. *)
LEMMA AppendRight ==
  ASSUME NEW S, NEW s \in Seq(S), NEW t \in Seq(S), NEW e \in S
  PROVE  s \o Append(t, e) = Append(s \o t, e)
<1>1. <<e>> \in Seq(S) /\ s \o t \in Seq(S)
  BY ConcatProperties
<1>2. ASSUME NEW u \in Seq(S) PROVE Append(u, e) = u \o <<e>>
  BY AppendProperties
<1>3. Append(t, e) = t \o <<e>> /\ Append(s \o t, e) = (s \o t) \o <<e>>
  BY <1>1, <1>2
<1> QED BY <1>1, <1>3, ConcatAssociative

(* Only the last element has nothing behind it. *)
LEMMA SingleTail ==
  ASSUME NEW S, NEW t \in Seq(S), t # <<>>
  PROVE  Tail(t) = <<>> <=> Len(t) = 1
<1>1. Tail(t) \in Seq(S) /\ Len(Tail(t)) = Len(t) - 1 /\ Len(t) \in Nat
  BY HeadTailProperties, LenProperties
<1>2. Tail(t) = <<>> <=> Len(Tail(t)) = 0
  BY <1>1, EmptySeq
<1>3. ASSUME NEW n \in Nat PROVE n - 1 = 0 <=> n = 1
  OBVIOUS
<1> QED BY <1>1, <1>2, <1>3, Z3

(* The first part of a sequence is the first part of its first part. *)
LEMMA FirstPart ==
  ASSUME NEW S, NEW s \in Seq(S), NEW t \in Seq(S), NEW n \in 0 .. Len(s)
  PROVE  SubSeq(s \o t, 1, n) = SubSeq(s, 1, n)
<1>1. Len(s) \in Nat
  BY LenProperties
<1>2. CASE n = 0
  BY <1>2, SubSeqEmpty
<1>3. CASE n # 0
  BY <1>1, <1>3, SubSeqOfConcat1
<1> QED BY <1>2, <1>3

(* A frame is completed by its second write. *)
LEMMA CompleteFrame ==
  ASSUME NEW S, NEW s \in Seq(S), NEW e \in S, NEW u \in Seq(S), Len(u) = Len(s) + 1,
         u[Len(s) + 1] = e, \A i \in 1 .. Len(s) : u[i] = s[i]
  PROVE  u = Append(s, e)
<1> DEFINE t == Append(s, e)
<1>1. /\ t \in Seq(S) /\ Len(t) = Len(s) + 1 /\ Len(s) \in Nat
      /\ t[Len(s) + 1] = e /\ \A i \in 1 .. Len(s) : t[i] = s[i]
  BY AppendProperties, LenProperties
<1> HIDE DEF t
<1>2. \A i \in 1 .. Len(u) : u[i] = t[i]
  BY <1>1
<1>3. u = t
  BY <1>1, <1>2, SeqEqual
<1> QED BY <1>3 DEF t

----------------------------------------------------------------------------
(* A set of numbers that is not empty has a least one. *)
LEMMA LeastNumber ==
  ASSUME NEW T, T \subseteq Nat, T # {}
  PROVE  \E n \in T : \A m \in T : n <= m
<1> DEFINE R == OpToRel(<, Nat)
<1>1. IsWellFoundedOn(R, Nat)
  BY NatLessThanWellFounded
<1> HIDE DEF R
<1>2. \E x \in T : \A y \in T : ~ (<<y, x>> \in R)
  BY <1>1, WFMin
<1>3. \A x, y \in Nat : <<y, x>> \in R <=> y < x
  BY DEF R, OpToRel
<1>4. PICK n \in T : \A m \in T : ~ (<<m, n>> \in R)
  BY <1>2
<1>5. ASSUME NEW m \in T PROVE n <= m
  <2>1. m \in Nat /\ n \in Nat /\ ~(m < n)
    BY <1>3, <1>4
  <2> QED BY <2>1
<1> QED BY <1>4, <1>5

(* One that is bounded has a largest. *)
LEMMA LargestNumber ==
  ASSUME NEW n \in Nat, NEW T, T \subseteq 1 .. n, T # {}
  PROVE  \E m \in T : \A x \in T : x <= m
<1> DEFINE below == {n - x : x \in T}
<1>1. below \subseteq Nat /\ below # {}
  <2>1. \A x \in T : n - x \in Nat
    OBVIOUS
  <2> QED BY <2>1
<1>2. PICK b \in below : \A c \in below : b <= c
  BY <1>1, LeastNumber
<1>3. PICK m \in T : b = n - m
  BY <1>2
<1>4. ASSUME NEW x \in T PROVE x <= m
  <2>1. n - m <= n - x /\ x \in 1 .. n /\ m \in 1 .. n
    BY <1>2, <1>3
  <2> QED BY <2>1
<1> QED BY <1>4

(* Induction over numbers. *)
LEMMA NumberInduction ==
  ASSUME NEW T, 0 \in T, \A n \in Nat : n \in T => n + 1 \in T
  PROVE  Nat \subseteq T
<1> SUFFICES ASSUME Nat \ T # {} PROVE FALSE
  OBVIOUS
<1>1. PICK n \in Nat \ T : \A m \in Nat \ T : n <= m
  BY LeastNumber
<1>2. n # 0 /\ n - 1 \in Nat /\ n - 1 + 1 = n
  BY <1>1
<1>3. n - 1 \in T
  BY <1>1, <1>2
<1> QED BY <1>1, <1>2, <1>3

(* A sequence that is not empty is a shorter one with an element appended. *)
LEMMA LastElement ==
  ASSUME NEW S, NEW s \in Seq(S), s # <<>>
  PROVE  \E t \in Seq(S), e \in S : s = Append(t, e) /\ Len(s) = Len(t) + 1
<1>1. Len(s) \in Nat /\ Len(s) # 0 /\ \A i \in 1 .. Len(s) : s[i] \in S
  BY EmptySeq, LenProperties, ElementOfSeq
<1> DEFINE t == SubSeq(s, 1, Len(s) - 1)
<1>2. /\ t \in Seq(S) /\ Len(t) = Len(s) - 1
      /\ \A i \in 1 .. Len(s) - 1 : t[i] = s[i]
  <2>1. 1 \in Int /\ Len(s) - 1 \in Nat /\ \A i \in 1 .. Len(s) - 1 : s[i] \in S
    BY <1>1
  <2>2. Len(s) - 1 - 1 + 1 = Len(s) - 1
    BY <1>1
  <2> QED BY <2>1, <2>2, SubSeqProperties
<1> HIDE DEF t
<1>3. s = Append(t, s[Len(s)])
  BY <1>1, <1>2, CompleteFrame
<1> QED BY <1>1, <1>2, <1>3

(* Induction over sequences. *)
LEMMA SequenceInduction ==
  ASSUME NEW S, NEW T, <<>> \in T,
         \A s \in Seq(S), e \in S : s \in T => Append(s, e) \in T
  PROVE  Seq(S) \subseteq T
<1> DEFINE Ns == {n \in Nat : \A s \in Seq(S) : Len(s) = n => s \in T}
<1>1. 0 \in Ns
  BY EmptySeq
<1>2. ASSUME NEW n \in Nat, n \in Ns PROVE n + 1 \in Ns
  <2> SUFFICES ASSUME NEW s \in Seq(S), Len(s) = n + 1 PROVE s \in T
    OBVIOUS
  <2>1. s # <<>>
    BY EmptySeq
  <2>2. PICK t \in Seq(S), e \in S : s = Append(t, e) /\ Len(s) = Len(t) + 1
    BY <2>1, LastElement
  <2>3. Len(t) \in Nat /\ Len(t) = n
    BY <2>2, LenProperties
  <2> QED BY <1>2, <2>2, <2>3
<1> HIDE DEF Ns
<1>3. Nat \subseteq Ns
  BY <1>1, <1>2, NumberInduction
<1>4. ASSUME NEW s \in Seq(S) PROVE s \in T
  BY <1>3, LenProperties DEF Ns
<1> QED BY <1>4

(* Induction over numbers, from all smaller ones. *)
LEMMA StrongInduction ==
  ASSUME NEW T, \A n \in Nat : (\A m \in Nat : m < n => m \in T) => n \in T
  PROVE  Nat \subseteq T
<1> SUFFICES ASSUME Nat \ T # {} PROVE FALSE
  OBVIOUS
<1>1. PICK n \in Nat \ T : \A m \in Nat \ T : n <= m
  BY LeastNumber
<1>2. \A m \in Nat : m < n => m \in T
  BY <1>1
<1> QED BY <1>1, <1>2

(* B says what a function has at a point, given the function: it depends on the
   values at points of lower rank only. *)
RecursiveBody(D, V, rank, B) ==
  /\ V # {} /\ rank \in [D -> Nat] /\ B \in [D \X [D -> V] -> V]
  /\ \A x \in D : \A f, g \in [D -> V] :
       (\A y \in D : rank[y] < rank[x] => f[y] = g[y]) => B[<<x, f>>] = B[<<x, g>>]

(* Then there is such a function. *)
LEMMA RankedRecursion ==
  ASSUME NEW D, NEW V, NEW rank, NEW B, RecursiveBody(D, V, rank, B)
  PROVE  \E f \in [D -> V] : \A x \in D : f[x] = B[<<x, f>>]
<1> USE DEF RecursiveBody
<1> DEFINE A(n) == {f \in [D -> V] : \A x \in D : rank[x] < n => f[x] = B[<<x, f>>]}
           Ns   == {n \in Nat : A(n) # {}}
<1>1. 0 \in Ns
  <2>1. PICK v \in V : TRUE
    OBVIOUS
  <2>2. [x \in D |-> v] \in A(0)
    OBVIOUS
  <2> QED BY <2>2
<1>2. ASSUME NEW n \in Nat, n \in Ns PROVE n + 1 \in Ns
  <2>1. PICK f \in [D -> V] : \A x \in D : rank[x] < n => f[x] = B[<<x, f>>]
    BY <1>2
  <2> DEFINE g == [x \in D |-> B[<<x, f>>]]
  <2>2. g \in [D -> V]
    OBVIOUS
  <2>3. ASSUME NEW x \in D, rank[x] < n + 1 PROVE g[x] = B[<<x, g>>]
    <3>1. \A y \in D : rank[y] < rank[x] => f[y] = g[y]
      BY <2>1, <2>3
    <3>2. B[<<x, f>>] = B[<<x, g>>]
      BY <2>2, <3>1
    <3> QED BY <3>2
  <2> HIDE DEF g
  <2>4. g \in A(n + 1)
    BY <2>2, <2>3
  <2> QED BY <2>4
<1>3. \A n \in Nat : A(n) # {}
  <2> HIDE DEF A
  <2>1. Nat \subseteq Ns
    <3> HIDE DEF Ns
    <3> QED BY <1>1, <1>2, NumberInduction
  <2> QED BY <2>1
<1>4. ASSUME NEW n \in Nat, NEW m \in Nat, NEW f \in A(n), NEW g \in A(m)
      PROVE  \A x \in D : rank[x] < n /\ rank[x] < m => f[x] = g[x]
  <2> DEFINE T == {r \in Nat : \A x \in D : rank[x] = r /\ r < n /\ r < m => f[x] = g[x]}
  <2>1. ASSUME NEW r \in Nat, \A q \in Nat : q < r => q \in T PROVE r \in T
    <3> SUFFICES ASSUME NEW x \in D, rank[x] = r, r < n, r < m PROVE f[x] = g[x]
      OBVIOUS
    <3>1. \A y \in D : rank[y] < rank[x] => f[y] = g[y]
      <4> SUFFICES ASSUME NEW y \in D, rank[y] < rank[x] PROVE f[y] = g[y]
        OBVIOUS
      <4>1. rank[y] \in T /\ rank[y] < n /\ rank[y] < m
        BY <2>1
      <4> QED BY <4>1
    <3>2. B[<<x, f>>] = B[<<x, g>>]
      BY <3>1
    <3> QED BY <3>2
  <2> HIDE DEF T
  <2>2. Nat \subseteq T
    BY <2>1, StrongInduction
  <2> QED BY <2>2 DEF T
<1> DEFINE F(x) == CHOOSE f \in A(rank[x] + 1) : TRUE
           h    == [x \in D |-> F(x)[x]]
<1>5. \A x \in D : F(x) \in A(rank[x] + 1)
  <2> HIDE DEF A
  <2> QED BY <1>3
<1>6. ASSUME NEW x \in D PROVE \A y \in D : rank[y] <= rank[x] => h[y] = F(x)[y]
  <2> SUFFICES ASSUME NEW y \in D, rank[y] <= rank[x] PROVE F(y)[y] = F(x)[y]
    OBVIOUS
  <2>1. F(y) \in A(rank[y] + 1) /\ F(x) \in A(rank[x] + 1)
    BY <1>5
  <2>2. rank[y] < rank[y] + 1 /\ rank[y] < rank[x] + 1
    OBVIOUS
  <2> HIDE DEF A, F
  <2>3. rank[y] + 1 \in Nat /\ rank[x] + 1 \in Nat
    OBVIOUS
  <2> QED BY <2>1, <2>2, <2>3, <1>4
<1>7. \A x \in D : F(x) \in [D -> V] /\ F(x)[x] = B[<<x, F(x)>>]
  <2> SUFFICES ASSUME NEW x \in D PROVE F(x) \in [D -> V] /\ F(x)[x] = B[<<x, F(x)>>]
    OBVIOUS
  <2>1. F(x) \in A(rank[x] + 1)
    BY <1>5
  <2> HIDE DEF F
  <2>2. rank[x] < rank[x] + 1
    OBVIOUS
  <2> QED BY <2>1, <2>2
<1> HIDE DEF F, A
<1>8. h \in [D -> V]
  BY <1>7
<1>9. ASSUME NEW x \in D PROVE h[x] = B[<<x, h>>]
  <2>1. \A y \in D : rank[y] < rank[x] => h[y] = F(x)[y]
    BY <1>6
  <2> HIDE DEF h
  <2>2. B[<<x, h>>] = B[<<x, F(x)>>]
    BY <2>1, <1>7, <1>8
  <2>3. h[x] = F(x)[x]
    BY DEF h
  <2> QED BY <2>2, <2>3, <1>7
<1> HIDE DEF h
<1> QED BY <1>8, <1>9

============
