---------------------------- MODULE FormatsProofs ----------------------------
(***************************************************************************)
(* Proofs about the encodings and what becomes of values on their way to   *)
(* disk and back (modules Encodings and Formats), for any base and word,   *)
(* any depth of nesting and any entries that fit.                          *)
(*                                                                         *)
(* What a loop or a recursive function computes is proved by induction, as *)
(* module SequenceLemmas states it: about the set of the inputs that have  *)
(* the property.                                                           *)
(***************************************************************************)
EXTENDS Formats, SequenceLemmas

----------------------------------------------------------------------------
(* Numbers: digits and positions. *)

(* The loop of Positional, digit by digit. *)
LEMMA PositionalSteps ==
  ASSUME NEW base, NEW s, Len(s) \in Nat
  PROVE  \E f : /\ Positional(base, s) = f[Len(s)] /\ f[0] = 0
                /\ \A i \in 1 .. Len(s) : f[i] = Shifted(base, f[i - 1], s[i])
<1> DEFINE Step(f, i) == IF i = 0 THEN 0 ELSE Shifted(base, f[i - 1], s[i])
           Is(f, n)   == f = [i \in 0 .. n |-> Step(f, i)]
           Ns         == {n \in Nat : \E f : Is(f, n)}
<1>1. 0 \in Ns
  <2>1. Is([i \in 0 .. 0 |-> 0], 0)
    OBVIOUS
  <2> QED BY <2>1
<1>2. ASSUME NEW n \in Nat, n \in Ns PROVE n + 1 \in Ns
  <2>1. PICK f : Is(f, n)
    BY <1>2
  <2> DEFINE g == [i \in 0 .. n + 1 |-> Step(f, i)]
  <2>2. ASSUME NEW i \in 0 .. n + 1 PROVE Step(f, i) = Step(g, i)
    <3>1. CASE i = 0
      BY <3>1
    <3>2. CASE i # 0
      <4>1. i - 1 \in 0 .. n /\ i - 1 \in 0 .. n + 1
        BY <3>2
      <4>2. g[i - 1] = f[i - 1]
        <5> HIDE DEF Step
        <5> QED BY <4>1, <2>1
      <4> HIDE DEF g
      <4> QED BY <3>2, <4>2
    <3> QED BY <3>1, <3>2
  <2>3. Is(g, n + 1)
    <3> HIDE DEF Step
    <3> QED BY <2>2
  <2> HIDE DEF Is, g
  <2> QED BY <2>3
<1> HIDE DEF Ns
<1>3. Len(s) \in Ns
  BY <1>1, <1>2, NumberInduction
<1> DEFINE f == CHOOSE f : Is(f, Len(s))
<1>4. Is(f, Len(s))
  <2>1. \E g : Is(g, Len(s))
    BY <1>3 DEF Ns
  <2> HIDE DEF Is
  <2> QED BY <2>1
<1>5. Positional(base, s) = f[Len(s)]
  BY Zenon DEF Positional
<1> HIDE DEF f
<1>6. f[0] = 0 /\ \A i \in 1 .. Len(s) : f[i] = Step(f, i)
  <2> HIDE DEF Step
  <2>1. \A i \in 0 .. Len(s) : f[i] = Step(f, i)
    BY <1>4
  <2> USE DEF Step
  <2> QED BY <2>1
<1> QED BY <1>5, <1>6

(* Positional depends on nothing but the digits. *)
LEMMA PositionalAppend ==
  ASSUME NEW base, NEW S, NEW s \in Seq(S), NEW d \in S
  PROVE  /\ Positional(base, <<>>) = 0
         /\ Positional(base, Append(s, d)) = Shifted(base, Positional(base, s), d)
<1>1. Positional(base, <<>>) = 0
  <2>1. Len(<<>>) = 0
    OBVIOUS
  <2> QED BY <2>1, PositionalSteps
<1> DEFINE t == Append(s, d)
<1>2. /\ Len(s) \in Nat /\ Len(t) = Len(s) + 1 /\ t[Len(s) + 1] = d
      /\ \A i \in 1 .. Len(s) : t[i] = s[i]
  BY AppendProperties, LenProperties
<1> HIDE DEF t
<1>3. PICK f : /\ Positional(base, s) = f[Len(s)] /\ f[0] = 0
               /\ \A i \in 1 .. Len(s) : f[i] = Shifted(base, f[i - 1], s[i])
  BY <1>2, PositionalSteps
<1>4. Len(t) \in Nat
  BY <1>2
<1>5. PICK g : /\ Positional(base, t) = g[Len(t)] /\ g[0] = 0
               /\ \A i \in 1 .. Len(t) : g[i] = Shifted(base, g[i - 1], t[i])
  BY <1>4, PositionalSteps
<1> DEFINE Ns == {n \in Nat : n <= Len(s) => g[n] = f[n]}
<1>6. 0 \in Ns
  BY <1>3, <1>5
<1>7. ASSUME NEW n \in Nat, n \in Ns PROVE n + 1 \in Ns
  <2> SUFFICES ASSUME n + 1 <= Len(s) PROVE g[n + 1] = f[n + 1]
    OBVIOUS
  <2>1. n + 1 \in 1 .. Len(s) /\ n + 1 \in 1 .. Len(t) /\ n + 1 - 1 = n /\ n <= Len(s)
    BY <1>2
  <2> QED BY <1>2, <1>3, <1>5, <1>7, <2>1
<1> HIDE DEF Ns
<1>8. Len(s) \in Ns
  BY <1>2, <1>6, <1>7, NumberInduction
<1>9. g[Len(s)] = f[Len(s)]
  BY <1>2, <1>8 DEF Ns
<1>10. Len(s) + 1 \in 1 .. Len(t) /\ Len(s) + 1 - 1 = Len(s)
  BY <1>2
<1>11. Positional(base, t) = Shifted(base, Positional(base, s), d)
  BY <1>2, <1>3, <1>5, <1>9, <1>10
<1> QED BY <1>1, <1>11 DEF t

(* Quotient and remainder. *)
LEMMA Quotient ==
  ASSUME NEW base \in Nat \ {0, 1}, NEW n \in Nat
  PROVE  /\ n \div base \in Nat /\ n % base \in 0 .. base - 1
         /\ n = (n \div base) * base + (n % base)
         /\ ~(n < base) => n \div base < n
OBVIOUS

(* A digit is its own remainder, with and without the continuation bit. *)
LEMMA Remainder ==
  ASSUME NEW base \in Nat \ {0, 1}, NEW d \in Nat, d < base
  PROVE  d % base = d /\ (base + d) % base = d
OBVIOUS

(* The recursion of Expansion. *)
LEMMA ExpansionStep ==
  ASSUME NEW base \in Nat \ {0, 1}
  PROVE  Expansion(base) = [n \in Nat |-> IF n < base THEN <<n>>
                                          ELSE Append(Expansion(base)[n \div base], n % base)]
<1> DEFINE V == Seq(Nat)
           Body(f, n) == IF n < base THEN <<n>> ELSE Append(f[n \div base], n % base)
           Is(f) == f = [n \in Nat |-> Body(f, n)]
           rank == [n \in Nat |-> n]
           B == [p \in Nat \X [Nat -> V] |-> Body(p[2], p[1])]
<1>1. \A n \in Nat : n % base \in Nat /\ n \div base \in Nat /\ (n >= base => n \div base < n)
  OBVIOUS
<1>2. ASSUME NEW n \in Nat, NEW f \in [Nat -> V] PROVE Body(f, n) \in V
  <2>1. CASE n < base
    BY <2>1
  <2>2. CASE ~(n < base)
    <3>1. f[n \div base] \in Seq(Nat) /\ n % base \in Nat
      BY <1>1
    <3>2. Append(f[n \div base], n % base) \in Seq(Nat)
      BY <3>1, AppendProperties
    <3> QED BY <2>2, <3>2
  <2> QED BY <2>1, <2>2
<1>3. ASSUME NEW n \in Nat, NEW f \in [Nat -> V], NEW g \in [Nat -> V],
             \A m \in Nat : m < n => f[m] = g[m]
      PROVE  Body(f, n) = Body(g, n)
  <2>1. CASE n < base
    BY <2>1
  <2>2. CASE ~(n < base)
    <3>1. n \div base \in Nat /\ n \div base < n
      BY <2>2, Quotient
    <3> QED BY <1>3, <2>2, <3>1
  <2> QED BY <2>1, <2>2
<1> HIDE DEF Body
<1>4. /\ B \in [Nat \X [Nat -> V] -> V] /\ rank \in [Nat -> Nat] /\ V # {}
      /\ \A n \in Nat : \A f, g \in [Nat -> V] :
           (\A m \in Nat : rank[m] < rank[n] => f[m] = g[m]) => B[<<n, f>>] = B[<<n, g>>]
  <2>1. V # {}
    BY EmptySeq
  <2> HIDE DEF V
  <2> QED BY <1>2, <1>3, <2>1
<1> HIDE DEF rank
<1>5. PICK f \in [Nat -> V] : \A n \in Nat : f[n] = B[<<n, f>>]
  <2>1. RecursiveBody(Nat, V, rank, B)
    BY <1>4 DEF RecursiveBody
  <2> HIDE DEF B, V
  <2> QED BY <2>1, RankedRecursion
<1>6. Is(f)
  <2> HIDE DEF V
  <2>1. \A n \in Nat : f[n] = Body(f, n)
    BY <1>5
  <2> QED BY <2>1
<1>7. Expansion(base) = CHOOSE g : Is(g)
  BY Zenon DEF Expansion, Body
<1>8. Is(Expansion(base))
  <2> HIDE DEF Is
  <2> QED BY <1>6, <1>7
<1> QED BY <1>8 DEF Body

(* Digits are digits, and they stand for the number. *)
LEMMA ExpansionProperties ==
  ASSUME NEW base \in Nat \ {0, 1}, NEW n \in Nat
  PROVE  /\ Expansion(base)[n] \in Seq(0 .. base - 1) /\ Len(Expansion(base)[n]) >= 1
         /\ Positional(base, Expansion(base)[n]) = n
<1> DEFINE E == Expansion(base)
           Good(m) == E[m] \in Seq(0 .. base - 1) /\ Len(E[m]) >= 1 /\ Positional(base, E[m]) = m
           T == {m \in Nat : Good(m)}
<1>1. \A m \in Nat : E[m] = IF m < base THEN <<m>> ELSE Append(E[m \div base], m % base)
  <2>1. E = [m \in Nat |-> IF m < base THEN <<m>> ELSE Append(E[m \div base], m % base)]
    BY ExpansionStep
  <2> HIDE DEF E
  <2> QED BY <2>1, Zenon
<1> HIDE DEF E
<1>2. ASSUME NEW m \in Nat, \A k \in Nat : k < m => k \in T PROVE m \in T
  <2>1. CASE m < base
    <3>1. E[m] = <<m>> /\ m \in 0 .. base - 1
      <4>1. E[m] = <<m>>
        BY <1>1, <2>1, Zenon
      <4> QED BY <2>1, <4>1
    <3>2. <<m>> = Append(<<>>, m) /\ <<>> \in Seq(0 .. base - 1) /\ Len(<<m>>) = 1
      OBVIOUS
    <3>3. Positional(base, Append(<<>>, m)) = Shifted(base, Positional(base, <<>>), m)
          /\ Positional(base, <<>>) = 0
      BY <3>1, <3>2, PositionalAppend
    <3>4. Shifted(base, 0, m) = m
      BY DEF Shifted
    <3> HIDE DEF Shifted
    <3>5. Good(m)
      <4>1. <<m>> \in Seq(0 .. base - 1) /\ Len(<<m>>) >= 1
        BY <3>1
      <4> QED BY <3>1, <3>2, <3>3, <3>4, <4>1
    <3> QED BY <3>5
  <2>2. CASE ~(m < base)
    <3> DEFINE k == m \div base
               d == m % base
    <3>1. k \in Nat /\ k < m /\ d \in 0 .. base - 1 /\ m = k * base + d
      BY <2>2
    <3>2. E[m] = Append(E[k], d)
      BY <1>1, <2>2, Zenon
    <3> HIDE DEF k, d
    <3>3. Good(k)
      BY <1>2, <3>1
    <3>4. Positional(base, Append(E[k], d)) = Shifted(base, k, d)
      BY <3>1, <3>3, PositionalAppend
    <3>5. Append(E[k], d) \in Seq(0 .. base - 1) /\ Len(Append(E[k], d)) = Len(E[k]) + 1
      BY <3>1, <3>3, AppendProperties
    <3>6. Len(E[k]) + 1 >= 1
      BY <3>3, LenProperties
    <3>7. Shifted(base, k, d) = m
      BY <3>1 DEF Shifted
    <3> QED BY <3>2, <3>4, <3>5, <3>6, <3>7
  <2> QED BY <2>1, <2>2
<1> HIDE DEF T
<1>3. n \in T
  BY <1>2, StrongInduction
<1> QED BY <1>3 DEF T, E

----------------------------------------------------------------------------
(* Varints. *)

(* The bytes of s stand in buf from pos on. *)
Holds(buf, pos, s) ==
  /\ pos + Len(s) <= Len(buf) + 1
  /\ \A i \in 1 .. Len(s) : buf[pos + i - 1] = s[i]

(* A sequence holds itself, and what holds a concatenation holds its parts. *)
LEMMA HoldsParts ==
  ASSUME NEW S, NEW s \in Seq(S), NEW t \in Seq(S), NEW buf, NEW pos \in Nat \ {0},
         Len(buf) \in Nat, Holds(buf, pos, s \o t)
  PROVE  Holds(buf, pos, s) /\ Holds(buf, pos + Len(s), t)
<1>1. /\ s \o t \in Seq(S) /\ Len(s \o t) = Len(s) + Len(t) /\ Len(s) \in Nat /\ Len(t) \in Nat
      /\ \A i \in 1 .. Len(s) + Len(t) : (s \o t)[i] = IF i <= Len(s) THEN s[i] ELSE t[i - Len(s)]
  BY ConcatProperties, LenProperties
<1> DEFINE u == s \o t
<1>2. Len(u) = Len(s) + Len(t)
  BY <1>1
<1>3. \A i \in 1 .. Len(s) : i \in 1 .. Len(u) /\ u[i] = s[i]
  BY <1>1
<1>4. \A i \in 1 .. Len(t) : Len(s) + i \in 1 .. Len(u) /\ u[Len(s) + i] = t[i]
  <2> SUFFICES ASSUME NEW i \in 1 .. Len(t)
               PROVE  Len(s) + i \in 1 .. Len(u) /\ u[Len(s) + i] = t[i]
    OBVIOUS
  <2>1. Len(s) + i \in 1 .. Len(s) + Len(t) /\ ~(Len(s) + i <= Len(s)) /\ Len(s) + i - Len(s) = i
    BY <1>1
  <2> QED BY <1>1, <2>1
<1> HIDE DEF u
<1>5. Holds(buf, pos, u)
  BY DEF u
<1>6. Holds(buf, pos, s)
  BY <1>1, <1>2, <1>3, <1>5 DEF Holds
<1>7. Holds(buf, pos + Len(s), t)
  <2>1. pos + Len(s) + Len(t) <= Len(buf) + 1
    BY <1>1, <1>2, <1>5 DEF Holds
  <2>2. ASSUME NEW i \in 1 .. Len(t) PROVE buf[pos + Len(s) + i - 1] = t[i]
    <3>1. buf[pos + (Len(s) + i) - 1] = u[Len(s) + i] /\ u[Len(s) + i] = t[i]
      BY <1>4, <1>5 DEF Holds
    <3>2. pos + (Len(s) + i) - 1 = pos + Len(s) + i - 1
      BY <1>1
    <3> QED BY <3>1, <3>2
  <2> QED BY <2>1, <2>2 DEF Holds
<1> QED BY <1>6, <1>7

(* Reading what is held. *)
LEMMA HeldPart ==
  ASSUME NEW S, NEW buf \in Seq(S), NEW s \in Seq(S), NEW pos \in Nat \ {0}, Holds(buf, pos, s)
  PROVE  SubSeq(buf, pos, pos + Len(s) - 1) = s
<1>1. Len(s) \in Nat /\ Len(buf) \in Nat /\ pos + Len(s) - 1 \in Nat
      /\ pos + Len(s) - 1 - pos + 1 = Len(s)
  BY LenProperties
<1>2. \A i \in pos .. pos + Len(s) - 1 : buf[i] \in S
  BY <1>1, ElementOfSeq DEF Holds
<1> DEFINE t == SubSeq(buf, pos, pos + Len(s) - 1)
<1>3. /\ t \in Seq(S) /\ Len(t) = Len(s)
      /\ \A i \in 1 .. Len(s) : t[i] = buf[pos + i - 1]
  <2>1. pos \in Int /\ (pos <= pos + Len(s) - 1 + 1)
    BY <1>1
  <2>2. /\ t \in Seq(S)
        /\ Len(t) = IF pos <= pos + Len(s) - 1 THEN pos + Len(s) - 1 - pos + 1 ELSE 0
        /\ \A i \in 1 .. pos + Len(s) - 1 - pos + 1 : t[i] = buf[pos + i - 1]
    BY <1>1, <1>2, <2>1, SubSeqProperties
  <2> QED BY <1>1, <2>2
<1> HIDE DEF t
<1>4. \A i \in 1 .. Len(t) : t[i] = s[i]
  BY <1>3 DEF Holds
<1>5. t = s
  BY <1>3, <1>4, SeqEqual
<1> QED BY <1>5 DEF t

(* The groups of a number: few enough for a word, the last one without continuation bit,
   their payloads the digits of the number in reverse order. *)
LEMMA VarintShape ==
  ASSUME NEW n \in Nat
  PROVE  /\ encode_varint(n) \in Seq(Nat) /\ Len(encode_varint(n)) \in Nat \ {0}
         /\ n < Word => Len(encode_varint(n)) <= MaxGroups
         /\ encode_varint(n)[Len(encode_varint(n))] < Base
         /\ \A i \in 1 .. Len(encode_varint(n)) - 1 : encode_varint(n)[i] >= Base
         /\ Positional(Base, [i \in 1 .. Len(encode_varint(n)) |->
                                encode_varint(n)[Len(encode_varint(n)) + 1 - i] % Base]) = n
<1> DEFINE E == Expansion(Base)[n]
           r == Reverse(E)
           g == encode_varint(n)
<1>1. Base \in Nat \ {0, 1} /\ Word \in Nat /\ MaxGroups \in Nat \ {0} /\ n \in Nat
  BY EncodingsAssumption
<1>2. /\ E \in Seq(0 .. Base - 1) /\ Len(E) \in Nat \ {0} /\ Positional(Base, E) = n
      /\ n < Word => Len(E) <= MaxGroups
  <2>1. E \in Seq(0 .. Base - 1) /\ Len(E) >= 1 /\ Positional(Base, E) = n
    BY <1>1, ExpansionProperties
  <2>2. n < Word => Len(E) <= MaxGroups
    <3>1. n < Word => n \in 0 .. Word - 1
      BY <1>1
    <3> QED BY <3>1, EncodingsAssumption
  <2> QED BY <2>1, <2>2, <1>1, LenProperties
<1>3. \A i \in 1 .. Len(E) : E[i] \in 0 .. Base - 1
  BY <1>2, ElementOfSeq
<1>4. g = [i \in DOMAIN r |-> IF i < Len(r) THEN Base + r[i] ELSE r[i]]
  BY <1>1 DEF encode_varint, Unsigned
<1> HIDE DEF E, g
<1>5. Len(r) = Len(E) /\ DOMAIN r = 1 .. Len(E) /\ \A i \in 1 .. Len(E) : r[i] = E[Len(E) + 1 - i]
  BY <1>2 DEF Reverse
<1> HIDE DEF r
<1>6. ASSUME NEW i \in 1 .. Len(E)
      PROVE  /\ Len(E) + 1 - i \in 1 .. Len(E)
             /\ g[i] = IF i < Len(E) THEN Base + E[Len(E) + 1 - i] ELSE E[Len(E) + 1 - i]
  BY <1>2, <1>4, <1>5
<1>7. g \in Seq(Nat) /\ Len(g) = Len(E)
  <2>1. ASSUME NEW i \in 1 .. Len(E) PROVE g[i] \in Nat
    <3>1. E[Len(E) + 1 - i] \in 0 .. Base - 1
      BY <1>3, <1>6
    <3> QED BY <3>1, <1>1, <1>6
  <2>2. DOMAIN g = 1 .. Len(E) /\ Len(E) \in Nat
    BY <1>2, <1>4, <1>5
  <2>3. g = [i \in 1 .. Len(E) |-> g[i]]
    BY <1>4, <1>5
  <2> QED BY <2>1, <2>2, <2>3
<1>8. g[Len(g)] < Base /\ \A i \in 1 .. Len(g) - 1 : g[i] >= Base
  <2>1. g[Len(E)] = E[1] /\ E[1] \in 0 .. Base - 1
    <3>1. Len(E) \in 1 .. Len(E) /\ 1 \in 1 .. Len(E) /\ Len(E) + 1 - Len(E) = 1 /\ ~(Len(E) < Len(E))
      BY <1>2
    <3> QED BY <3>1, <1>3, <1>6
  <2>2. ASSUME NEW i \in 1 .. Len(E) - 1 PROVE g[i] >= Base
    <3>1. i \in 1 .. Len(E) /\ i < Len(E)
      BY <1>2
    <3>2. g[i] = Base + E[Len(E) + 1 - i] /\ E[Len(E) + 1 - i] \in 0 .. Base - 1
      BY <3>1, <1>3, <1>6
    <3> QED BY <3>2, <1>1
  <2> QED BY <1>1, <1>7, <2>1, <2>2
<1>9. [i \in 1 .. Len(g) |-> g[Len(g) + 1 - i] % Base] = E
  <2> DEFINE h == [i \in 1 .. Len(E) |-> g[Len(E) + 1 - i] % Base]
  <2>1. ASSUME NEW i \in 1 .. Len(E) PROVE g[Len(E) + 1 - i] % Base = E[i]
    <3> DEFINE d == E[i]
    <3>1. Len(E) + 1 - i \in 1 .. Len(E) /\ Len(E) + 1 - (Len(E) + 1 - i) = i
      BY <1>2
    <3>2. d \in 0 .. Base - 1 /\ g[Len(E) + 1 - i] \in {d, Base + d}
      BY <1>3, <1>6, <3>1
    <3> HIDE DEF d
    <3>3. d % Base = d /\ (Base + d) % Base = d
      <4>1. d \in Nat /\ d < Base
        BY <1>1, <3>2
      <4> QED BY <1>1, <4>1, Remainder
    <3>4. g[Len(E) + 1 - i] % Base = d
      BY <3>2, <3>3
    <3> QED BY <3>4 DEF d
  <2>2. h = E
    BY <1>2, <2>1
  <2> QED BY <2>2, <1>7
<1> QED BY <1>2, <1>7, <1>8, <1>9 DEF g

(* decode_varint reads what encode_varint wrote. *)
LEMMA VarintRead ==
  ASSUME NEW n \in 0 .. Word - 1, NEW S, NEW buf \in Seq(S), NEW pos \in Nat \ {0},
         Holds(buf, pos, encode_varint(n))
  PROVE  decode_varint(buf, pos) = [value |-> n, next |-> pos + Len(encode_varint(n))]
<1> DEFINE g        == encode_varint(n)
           reach    == pos .. pos + MaxGroups - 1
           Final(i) == /\ i <= Len(buf) /\ buf[i] < Base
                       /\ \A j \in pos .. i - 1 : buf[j] >= Base
           end      == pos + Len(g) - 1
           final    == CHOOSE i \in reach : Final(i)
           Read(k)  == [value |-> Positional(Base, [i \in 1 .. k + 1 - pos |-> buf[k + 1 - i] % Base]),
                        next |-> k + 1]
<1>1. /\ Len(g) \in 1 .. MaxGroups /\ g[Len(g)] < Base
      /\ \A i \in 1 .. Len(g) - 1 : g[i] >= Base
      /\ Positional(Base, [i \in 1 .. Len(g) |-> g[Len(g) + 1 - i] % Base]) = n
      /\ \A i \in 1 .. Len(g) : g[i] \in Nat
  <2>1. n \in Nat /\ n < Word /\ MaxGroups \in Nat
    BY EncodingsAssumption
  <2> QED BY <2>1, VarintShape, ElementOfSeq
<1>2. Base \in Nat /\ MaxGroups \in Nat \ {0} /\ Len(buf) \in Nat
  BY EncodingsAssumption, LenProperties
<1>3. /\ pos + Len(g) <= Len(buf) + 1
      /\ \A i \in 1 .. Len(g) : buf[pos + i - 1] = g[i]
  BY DEF Holds
<1>4. decode_varint(buf, pos) = IF \E i \in reach : Final(i) THEN Read(final) ELSE Raised
  BY DEF decode_varint
<1> HIDE DEF g
<1>5. ASSUME NEW j \in pos .. end PROVE buf[j] = g[j + 1 - pos] /\ j + 1 - pos \in 1 .. Len(g)
  <2>1. j + 1 - pos \in 1 .. Len(g) /\ pos + (j + 1 - pos) - 1 = j
    BY <1>1, <1>2
  <2> QED BY <1>3, <2>1
<1>6. end \in reach /\ Final(end)
  <2>1. end \in pos .. end /\ end \in reach /\ end <= Len(buf) /\ end + 1 - pos = Len(g)
    BY <1>1, <1>2, <1>3
  <2>2. ASSUME NEW j \in pos .. end - 1 PROVE buf[j] >= Base
    <3>1. j \in pos .. end /\ j + 1 - pos \in 1 .. Len(g) - 1
      BY <1>1, <1>2
    <3> QED BY <3>1, <1>1, <1>5
  <2> QED BY <2>1, <2>2, <1>1, <1>5
<1>7. ASSUME NEW i \in reach, Final(i) PROVE i = end
  <2>1. CASE i < end
    <3>1. i \in pos .. end - 1
      BY <2>1, <1>1, <1>2
    <3>2. buf[i] >= Base /\ buf[i] < Base
      BY <3>1, <1>6, <1>7
    <3>3. buf[i] \in Nat
      <4>1. i \in pos .. end
        BY <3>1, <1>1
      <4> QED BY <4>1, <1>1, <1>5
    <3> QED BY <3>2, <3>3, <1>2
  <2>2. CASE i > end
    <3>1. end \in pos .. i - 1
      BY <2>2, <1>1, <1>2
    <3>2. buf[end] >= Base /\ buf[end] < Base /\ buf[end] \in Nat
      <4>1. buf[end] >= Base
        BY <3>1, <1>7
      <4>2. buf[end] < Base
        BY <1>6
      <4>3. end \in pos .. end
        BY <1>1, <1>2
      <4>4. buf[end] \in Nat
        BY <4>3, <1>1, <1>5
      <4> QED BY <4>1, <4>2, <4>4
    <3> QED BY <3>2, <1>2
  <2>3. i \in Int /\ end \in Int
    BY <1>1, <1>2
  <2> HIDE DEF end
  <2> QED BY <2>1, <2>2, <2>3
<1> HIDE DEF Final
<1>8. final = end
  <2> HIDE DEF reach, end
  <2> QED BY <1>6, <1>7
<1>9. decode_varint(buf, pos) = Read(end)
  <2> HIDE DEF Read, reach, end, final
  <2> QED BY <1>4, <1>6, <1>8
<1>10. [i \in 1 .. end + 1 - pos |-> buf[end + 1 - i] % Base]
        = [i \in 1 .. Len(g) |-> g[Len(g) + 1 - i] % Base]
  <2>1. end + 1 - pos = Len(g)
    BY <1>1
  <2>2. ASSUME NEW i \in 1 .. Len(g) PROVE buf[end + 1 - i] = g[Len(g) + 1 - i]
    <3>1. end + 1 - i \in pos .. end /\ end + 1 - i + 1 - pos = Len(g) + 1 - i
      BY <1>1
    <3> QED BY <3>1, <1>5
  <2> HIDE DEF end
  <2> QED BY <2>1, <2>2
<1>11. end + 1 = pos + Len(g)
  BY <1>1
<1>12. Read(end) = [value |-> n, next |-> pos + Len(g)]
  <2> HIDE DEF end
  <2> QED BY <1>1, <1>10, <1>11
<1> QED BY <1>9, <1>12 DEF g

----------------------------------------------------------------------------
(* Messages: the loops that write and read them, step by step. *)

(* The loop of Message, field by field. *)
LEMMA MessageSteps ==
  ASSUME NEW s, Len(s) \in Nat
  PROVE  \E f : /\ Message(s) = f[Len(s)] /\ f[0] = <<>>
                /\ \A i \in 1 .. Len(s) : f[i] = WithField(f[i - 1], s[i])
<1> DEFINE Step(f, i) == IF i = 0 THEN <<>> ELSE WithField(f[i - 1], s[i])
           Is(f, n)   == f = [i \in 0 .. n |-> Step(f, i)]
           Ns         == {n \in Nat : \E f : Is(f, n)}
<1>1. 0 \in Ns
  <2>1. Is([i \in 0 .. 0 |-> <<>>], 0)
    OBVIOUS
  <2> QED BY <2>1
<1>2. ASSUME NEW n \in Nat, n \in Ns PROVE n + 1 \in Ns
  <2>1. PICK f : Is(f, n)
    BY <1>2
  <2> DEFINE g == [i \in 0 .. n + 1 |-> Step(f, i)]
  <2>2. ASSUME NEW i \in 0 .. n + 1 PROVE Step(f, i) = Step(g, i)
    <3>1. CASE i = 0
      BY <3>1
    <3>2. CASE i # 0
      <4>1. i - 1 \in 0 .. n /\ i - 1 \in 0 .. n + 1
        BY <3>2
      <4>2. g[i - 1] = f[i - 1]
        <5> HIDE DEF Step
        <5> QED BY <4>1, <2>1
      <4> HIDE DEF g
      <4> QED BY <3>2, <4>2
    <3> QED BY <3>1, <3>2
  <2>3. Is(g, n + 1)
    <3> HIDE DEF Step
    <3> QED BY <2>2
  <2> HIDE DEF Is, g
  <2> QED BY <2>3
<1> HIDE DEF Ns
<1>3. Len(s) \in Ns
  BY <1>1, <1>2, NumberInduction
<1> DEFINE f == CHOOSE f : Is(f, Len(s))
<1>4. Is(f, Len(s))
  <2>1. \E g : Is(g, Len(s))
    BY <1>3 DEF Ns
  <2> HIDE DEF Is
  <2> QED BY <2>1
<1>5. Message(s) = f[Len(s)]
  BY Zenon DEF Message
<1> HIDE DEF f
<1>6. f[0] = <<>> /\ \A i \in 1 .. Len(s) : f[i] = Step(f, i)
  <2> HIDE DEF Step
  <2>1. \A i \in 0 .. Len(s) : f[i] = Step(f, i)
    BY <1>4
  <2> USE DEF Step
  <2> QED BY <2>1
<1> QED BY <1>5, <1>6

(* One more field is encoded behind the others. *)
LEMMA MessageAppend ==
  ASSUME NEW S, NEW s \in Seq(S), NEW d \in S
  PROVE  /\ Message(<<>>) = <<>>
         /\ Message(Append(s, d)) = WithField(Message(s), d)
<1>1. Message(<<>>) = <<>>
  <2>1. Len(<<>>) = 0
    OBVIOUS
  <2> QED BY <2>1, MessageSteps
<1> DEFINE t == Append(s, d)
<1>2. /\ Len(s) \in Nat /\ Len(t) = Len(s) + 1 /\ t[Len(s) + 1] = d
      /\ \A i \in 1 .. Len(s) : t[i] = s[i]
  BY AppendProperties, LenProperties
<1> HIDE DEF t
<1>3. PICK f : /\ Message(s) = f[Len(s)] /\ f[0] = <<>>
               /\ \A i \in 1 .. Len(s) : f[i] = WithField(f[i - 1], s[i])
  BY <1>2, MessageSteps
<1>4. Len(t) \in Nat
  BY <1>2
<1>5. PICK g : /\ Message(t) = g[Len(t)] /\ g[0] = <<>>
               /\ \A i \in 1 .. Len(t) : g[i] = WithField(g[i - 1], t[i])
  BY <1>4, MessageSteps
<1> DEFINE Ns == {n \in Nat : n <= Len(s) => g[n] = f[n]}
<1>6. 0 \in Ns
  BY <1>3, <1>5
<1>7. ASSUME NEW n \in Nat, n \in Ns PROVE n + 1 \in Ns
  <2> SUFFICES ASSUME n + 1 <= Len(s) PROVE g[n + 1] = f[n + 1]
    OBVIOUS
  <2>1. n + 1 \in 1 .. Len(s) /\ n + 1 \in 1 .. Len(t) /\ n + 1 - 1 = n /\ n <= Len(s)
    BY <1>2
  <2> QED BY <1>2, <1>3, <1>5, <1>7, <2>1
<1> HIDE DEF Ns
<1>8. Len(s) \in Ns
  BY <1>2, <1>6, <1>7, NumberInduction
<1>9. g[Len(s)] = f[Len(s)]
  BY <1>2, <1>8 DEF Ns
<1>10. Len(s) + 1 \in 1 .. Len(t) /\ Len(s) + 1 - 1 = Len(s)
  BY <1>2
<1>11. Message(t) = WithField(Message(s), d)
  BY <1>2, <1>3, <1>5, <1>9, <1>10
<1> QED BY <1>1, <1>11 DEF t

(* The loop of Taken, field by field. *)
LEMMA TakenSteps ==
  ASSUME NEW e, NEW s, Len(s) \in Nat
  PROVE  \E f : /\ Taken(e, s) = f[Len(s)] /\ f[0] = e
                /\ \A i \in 1 .. Len(s) : f[i] = TakeField(f[i - 1], s[i])
<1> DEFINE Step(f, i) == IF i = 0 THEN e ELSE TakeField(f[i - 1], s[i])
           Is(f, n)   == f = [i \in 0 .. n |-> Step(f, i)]
           Ns         == {n \in Nat : \E f : Is(f, n)}
<1>1. 0 \in Ns
  <2>1. Is([i \in 0 .. 0 |-> e], 0)
    OBVIOUS
  <2> QED BY <2>1
<1>2. ASSUME NEW n \in Nat, n \in Ns PROVE n + 1 \in Ns
  <2>1. PICK f : Is(f, n)
    BY <1>2
  <2> DEFINE g == [i \in 0 .. n + 1 |-> Step(f, i)]
  <2>2. ASSUME NEW i \in 0 .. n + 1 PROVE Step(f, i) = Step(g, i)
    <3>1. CASE i = 0
      BY <3>1
    <3>2. CASE i # 0
      <4>1. i - 1 \in 0 .. n /\ i - 1 \in 0 .. n + 1
        BY <3>2
      <4>2. g[i - 1] = f[i - 1]
        <5> HIDE DEF Step
        <5> QED BY <4>1, <2>1
      <4> HIDE DEF g
      <4> QED BY <3>2, <4>2
    <3> QED BY <3>1, <3>2
  <2>3. Is(g, n + 1)
    <3> HIDE DEF Step
    <3> QED BY <2>2
  <2> HIDE DEF Is, g
  <2> QED BY <2>3
<1> HIDE DEF Ns
<1>3. Len(s) \in Ns
  BY <1>1, <1>2, NumberInduction
<1> DEFINE f == CHOOSE f : Is(f, Len(s))
<1>4. Is(f, Len(s))
  <2>1. \E g : Is(g, Len(s))
    BY <1>3 DEF Ns
  <2> HIDE DEF Is
  <2> QED BY <2>1
<1>5. Taken(e, s) = f[Len(s)]
  BY Zenon DEF Taken
<1> HIDE DEF f
<1>6. f[0] = e /\ \A i \in 1 .. Len(s) : f[i] = Step(f, i)
  <2> HIDE DEF Step
  <2>1. \A i \in 0 .. Len(s) : f[i] = Step(f, i)
    BY <1>4
  <2> USE DEF Step
  <2> QED BY <2>1
<1> QED BY <1>5, <1>6

(* One more field is taken last. *)
LEMMA TakenAppend ==
  ASSUME NEW e, NEW S, NEW s \in Seq(S), NEW d \in S
  PROVE  /\ Taken(e, <<>>) = e
         /\ Taken(e, Append(s, d)) = TakeField(Taken(e, s), d)
<1>1. Taken(e, <<>>) = e
  <2>1. Len(<<>>) = 0
    OBVIOUS
  <2> QED BY <2>1, TakenSteps
<1> DEFINE t == Append(s, d)
<1>2. /\ Len(s) \in Nat /\ Len(t) = Len(s) + 1 /\ t[Len(s) + 1] = d
      /\ \A i \in 1 .. Len(s) : t[i] = s[i]
  BY AppendProperties, LenProperties
<1> HIDE DEF t
<1>3. PICK f : /\ Taken(e, s) = f[Len(s)] /\ f[0] = e
               /\ \A i \in 1 .. Len(s) : f[i] = TakeField(f[i - 1], s[i])
  BY <1>2, TakenSteps
<1>4. Len(t) \in Nat
  BY <1>2
<1>5. PICK g : /\ Taken(e, t) = g[Len(t)] /\ g[0] = e
               /\ \A i \in 1 .. Len(t) : g[i] = TakeField(g[i - 1], t[i])
  BY <1>4, TakenSteps
<1> DEFINE Ns == {n \in Nat : n <= Len(s) => g[n] = f[n]}
<1>6. 0 \in Ns
  BY <1>3, <1>5
<1>7. ASSUME NEW n \in Nat, n \in Ns PROVE n + 1 \in Ns
  <2> SUFFICES ASSUME n + 1 <= Len(s) PROVE g[n + 1] = f[n + 1]
    OBVIOUS
  <2>1. n + 1 \in 1 .. Len(s) /\ n + 1 \in 1 .. Len(t) /\ n + 1 - 1 = n /\ n <= Len(s)
    BY <1>2
  <2> QED BY <1>2, <1>3, <1>5, <1>7, <2>1
<1> HIDE DEF Ns
<1>8. Len(s) \in Ns
  BY <1>2, <1>6, <1>7, NumberInduction
<1>9. g[Len(s)] = f[Len(s)]
  BY <1>2, <1>8 DEF Ns
<1>10. Len(s) + 1 \in 1 .. Len(t) /\ Len(s) + 1 - 1 = Len(s)
  BY <1>2
<1>11. Taken(e, t) = TakeField(Taken(e, s), d)
  BY <1>2, <1>3, <1>5, <1>9, <1>10
<1> QED BY <1>1, <1>11 DEF t

(* The loop of AsDict, pair by pair. *)
LEMMA AsDictSteps ==
  ASSUME NEW s, Len(s) \in Nat
  PROVE  \E f : /\ AsDict(s) = f[Len(s)] /\ f[0] = <<>>
                /\ \A i \in 1 .. Len(s) : f[i] = WithPair(f[i - 1], s[i])
<1> DEFINE Step(f, i) == IF i = 0 THEN <<>> ELSE WithPair(f[i - 1], s[i])
           Is(f, n)   == f = [i \in 0 .. n |-> Step(f, i)]
           Ns         == {n \in Nat : \E f : Is(f, n)}
<1>1. 0 \in Ns
  <2>1. Is([i \in 0 .. 0 |-> <<>>], 0)
    OBVIOUS
  <2> QED BY <2>1
<1>2. ASSUME NEW n \in Nat, n \in Ns PROVE n + 1 \in Ns
  <2>1. PICK f : Is(f, n)
    BY <1>2
  <2> DEFINE g == [i \in 0 .. n + 1 |-> Step(f, i)]
  <2>2. ASSUME NEW i \in 0 .. n + 1 PROVE Step(f, i) = Step(g, i)
    <3>1. CASE i = 0
      BY <3>1
    <3>2. CASE i # 0
      <4>1. i - 1 \in 0 .. n /\ i - 1 \in 0 .. n + 1
        BY <3>2
      <4>2. g[i - 1] = f[i - 1]
        <5> HIDE DEF Step
        <5> QED BY <4>1, <2>1
      <4> HIDE DEF g
      <4> QED BY <3>2, <4>2
    <3> QED BY <3>1, <3>2
  <2>3. Is(g, n + 1)
    <3> HIDE DEF Step
    <3> QED BY <2>2
  <2> HIDE DEF Is, g
  <2> QED BY <2>3
<1> HIDE DEF Ns
<1>3. Len(s) \in Ns
  BY <1>1, <1>2, NumberInduction
<1> DEFINE f == CHOOSE f : Is(f, Len(s))
<1>4. Is(f, Len(s))
  <2>1. \E g : Is(g, Len(s))
    BY <1>3 DEF Ns
  <2> HIDE DEF Is
  <2> QED BY <2>1
<1>5. AsDict(s) = f[Len(s)]
  BY Zenon DEF AsDict
<1> HIDE DEF f
<1>6. f[0] = <<>> /\ \A i \in 1 .. Len(s) : f[i] = Step(f, i)
  <2> HIDE DEF Step
  <2>1. \A i \in 0 .. Len(s) : f[i] = Step(f, i)
    BY <1>4
  <2> USE DEF Step
  <2> QED BY <2>1
<1> QED BY <1>5, <1>6

(* One more pair is put into the dict last. *)
LEMMA AsDictAppend ==
  ASSUME NEW S, NEW s \in Seq(S), NEW d \in S
  PROVE  /\ AsDict(<<>>) = <<>>
         /\ AsDict(Append(s, d)) = WithPair(AsDict(s), d)
<1>1. AsDict(<<>>) = <<>>
  <2>1. Len(<<>>) = 0
    OBVIOUS
  <2> QED BY <2>1, AsDictSteps
<1> DEFINE t == Append(s, d)
<1>2. /\ Len(s) \in Nat /\ Len(t) = Len(s) + 1 /\ t[Len(s) + 1] = d
      /\ \A i \in 1 .. Len(s) : t[i] = s[i]
  BY AppendProperties, LenProperties
<1> HIDE DEF t
<1>3. PICK f : /\ AsDict(s) = f[Len(s)] /\ f[0] = <<>>
               /\ \A i \in 1 .. Len(s) : f[i] = WithPair(f[i - 1], s[i])
  BY <1>2, AsDictSteps
<1>4. Len(t) \in Nat
  BY <1>2
<1>5. PICK g : /\ AsDict(t) = g[Len(t)] /\ g[0] = <<>>
               /\ \A i \in 1 .. Len(t) : g[i] = WithPair(g[i - 1], t[i])
  BY <1>4, AsDictSteps
<1> DEFINE Ns == {n \in Nat : n <= Len(s) => g[n] = f[n]}
<1>6. 0 \in Ns
  BY <1>3, <1>5
<1>7. ASSUME NEW n \in Nat, n \in Ns PROVE n + 1 \in Ns
  <2> SUFFICES ASSUME n + 1 <= Len(s) PROVE g[n + 1] = f[n + 1]
    OBVIOUS
  <2>1. n + 1 \in 1 .. Len(s) /\ n + 1 \in 1 .. Len(t) /\ n + 1 - 1 = n /\ n <= Len(s)
    BY <1>2
  <2> QED BY <1>2, <1>3, <1>5, <1>7, <2>1
<1> HIDE DEF Ns
<1>8. Len(s) \in Ns
  BY <1>2, <1>6, <1>7, NumberInduction
<1>9. g[Len(s)] = f[Len(s)]
  BY <1>2, <1>8 DEF Ns
<1>10. Len(s) + 1 \in 1 .. Len(t) /\ Len(s) + 1 - 1 = Len(s)
  BY <1>2
<1>11. AsDict(t) = WithPair(AsDict(s), d)
  BY <1>2, <1>3, <1>5, <1>9, <1>10
<1> QED BY <1>1, <1>11 DEF t

----------------------------------------------------------------------------
(* Fields. *)

(* What is read of a field: the unsigned number of its bits. *)
AsRead(f) == IF f.wire = VARINT THEN Varint(f.field, Unsigned(f.n)) ELSE f

(* The number of a field's bits. *)
LEMMA UnsignedNumber ==
  ASSUME NEW n \in Int
  PROVE  Unsigned(n) \in Nat /\ encode_varint(n) = encode_varint(Unsigned(n))
<1>1. Word \in Nat /\ Word >= 64
  BY EncodingsAssumption
<1>2. n % Word \in 0 .. Word - 1
  BY <1>1
<1>3. Unsigned(n) \in Nat
  BY <1>1, <1>2 DEF Unsigned
<1>4. Unsigned(Unsigned(n)) = Unsigned(n)
  BY <1>3 DEF Unsigned
<1> QED BY <1>3, <1>4 DEF encode_varint

(* A number that fits is one of the words. *)
LEMMA UnsignedFits ==
  ASSUME NEW n \in Int, -Word < n, n < Word
  PROVE  Unsigned(n) \in 0 .. Word - 1 /\ encode_varint(n) = encode_varint(Unsigned(n))
<1>1. Word \in Nat /\ Word >= 64
  BY EncodingsAssumption
<1>2. n % Word \in 0 .. Word - 1
  BY <1>1
<1> QED BY <1>1, <1>2, UnsignedNumber DEF Unsigned

(* The two kinds of fields. *)
LEMMA FieldKinds ==
  ASSUME NEW f, Fits(f)
  PROVE  /\ f.field \in Nat /\ f.wire \in {VARINT, LEN} /\ 8 * f.field + f.wire \in 0 .. Word - 1
         /\ f.wire = VARINT => /\ f = Varint(f.field, f.n) /\ f.n \in Int /\ -Word < f.n /\ f.n < Word
         /\ f.wire = LEN => /\ f = Delimited(f.field, f.payload) /\ f.payload \in Bytes
                            /\ Len(f.payload) \in 0 .. Word - 1
<1>1. f \in Field /\ Word \in Nat
  BY EncodingsAssumption DEF Fits
<1>2. CASE f \in [field : Nat, wire : {VARINT}, n : Int]
  BY <1>1, <1>2 DEF Fits, VARINT, LEN, Varint
<1>3. CASE f \in [field : Nat, wire : {LEN}, payload : Bytes]
  <2>1. Len(f.payload) \in Nat
    BY <1>3 DEF Bytes
  <2>2. Len(f.payload) < Word
    BY <1>3 DEF Fits, LEN
  <2>3. Len(f.payload) \in 0 .. Word - 1
    BY <1>1, <2>1, <2>2
  <2> QED BY <1>1, <1>3, <2>3 DEF Fits, VARINT, LEN, Delimited
<1> QED BY <1>1, <1>2, <1>3 DEF Field

(* Numbers are bytes. *)
LEMMA NumbersAreBytes == Seq(Nat) \subseteq Bytes
<1> SUFFICES ASSUME NEW s \in Seq(Nat) PROVE s \in Seq(Nat \cup Json)
  BY DEF Bytes
<1>1. Len(s) \in Nat /\ s = [i \in 1 .. Len(s) |-> s[i]] /\ \A i \in 1 .. Len(s) : s[i] \in Nat \cup Json
  BY LenProperties, ElementOfSeq
<1> QED BY <1>1

(* The two numbers of a field, and its payload. *)
LEMMA FieldParts ==
  ASSUME NEW f \in Field
  PROVE  /\ encode_varint(8 * f.field + f.wire) \in Bytes
         /\ Len(encode_varint(8 * f.field + f.wire)) \in Nat \ {0}
         /\ f.wire = VARINT => /\ encode_varint(Unsigned(f.n)) \in Bytes
                               /\ encode_field(f) = encode_varint(8 * f.field + f.wire)
                                                      \o encode_varint(Unsigned(f.n))
         /\ f.wire = LEN => /\ encode_varint(Len(f.payload)) \in Bytes /\ f.payload \in Bytes
                            /\ encode_field(f) = encode_varint(8 * f.field + f.wire)
                                 \o encode_varint(Len(f.payload)) \o f.payload
         /\ f.wire \in {VARINT, LEN}
<1>1. \A n \in Nat : encode_varint(n) \in Bytes /\ Len(encode_varint(n)) \in Nat \ {0}
  BY VarintShape, NumbersAreBytes
<1>2. /\ f.field \in Nat /\ f.wire \in {VARINT, LEN}
      /\ f.wire = VARINT => f.n \in Int
      /\ f.wire = LEN => f.payload \in Bytes /\ Len(f.payload) \in Nat
  BY LenProperties DEF Field, VARINT, LEN, Bytes
<1>3. 8 * f.field + f.wire \in Nat
  BY <1>2 DEF VARINT, LEN
<1>4. f.wire = VARINT => Unsigned(f.n) \in Nat /\ encode_varint(f.n) = encode_varint(Unsigned(f.n))
  BY <1>2, UnsignedNumber
<1>5. f.wire = VARINT => encode_field(f) = encode_varint(8 * f.field + f.wire) \o encode_varint(f.n)
  BY DEF encode_field, encode_uvarint, encode_key
<1>6. f.wire = LEN => encode_field(f) = encode_varint(8 * f.field + f.wire)
                                          \o encode_varint(Len(f.payload)) \o f.payload
  BY DEF encode_field, encode_len, encode_key, VARINT, LEN
<1> QED BY <1>1, <1>2, <1>3, <1>4, <1>5, <1>6

(* A field is some bytes, its payload among them. *)
LEMMA FieldBytes ==
  ASSUME NEW f \in Field
  PROVE  /\ encode_field(f) \in Bytes /\ Len(encode_field(f)) \in Nat \ {0}
         /\ f.wire = LEN => Len(f.payload) \in Nat /\ Len(f.payload) < Len(encode_field(f))
<1> DEFINE t == encode_varint(8 * f.field + f.wire)
<1>1. t \in Bytes /\ Len(t) \in Nat \ {0}
  BY FieldParts
<1>2. CASE f.wire = VARINT
  <2> DEFINE a == encode_varint(Unsigned(f.n))
  <2>1. a \in Bytes /\ encode_field(f) = t \o a
    BY <1>2, FieldParts
  <2>2. VARINT # LEN
    BY DEF VARINT, LEN
  <2> HIDE DEF t, a
  <2> QED BY <1>1, <1>2, <2>1, <2>2, ConcatProperties, LenProperties DEF Bytes
<1>3. CASE f.wire = LEN
  <2> DEFINE a == encode_varint(Len(f.payload))
             p == f.payload
  <2>1. a \in Bytes /\ p \in Bytes /\ encode_field(f) = t \o a \o p
    BY <1>3, FieldParts
  <2> HIDE DEF t, a
  <2>2. t \o a \in Bytes /\ Len(t \o a) \in Nat \ {0}
    BY <1>1, <2>1, ConcatProperties, LenProperties DEF Bytes
  <2>3. Len(p) \in Nat /\ t \o a \o p \in Bytes /\ Len(t \o a \o p) = Len(t \o a) + Len(p)
    BY <2>1, <2>2, ConcatProperties, LenProperties DEF Bytes
  <2>4. Len(p) < Len(t \o a \o p) /\ Len(t \o a \o p) \in Nat \ {0}
    <3> DEFINE x == Len(t \o a)
               y == Len(p)
    <3>1. x \in Nat \ {0} /\ y \in Nat /\ Len(t \o a \o p) = x + y
      BY <2>2, <2>3
    <3> HIDE DEF x, y
    <3>2. y < x + y /\ x + y \in Nat \ {0}
      BY <3>1
    <3> QED BY <3>1, <3>2 DEF y
  <2> QED BY <2>1, <2>3, <2>4
<1> QED BY <1>2, <1>3, FieldParts

(* One turn of the decoding loop, once its two numbers are read. *)
LEMMA TurnCases ==
  ASSUME NEW buf, NEW done, NEW tag, NEW arg, tag # Raised, arg # Raised,
         decode_varint(buf, done.pos) = tag, decode_varint(buf, tag.next) = arg,
         NEW field, field = tag.value \div 8, NEW wire, wire = tag.value % 8,
         NEW end, end = arg.next + arg.value
  PROVE  /\ wire = VARINT =>
              NextField(buf, done) = [pos |-> arg.next,
                fields |-> Append(done.fields, Varint(field, arg.value))]
         /\ wire = LEN /\ end <= Len(buf) + 1 =>
              NextField(buf, done) = [pos |-> end,
                fields |-> Append(done.fields, Delimited(field, SubSeq(buf, arg.next, end - 1)))]
<1>1. NextField(buf, done) =
        CASE wire = VARINT ->
               [pos |-> arg.next, fields |-> Append(done.fields, Varint(field, arg.value))]
          [] wire = LEN /\ end <= Len(buf) + 1 ->
               [pos |-> end,
                fields |-> Append(done.fields, Delimited(field, SubSeq(buf, arg.next, end - 1)))]
          [] OTHER -> Raised
  BY Zenon DEF NextField, WithTagged
<1>2. VARINT # LEN
  BY DEF VARINT, LEN
<1> QED BY <1>1, <1>2

(* One turn of the decoding loop reads the field that stands there. *)
LEMMA FieldIsRead ==
  ASSUME NEW f, Fits(f), NEW buf \in Bytes, NEW pos \in Nat \ {0}, Holds(buf, pos, encode_field(f)),
         NEW fs
  PROVE  NextField(buf, [pos |-> pos, fields |-> fs])
           = [pos |-> pos + Len(encode_field(f)), fields |-> Append(fs, AsRead(f))]
<1> DEFINE S    == Nat \cup Json
           k    == 8 * f.field + f.wire
           t    == encode_varint(k)
           done == [pos |-> pos, fields |-> fs]
           next == pos + Len(t)
           tag  == [value |-> k, next |-> next]
<1>1. Bytes = Seq(S) /\ Len(buf) \in Nat
  BY LenProperties DEF Bytes
<1>2. /\ f.field \in Nat /\ f.wire \in {VARINT, LEN} /\ k \in 0 .. Word - 1
      /\ t \in Seq(S) /\ Len(t) \in Nat
  BY <1>1, FieldKinds, FieldParts, LenProperties DEF Fits
<1>3. k \div 8 = f.field /\ k % 8 = f.wire
  BY <1>2 DEF VARINT, LEN
<1>4. next \in Nat \ {0}
  BY <1>2
<1>5. \A v, n \in Nat : [value |-> v, next |-> n] # Raised
  BY RaisedAssumption
<1>6. tag # Raised /\ tag.value = k /\ tag.next = next /\ done.pos = pos /\ done.fields = fs
  BY <1>2, <1>4, <1>5
<1>7. CASE f.wire = VARINT
  <2> DEFINE n == Unsigned(f.n)
             a == encode_varint(n)
             arg == [value |-> n, next |-> next + Len(a)]
  <2>1. n \in 0 .. Word - 1 /\ a \in Seq(S) /\ encode_field(f) = t \o a
    BY <1>1, <1>7, FieldParts, FieldKinds, UnsignedFits DEF Fits
  <2> HIDE DEF t, a, n, k
  <2>2. Holds(buf, pos, t) /\ Holds(buf, next, a)
    BY <1>1, <1>2, <2>1, HoldsParts
  <2>3. decode_varint(buf, pos) = tag
    BY <1>1, <1>2, <2>2, VarintRead DEF t
  <2>4. decode_varint(buf, next) = arg
    BY <1>1, <1>4, <2>1, <2>2, VarintRead DEF a
  <2>5. Len(a) \in Nat /\ next + Len(a) = pos + Len(encode_field(f))
    <3>1. Len(a) \in Nat /\ Len(t \o a) = Len(t) + Len(a)
      BY <1>2, <2>1, ConcatProperties, LenProperties
    <3> QED BY <1>2, <2>1, <3>1
  <2>6. arg # Raised /\ arg.value = n /\ arg.next = pos + Len(encode_field(f))
    BY <1>4, <1>5, <2>1, <2>5
  <2> HIDE DEF tag, arg, done, next
  <2>7. NextField(buf, done) = [pos |-> arg.next, fields |-> Append(fs, Varint(f.field, arg.value))]
    <3>1. tag.value \div 8 = f.field /\ tag.value % 8 = VARINT
      BY <1>3, <1>6, <1>7
    <3> QED BY <1>6, <2>3, <2>4, <2>6, <3>1, TurnCases
  <2>8. AsRead(f) = Varint(f.field, n)
    BY <1>7 DEF AsRead, n
  <2> QED BY <2>6, <2>7, <2>8 DEF done
<1>8. CASE f.wire = LEN
  <2> DEFINE p == f.payload
             n == Len(p)
             a == encode_varint(n)
             arg == [value |-> n, next |-> next + Len(a)]
  <2>1. /\ n \in 0 .. Word - 1 /\ a \in Seq(S) /\ p \in Seq(S) /\ encode_field(f) = t \o a \o p
        /\ f = Delimited(f.field, p)
    BY <1>1, <1>8, FieldParts, FieldKinds DEF Fits
  <2>2. n = Len(p)
    OBVIOUS
  <2> HIDE DEF t, a, n, k, p
  <2>3. t \o a \in Seq(S) /\ Len(t \o a) = Len(t) + Len(a) /\ Len(a) \in Nat
    BY <1>2, <2>1, ConcatProperties, LenProperties
  <2>4. Holds(buf, pos, t) /\ Holds(buf, next, a) /\ Holds(buf, next + Len(a), p)
    <3>1. Holds(buf, pos, t \o a) /\ Holds(buf, pos + Len(t \o a), p)
      BY <1>1, <2>1, <2>3, HoldsParts
    <3>2. Holds(buf, pos, t) /\ Holds(buf, next, a)
      BY <1>1, <1>2, <2>1, <3>1, HoldsParts
    <3>3. pos + Len(t \o a) = next + Len(a)
      BY <1>2, <2>3
    <3> QED BY <3>1, <3>2, <3>3
  <2>5. decode_varint(buf, pos) = tag
    BY <1>1, <1>2, <2>4, VarintRead DEF t
  <2>6. decode_varint(buf, next) = arg
    BY <1>1, <1>4, <2>1, <2>4, VarintRead DEF a
  <2>7. next + Len(a) + n = pos + Len(encode_field(f))
    <3>1. Len(t \o a \o p) = Len(t) + Len(a) + n
      BY <2>1, <2>2, <2>3, ConcatProperties
    <3> QED BY <1>2, <2>1, <2>3, <3>1
  <2>8. /\ arg # Raised /\ arg.value = n /\ arg.next = next + Len(a)
        /\ arg.next + arg.value = pos + Len(encode_field(f))
    BY <1>4, <1>5, <2>1, <2>3, <2>7
  <2> DEFINE end == pos + Len(encode_field(f))
  <2>9. end <= Len(buf) + 1
    BY DEF Holds
  <2>10. SubSeq(buf, next + Len(a), next + Len(a) + n - 1) = p
    <3>1. next + Len(a) \in Nat \ {0}
      BY <1>4, <2>3
    <3> QED BY <1>1, <2>1, <2>2, <2>4, <3>1, HeldPart
  <2>11. arg.next + arg.value = end /\ next + Len(a) + n = end
    BY <2>7, <2>8
  <2> HIDE DEF tag, arg, done, next, end
  <2>12. SubSeq(buf, arg.next, end - 1) = p
    BY <1>4, <2>1, <2>3, <2>8, <2>10, <2>11
  <2>13. NextField(buf, done) = [pos |-> end, fields |-> Append(fs, Delimited(f.field, p))]
    <3>1. tag.value \div 8 = f.field /\ tag.value % 8 = LEN
      BY <1>3, <1>6, <1>8
    <3>2. NextField(buf, done) = [pos |-> end,
            fields |-> Append(done.fields, Delimited(f.field, SubSeq(buf, arg.next, end - 1)))]
      BY <1>6, <2>5, <2>6, <2>8, <2>9, <2>11, <3>1, TurnCases
    <3> QED BY <1>6, <2>12, <3>2
  <2>14. AsRead(f) = Delimited(f.field, p)
    BY <1>8, <2>1 DEF AsRead, VARINT, LEN
  <2> QED BY <2>13, <2>14 DEF done, end
<1> QED BY <1>2, <1>7, <1>8

(* The fields that can be encoded and read. *)
Fitting == {f \in Field : Fits(f)}

(* A message is some bytes, at least one for each field. *)
LEMMA MessageBytes ==
  ASSUME NEW fs \in Seq(Field)
  PROVE  Message(fs) \in Bytes /\ Len(Message(fs)) \in Nat /\ Len(fs) <= Len(Message(fs))
<1> DEFINE Good(s) == Message(s) \in Bytes /\ Len(Message(s)) \in Nat /\ Len(s) <= Len(Message(s))
           T == {s \in Seq(Field) : Good(s)}
<1>1. <<>> \in T
  <2>1. Message(<<>>) = <<>>
    BY EmptySeq, MessageSteps
  <2>2. <<>> \in Seq(Field) /\ <<>> \in Bytes /\ Len(<<>>) = 0
    BY EmptySeq DEF Bytes
  <2> QED BY <2>1, <2>2
<1>2. ASSUME NEW s \in Seq(Field), NEW d \in Field, s \in T PROVE Append(s, d) \in T
  <2>1. Message(Append(s, d)) = Message(s) \o encode_field(d)
    BY MessageAppend DEF WithField
  <2>2. encode_field(d) \in Bytes /\ Len(encode_field(d)) \in Nat \ {0}
    BY FieldBytes
  <2>3. /\ Message(s) \o encode_field(d) \in Bytes
        /\ Len(Message(s) \o encode_field(d)) = Len(Message(s)) + Len(encode_field(d))
    BY <1>2, <2>2, ConcatProperties DEF Bytes
  <2>4. Append(s, d) \in Seq(Field) /\ Len(Append(s, d)) = Len(s) + 1 /\ Len(s) \in Nat
    BY AppendProperties, LenProperties
  <2>5. Good(Append(s, d))
    BY <1>2, <2>1, <2>2, <2>3, <2>4
  <2> QED BY <2>4, <2>5
<1> HIDE DEF T
<1>3. Seq(Field) \subseteq T
  BY <1>1, <1>2, SequenceInduction
<1> QED BY <1>3 DEF T

(* The message of a concatenation. *)
LEMMA MessageConcat ==
  ASSUME NEW s \in Seq(Field), NEW t \in Seq(Field)
  PROVE  Message(s \o t) = Message(s) \o Message(t)
<1> DEFINE T == {u \in Seq(Field) : Message(s \o u) = Message(s) \o Message(u)}
<1>1. <<>> \in T
  <2>1. Message(<<>>) = <<>> /\ Message(s) \in Seq(Nat \cup Json) /\ <<>> \in Seq(Field)
    BY EmptySeq, MessageSteps, MessageBytes DEF Bytes
  <2>2. s \o <<>> = s /\ Message(s) \o <<>> = Message(s)
    BY <2>1, ConcatEmptySeq
  <2> QED BY <2>1, <2>2
<1>2. ASSUME NEW u \in Seq(Field), NEW d \in Field, u \in T PROVE Append(u, d) \in T
  <2>1. s \o Append(u, d) = Append(s \o u, d) /\ s \o u \in Seq(Field)
    BY AppendRight, ConcatProperties
  <2>2. /\ Message(Append(s \o u, d)) = Message(s \o u) \o encode_field(d)
        /\ Message(Append(u, d)) = Message(u) \o encode_field(d)
    BY <2>1, MessageAppend DEF WithField
  <2>3. /\ Message(s) \in Bytes /\ Message(u) \in Bytes /\ encode_field(d) \in Bytes
    BY MessageBytes, FieldBytes
  <2>4. Message(s) \o (Message(u) \o encode_field(d)) = Message(s) \o Message(u) \o encode_field(d)
    BY <2>3, ConcatAssociative DEF Bytes
  <2>5. Append(u, d) \in Seq(Field)
    BY AppendProperties
  <2> QED BY <1>2, <2>1, <2>2, <2>4, <2>5
<1> HIDE DEF T
<1>3. Seq(Field) \subseteq T
  BY <1>1, <1>2, SequenceInduction
<1> QED BY <1>3 DEF T

(* The fields that fit are fields. *)
LEMMA FittingFields == Seq(Fitting) \subseteq Seq(Field)
<1> SUFFICES ASSUME NEW s \in Seq(Fitting) PROVE s \in Seq(Field)
  OBVIOUS
<1>1. Len(s) \in Nat /\ s = [i \in 1 .. Len(s) |-> s[i]] /\ \A i \in 1 .. Len(s) : s[i] \in Field
  BY LenProperties, ElementOfSeq DEF Fitting
<1> QED BY <1>1

(* A field that was read is a field. *)
LEMMA ReadIsField ==
  ASSUME NEW f \in Fitting
  PROVE  AsRead(f) \in Field
<1>1. Fits(f) /\ f \in Field
  BY DEF Fitting
<1>2. f.wire = VARINT => Unsigned(f.n) \in Int
  BY <1>1, FieldKinds, UnsignedFits, EncodingsAssumption
<1>3. f.wire = VARINT => Varint(f.field, Unsigned(f.n)) \in Field
  BY <1>1, <1>2, FieldKinds DEF Field, Varint
<1> QED BY <1>1, <1>3 DEF AsRead

(* Where the fields of a message stand. *)
LEMMA FieldPlaces ==
  ASSUME NEW fs \in Seq(Fitting)
  PROVE  \E p \in [0 .. Len(fs) -> Nat] :
           /\ p[0] = 1 /\ p[Len(fs)] = Len(Message(fs)) + 1
           /\ \A i \in 1 .. Len(fs) : /\ Holds(Message(fs), p[i - 1], encode_field(fs[i]))
                                      /\ p[i] = p[i - 1] + Len(encode_field(fs[i]))
                                      /\ p[i - 1] \in 1 .. Len(Message(fs))
<1> DEFINE buf == Message(fs)
           n   == Len(fs)
           S   == Nat \cup Json
<1>1. n \in Nat /\ buf \in Seq(S) /\ Len(buf) \in Nat /\ Bytes = Seq(S)
      /\ \A i \in 1 .. n : fs[i] \in Fitting
  BY MessageBytes, FittingFields, LenProperties, ElementOfSeq DEF Bytes
<1>2. PICK f : /\ buf = f[n] /\ f[0] = <<>>
               /\ \A i \in 1 .. n : f[i] = WithField(f[i - 1], fs[i])
  BY <1>1, MessageSteps
<1> HIDE DEF n, buf
<1>3. ASSUME NEW i \in 1 .. n
      PROVE  f[i] = f[i - 1] \o encode_field(fs[i]) /\ encode_field(fs[i]) \in Seq(S)
             /\ Len(encode_field(fs[i])) \in Nat \ {0}
  <2>1. fs[i] \in Field
    BY <1>1 DEF Fitting
  <2>2. encode_field(fs[i]) \in Seq(S) /\ Len(encode_field(fs[i])) \in Nat \ {0}
    BY <2>1, <1>1, FieldBytes
  <2> QED BY <1>2, <2>2 DEF WithField
<1>4. \A i \in 0 .. n : f[i] \in Seq(S)
  <2> DEFINE Ns == {i \in Nat : i <= n => f[i] \in Seq(S)}
  <2>1. 0 \in Ns
    BY <1>2, EmptySeq
  <2>2. ASSUME NEW i \in Nat, i \in Ns PROVE i + 1 \in Ns
    <3> SUFFICES ASSUME i + 1 <= n PROVE f[i + 1] \in Seq(S)
      OBVIOUS
    <3>1. i + 1 \in 1 .. n /\ i + 1 - 1 = i /\ i <= n
      BY <1>1
    <3>2. f[i + 1] = f[i] \o encode_field(fs[i + 1]) /\ encode_field(fs[i + 1]) \in Seq(S)
      <4> DEFINE j == i + 1
      <4>1. f[j] = f[j - 1] \o encode_field(fs[j]) /\ encode_field(fs[j]) \in Seq(S)
        BY <1>3, <3>1
      <4>2. f[j - 1] = f[i]
        BY <3>1
      <4> QED BY <4>1, <4>2
    <3> QED BY <2>2, <3>1, <3>2, ConcatProperties
  <2> HIDE DEF Ns
  <2>3. Nat \subseteq Ns
    BY <2>1, <2>2, NumberInduction
  <2> QED BY <2>3, <1>1 DEF Ns
<1>5. \A i \in 0 .. n : Holds(buf, 1, f[i])
  <2> DEFINE Ns == {k \in Nat : k <= n => Holds(buf, 1, f[n - k])}
  <2>1. 0 \in Ns
    <3>1. n - 0 = n
      BY <1>1
    <3>2. Holds(buf, 1, buf)
      BY <1>1 DEF Holds
    <3> QED BY <3>1, <3>2, <1>2
  <2>2. ASSUME NEW k \in Nat, k \in Ns PROVE k + 1 \in Ns
    <3> SUFFICES ASSUME k + 1 <= n PROVE Holds(buf, 1, f[n - (k + 1)])
      OBVIOUS
    <3>1. n - k \in 1 .. n /\ n - k - 1 = n - (k + 1) /\ n - (k + 1) \in 0 .. n
      BY <1>1
    <3>2. /\ f[n - k] = f[n - (k + 1)] \o encode_field(fs[n - k])
          /\ encode_field(fs[n - k]) \in Seq(S) /\ f[n - (k + 1)] \in Seq(S)
      BY <1>3, <1>4, <3>1
    <3>3. Holds(buf, 1, f[n - k])
      <4>1. k <= n => Holds(buf, 1, f[n - k])
        BY <2>2
      <4>2. k <= n
        BY <1>1
      <4> QED BY <4>1, <4>2
    <3> QED BY <1>1, <3>2, <3>3, HoldsParts
  <2> HIDE DEF Ns
  <2>3. Nat \subseteq Ns
    BY <2>1, <2>2, NumberInduction
  <2> SUFFICES ASSUME NEW i \in 0 .. n PROVE Holds(buf, 1, f[i])
    OBVIOUS
  <2>4. n - i \in Nat /\ n - i <= n /\ n - (n - i) = i
    BY <1>1
  <2> QED BY <2>3, <2>4 DEF Ns
<1> DEFINE p == [i \in 0 .. n |-> 1 + Len(f[i])]
<1>6. p \in [0 .. n -> Nat]
  BY <1>4, LenProperties
<1>7. p[0] = 1 /\ p[n] = Len(buf) + 1
  <2>1. 0 \in 0 .. n /\ n \in 0 .. n
    BY <1>1
  <2> QED BY <1>1, <1>2, <2>1, EmptySeq
<1>8. ASSUME NEW i \in 1 .. n
      PROVE  /\ Holds(buf, p[i - 1], encode_field(fs[i]))
             /\ p[i] = p[i - 1] + Len(encode_field(fs[i]))
             /\ p[i - 1] \in 1 .. Len(buf)
  <2>1. i - 1 \in 0 .. n /\ i \in 0 .. n
    BY <1>1
  <2> DEFINE h == f[i - 1]
             e == encode_field(fs[i])
  <2>2. h \in Seq(S) /\ e \in Seq(S) /\ f[i] = h \o e /\ Len(e) \in Nat \ {0} /\ Len(h) \in Nat
    BY <1>3, <1>4, <2>1, LenProperties
  <2>3. p[i - 1] = 1 + Len(h) /\ p[i] = 1 + Len(f[i])
    BY <2>1
  <2> HIDE DEF h, e, p
  <2>4. Holds(buf, 1, h \o e)
    BY <1>5, <2>1, <2>2
  <2>5. Holds(buf, 1 + Len(h), e)
    BY <1>1, <2>2, <2>4, HoldsParts
  <2>6. Len(h \o e) = Len(h) + Len(e)
    BY <2>2, ConcatProperties
  <2>7. Len(h) + Len(e) <= Len(buf)
    BY <1>1, <2>2, <2>4, <2>6 DEF Holds
  <2> QED BY <1>1, <2>2, <2>3, <2>5, <2>6, <2>7 DEF e
<1> HIDE DEF p
<1> QED BY <1>6, <1>7, <1>8 DEF n, buf

----------------------------------------------------------------------------
(* What the decoding loop finds in a message. *)

(* The loop of Fields, turn by turn. *)
LEMMA FieldsSteps ==
  ASSUME NEW s, Len(s) \in Nat
  PROVE  \E f : /\ Fields(s) = (IF f[Len(s)] = Raised THEN Raised ELSE f[Len(s)].fields)
                /\ f[0] = [pos |-> 1, fields |-> <<>>]
                /\ \A i \in 1 .. Len(s) : f[i] = Advanced(s, f[i - 1])
<1> DEFINE Step(f, i) == IF i = 0 THEN [pos |-> 1, fields |-> <<>>] ELSE Advanced(s, f[i - 1])
           Is(f, n)   == f = [i \in 0 .. n |-> Step(f, i)]
           Ns         == {n \in Nat : \E f : Is(f, n)}
<1>1. 0 \in Ns
  <2>1. Is([i \in 0 .. 0 |-> [pos |-> 1, fields |-> <<>>]], 0)
    OBVIOUS
  <2> QED BY <2>1
<1>2. ASSUME NEW n \in Nat, n \in Ns PROVE n + 1 \in Ns
  <2>1. PICK f : Is(f, n)
    BY <1>2
  <2> DEFINE g == [i \in 0 .. n + 1 |-> Step(f, i)]
  <2>2. ASSUME NEW i \in 0 .. n + 1 PROVE Step(f, i) = Step(g, i)
    <3>1. CASE i = 0
      BY <3>1
    <3>2. CASE i # 0
      <4>1. i - 1 \in 0 .. n /\ i - 1 \in 0 .. n + 1
        BY <3>2
      <4>2. g[i - 1] = f[i - 1]
        <5> HIDE DEF Step
        <5> QED BY <4>1, <2>1
      <4> HIDE DEF g
      <4> QED BY <3>2, <4>2
    <3> QED BY <3>1, <3>2
  <2>3. Is(g, n + 1)
    <3> HIDE DEF Step
    <3> QED BY <2>2
  <2> HIDE DEF Is, g
  <2> QED BY <2>3
<1> HIDE DEF Ns
<1>3. Len(s) \in Ns
  BY <1>1, <1>2, NumberInduction
<1> DEFINE f == CHOOSE f : Is(f, Len(s))
<1>4. Is(f, Len(s))
  <2>1. \E g : Is(g, Len(s))
    BY <1>3 DEF Ns
  <2> HIDE DEF Is
  <2> QED BY <2>1
<1>5. Fields(s) = (IF f[Len(s)] = Raised THEN Raised ELSE f[Len(s)].fields)
  BY Zenon DEF Fields, AllOf
<1> HIDE DEF f
<1>6. f[0] = [pos |-> 1, fields |-> <<>>] /\ \A i \in 1 .. Len(s) : f[i] = Step(f, i)
  <2> HIDE DEF Step
  <2>1. \A i \in 0 .. Len(s) : f[i] = Step(f, i)
    BY <1>4
  <2> USE DEF Step
  <2> QED BY <2>1
<1> QED BY <1>5, <1>6


(* What is read of the first fields of a message. *)
Read(fs, n) == [j \in 1 .. n |-> AsRead(fs[j])]

(* One field more. *)
LEMMA ReadStep ==
  ASSUME NEW fs \in Seq(Fitting), NEW i \in 1 .. Len(fs)
  PROVE  /\ Append(Read(fs, i - 1), AsRead(fs[i])) = Read(fs, i)
         /\ Read(fs, i - 1) \in Seq(Field) /\ Read(fs, i) \in Seq(Field)
<1>1. Len(fs) \in Nat /\ i - 1 \in Nat /\ i \in Nat /\ i - 1 + 1 = i
      /\ \A j \in 1 .. Len(fs) : AsRead(fs[j]) \in Field
  BY LenProperties, ElementOfSeq, ReadIsField
<1>2. ASSUME NEW n \in Nat, n <= Len(fs)
      PROVE  Read(fs, n) \in Seq(Field) /\ Len(Read(fs, n)) = n
             /\ \A j \in 1 .. n : Read(fs, n)[j] = AsRead(fs[j])
  BY <1>1, <1>2 DEF Read
<1>3. /\ Read(fs, i - 1) \in Seq(Field) /\ Len(Read(fs, i - 1)) = i - 1
      /\ \A j \in 1 .. i - 1 : Read(fs, i - 1)[j] = AsRead(fs[j])
  <2>1. i - 1 <= Len(fs)
    BY <1>1
  <2> QED BY <1>1, <1>2, <2>1
<1>4. /\ Read(fs, i) \in Seq(Field) /\ Len(Read(fs, i)) = i
      /\ \A j \in 1 .. i : Read(fs, i)[j] = AsRead(fs[j])
  BY <1>1, <1>2
<1> DEFINE s == Read(fs, i - 1)
           u == Read(fs, i)
           e == AsRead(fs[i])
<1>5. e \in Field /\ Len(u) = Len(s) + 1 /\ u[Len(s) + 1] = e /\ \A j \in 1 .. Len(s) : u[j] = s[j]
  BY <1>1, <1>3, <1>4
<1>6. s \in Seq(Field) /\ u \in Seq(Field)
  BY <1>3, <1>4
<1> HIDE DEF s, u, e
<1>7. u = Append(s, e)
  BY <1>5, <1>6, CompleteFrame
<1> QED BY <1>6, <1>7 DEF s, u, e

(* The fields fs stand in buf one behind the other, from p[i - 1] to p[i]. *)
Laid(fs, buf, p) ==
  /\ p \in [0 .. Len(fs) -> Nat] /\ p[0] = 1
  /\ \A i \in 1 .. Len(fs) : /\ Holds(buf, p[i - 1], encode_field(fs[i]))
                            /\ p[i] = p[i - 1] + Len(encode_field(fs[i]))
                            /\ p[i - 1] \in 1 .. Len(buf)

(* The turns of the decoding loop. *)
Turns(f, buf) ==
  /\ f[0] = [pos |-> 1, fields |-> <<>>]
  /\ \A i \in 1 .. Len(buf) : f[i] = Advanced(buf, f[i - 1])

(* After as many turns the fields that stand in front have been read. *)
LEMMA TurnsRead ==
  ASSUME NEW fs \in Seq(Fitting), NEW buf \in Bytes, NEW p, NEW f,
         Laid(fs, buf, p), Turns(f, buf), Len(fs) <= Len(buf)
  PROVE  \A i \in 0 .. Len(fs) :
           /\ Read(fs, i) \in Seq(Field)
           /\ f[i] = [pos |-> p[i], fields |-> Read(fs, i)] /\ f[i] # Raised
<1> DEFINE n == Len(fs)
           m == Len(buf)
           At(i) == [pos |-> p[i], fields |-> Read(fs, i)]
<1>1. n \in Nat /\ m \in Nat /\ n <= m
  BY LenProperties DEF Bytes
<1>2. /\ p \in [0 .. n -> Nat] /\ p[0] = 1
      /\ \A i \in 1 .. n : /\ Holds(buf, p[i - 1], encode_field(fs[i]))
                           /\ p[i] = p[i - 1] + Len(encode_field(fs[i]))
                           /\ p[i - 1] \in 1 .. m
  BY DEF Laid
<1>3. f[0] = [pos |-> 1, fields |-> <<>>] /\ \A i \in 1 .. m : f[i] = Advanced(buf, f[i - 1])
  BY DEF Turns
<1> HIDE DEF n, m
<1>4. \A i \in 0 .. n : Read(fs, i) \in Seq(Field) /\ At(i) # Raised
  <2> SUFFICES ASSUME NEW i \in 0 .. n PROVE Read(fs, i) \in Seq(Field) /\ At(i) # Raised
    OBVIOUS
  <2>1. Read(fs, i) \in Seq(Field)
    <3>1. CASE i = 0
      BY <3>1, EmptySeq DEF Read
    <3>2. CASE i # 0
      <4>1. i \in 1 .. n
        BY <1>1, <3>2
      <4> QED BY <4>1, ReadStep DEF n
    <3> QED BY <3>1, <3>2
  <2>2. At(i) \in [pos : Nat, fields : Seq(Field)]
    BY <1>2, <2>1
  <2> QED BY <2>1, <2>2, RaisedAssumption
<1>5. \A i \in Nat : i <= n => f[i] = At(i)
  <2> DEFINE Ns == {i \in Nat : i <= n => f[i] = At(i)}
  <2>1. 0 \in Ns
    <3>1. Read(fs, 0) = <<>>
      BY DEF Read
    <3> QED BY <1>2, <1>3, <3>1
  <2>2. ASSUME NEW i \in Nat, i \in Ns PROVE i + 1 \in Ns
    <3> SUFFICES ASSUME i + 1 <= n PROVE f[i + 1] = At(i + 1)
      OBVIOUS
    <3> DEFINE j == i + 1
    <3>1. j \in 1 .. n /\ j \in 1 .. m /\ j - 1 = i /\ i \in 0 .. n /\ j \in 0 .. n /\ i <= n
      BY <1>1
    <3>2. f[i] = At(i)
      BY <2>2, <3>1
    <3> HIDE DEF At
    <3>3. f[j] = Advanced(buf, At(i))
      BY <1>3, <3>1, <3>2
    <3>4. /\ Holds(buf, p[i], encode_field(fs[j])) /\ p[j] = p[i] + Len(encode_field(fs[j]))
          /\ p[i] \in 1 .. m
      BY <1>2, <3>1
    <3>5. At(i) # Raised /\ ~(At(i).pos > m) /\ At(i) = [pos |-> p[i], fields |-> Read(fs, i)]
      <4>1. At(i).pos = p[i]
        BY DEF At
      <4>2. ~(p[i] > m)
        BY <1>1, <3>4
      <4> QED BY <1>4, <3>1, <4>1, <4>2 DEF At
    <3>6. Advanced(buf, At(i)) = NextField(buf, [pos |-> p[i], fields |-> Read(fs, i)])
      BY <3>5 DEF Advanced, m
    <3>7. Fits(fs[j])
      BY <3>1, ElementOfSeq DEF Fitting, n
    <3>8. p[i] \in Nat \ {0}
      BY <1>1, <3>4
    <3>9. NextField(buf, [pos |-> p[i], fields |-> Read(fs, i)])
             = [pos |-> p[j], fields |-> Append(Read(fs, i), AsRead(fs[j]))]
      BY <1>1, <3>4, <3>7, <3>8, FieldIsRead
    <3>10. Append(Read(fs, i), AsRead(fs[j])) = Read(fs, j)
      BY <3>1, ReadStep DEF n
    <3> QED BY <3>3, <3>6, <3>9, <3>10 DEF At
  <2> HIDE DEF Ns
  <2>3. Nat \subseteq Ns
    BY <2>1, <2>2, NumberInduction
  <2> QED BY <2>3 DEF Ns
<1>6. \A i \in 0 .. n : i \in Nat /\ i <= n
  BY <1>1
<1> QED BY <1>4, <1>5, <1>6 DEF n

(* A message is read field by field: none is lost, added or moved. *)
LEMMA FieldsRead ==
  ASSUME NEW fs \in Seq(Fitting)
  PROVE  Fields(Message(fs)) = Read(fs, Len(fs)) /\ Fields(Message(fs)) # Raised
<1> DEFINE buf == Message(fs)
           n   == Len(fs)
           m   == Len(buf)
<1>1. n \in Nat /\ m \in Nat /\ n <= m /\ buf \in Bytes
  BY MessageBytes, FittingFields, LenProperties
<1>2. PICK p \in [0 .. n -> Nat] : p[n] = m + 1 /\ Laid(fs, buf, p)
  BY FieldPlaces DEF Laid
<1>3. PICK f : /\ Fields(buf) = (IF f[m] = Raised THEN Raised ELSE f[m].fields)
               /\ Turns(f, buf)
  BY <1>1, FieldsSteps DEF Turns
<1>4. \A i \in 1 .. m : f[i] = Advanced(buf, f[i - 1])
  BY <1>3 DEF Turns
<1> DEFINE At(i) == [pos |-> p[i], fields |-> Read(fs, i)]
<1>5. Read(fs, n) \in Seq(Field) /\ f[n] = At(n) /\ At(n) # Raised
  <2>1. n \in 0 .. n
    BY <1>1
  <2> HIDE DEF buf
  <2> QED BY <1>1, <1>2, <1>3, <2>1, TurnsRead
<1> HIDE DEF buf, n, m
<1>6. At(n) # Raised /\ At(n).pos = m + 1 /\ At(n).fields = Read(fs, n)
  BY <1>2, <1>5
<1>7. \A i \in Nat : n + i <= m => f[n + i] = At(n)
  <2> DEFINE Ns == {i \in Nat : n + i <= m => f[n + i] = At(n)}
  <2>1. 0 \in Ns
    <3>1. n + 0 = n
      BY <1>1
    <3> HIDE DEF At
    <3> QED BY <1>5, <3>1
  <2>2. ASSUME NEW i \in Nat, i \in Ns PROVE i + 1 \in Ns
    <3> HIDE DEF At
    <3> SUFFICES ASSUME n + (i + 1) <= m PROVE f[n + (i + 1)] = At(n)
      OBVIOUS
    <3> DEFINE j == n + (i + 1)
    <3>1. j \in 1 .. m /\ j - 1 = n + i /\ n + i <= m
      BY <1>1
    <3>2. f[n + i] = At(n)
      BY <2>2, <3>1
    <3>3. f[j] = Advanced(buf, f[j - 1])
      BY <1>4, <3>1
    <3>4. f[j] = Advanced(buf, At(n))
      BY <3>1, <3>2, <3>3
    <3>5. At(n).pos > Len(buf)
      BY <1>1, <1>6 DEF m
    <3> QED BY <3>4, <3>5 DEF Advanced
  <2> HIDE DEF Ns
  <2>3. Nat \subseteq Ns
    BY <2>1, <2>2, NumberInduction
  <2> QED BY <2>3 DEF Ns
<1>8. f[m] = At(n)
  <2>1. m - n \in Nat /\ n + (m - n) = m /\ m <= m
    BY <1>1
  <2> HIDE DEF At
  <2> QED BY <1>7, <2>1
<1>9. Fields(buf) = Read(fs, n)
  <2> HIDE DEF At
  <2> QED BY <1>3, <1>6, <1>8
<1>10. Read(fs, n) # Raised
  BY <1>5, RaisedAssumption
<1> QED BY <1>9, <1>10 DEF buf, n

(* The key of a field of a foreign wire type. *)
LEMMA ForeignKey ==
  ASSUME NEW u \in Foreign
  PROVE  LET k == 8 * u.field + u.wire
         IN  k \in 0 .. Word - 1 /\ k \in Nat /\ k \div 8 = u.field /\ k % 8 = u.wire
<1> DEFINE a == u.field
           b == u.wire
<1>1. a \in Nat /\ b \in (0 .. 7) \ {VARINT, LEN} /\ 8 * a + b < Word
  BY ForeignAssumption
<1>2. Word \in Nat
  BY EncodingsAssumption
<1> HIDE DEF a, b
<1>3. b \in Nat /\ b < 8 /\ 8 * a + b \in Nat
  BY <1>1
<1>4. (8 * a + b) \div 8 = a /\ (8 * a + b) % 8 = b
  BY <1>1, <1>3
<1>5. 8 * a + b \in 0 .. Word - 1
  BY <1>1, <1>2, <1>3
<1> QED BY <1>3, <1>4, <1>5 DEF a, b

(* A field of a foreign wire type raises where it stands. *)
LEMMA ForeignTurn ==
  ASSUME NEW u \in Foreign, NEW buf \in Bytes, NEW pos \in Nat \ {0}, NEW fs,
         Holds(buf, pos, encode_key(u.field, u.wire))
  PROVE  NextField(buf, [pos |-> pos, fields |-> fs]) = Raised
<1> DEFINE k    == 8 * u.field + u.wire
           t    == encode_varint(k)
           tag  == [value |-> k, next |-> pos + Len(t)]
           done == [pos |-> pos, fields |-> fs]
<1>1. u.field \in Nat /\ u.wire \in (0 .. 7) \ {VARINT, LEN} /\ k < Word /\ Word \in Nat
  BY ForeignAssumption, EncodingsAssumption
<1>2. k \in 0 .. Word - 1 /\ k \div 8 = u.field /\ k % 8 = u.wire
  BY ForeignKey
<1>3. Holds(buf, pos, t) /\ buf \in Seq(Nat \cup Json)
  BY DEF encode_key, Bytes
<1> HIDE DEF k
<1>4. decode_varint(buf, pos) = tag
  BY <1>2, <1>3, VarintRead
<1>5. tag.value \div 8 = u.field /\ tag.value % 8 = u.wire /\ done.pos = pos
  BY <1>2
<1> HIDE DEF tag, done
<1> DEFINE arg == decode_varint(buf, tag.next)
<1>6. NextField(buf, done) = IF tag = Raised \/ arg = Raised THEN Raised
                             ELSE WithTagged(buf, done.fields, tag, arg)
  BY <1>4, <1>5, Zenon DEF NextField
<1> HIDE DEF arg
<1>7. WithTagged(buf, done.fields, tag, arg) = Raised
  BY <1>1, <1>5 DEF WithTagged
<1> QED BY <1>6, <1>7 DEF done

(* With a field of a foreign wire type behind some of its fields, a message is not
   decoded, whatever follows. *)
LEMMA ForeignRaises ==
  ASSUME NEW fs \in Seq(Fitting), NEW u \in Foreign, NEW rest \in Bytes
  PROVE  Fields(Message(fs) \o encode_foreign(u) \o rest) = Raised
<1> DEFINE msg  == Message(fs)
           key  == encode_key(u.field, u.wire)
           tail == u.payload \o rest
           buf  == msg \o encode_foreign(u) \o rest
           n    == Len(fs)
           m    == Len(msg)
<1>1. n \in Nat /\ m \in Nat /\ n <= m /\ msg \in Bytes
  BY MessageBytes, FittingFields, LenProperties
<1>2. key \in Bytes /\ Len(key) \in Nat /\ Len(key) > 0
  <2> DEFINE k == 8 * u.field + u.wire
  <2>1. k \in Nat
    BY ForeignKey
  <2> HIDE DEF k
  <2>2. encode_varint(k) \in Seq(Nat) /\ Len(encode_varint(k)) \in Nat \ {0}
    BY <2>1, VarintShape
  <2>3. key = encode_varint(k)
    BY DEF encode_key, k
  <2> HIDE DEF key
  <2> QED BY <2>2, <2>3, NumbersAreBytes
<1>3. u.payload \in Bytes
  BY ForeignAssumption
<1> HIDE DEF msg, key
<1>4. /\ buf = msg \o (key \o tail) /\ tail \in Bytes /\ key \o tail \in Bytes /\ buf \in Bytes
  <2> DEFINE S == Nat \cup Json
  <2>1. msg \in Seq(S) /\ key \in Seq(S) /\ u.payload \in Seq(S) /\ rest \in Seq(S)
    BY <1>1, <1>2, <1>3 DEF Bytes
  <2> HIDE DEF S
  <2>2. /\ key \o u.payload \in Seq(S) /\ tail \in Seq(S) /\ key \o tail \in Seq(S)
        /\ msg \o (key \o tail) \in Seq(S)
    BY <2>1, ConcatProperties
  <2> DEFINE load == u.payload
  <2>3. buf = (msg \o (key \o load)) \o rest
    BY DEF encode_foreign, key
  <2>4. tail = load \o rest
    OBVIOUS
  <2> HIDE DEF load, buf, tail
  <2>5. load \in Seq(S) /\ key \o load \in Seq(S)
    BY <2>1, <2>2 DEF load
  <2>6. (msg \o (key \o load)) \o rest = msg \o ((key \o load) \o rest)
    <3> DEFINE front == key \o load
    <3>1. front \in Seq(S)
      BY <2>5
    <3> HIDE DEF front
    <3>2. (msg \o front) \o rest = msg \o (front \o rest)
      BY <2>1, <3>1, ConcatAssociative
    <3> QED BY <3>2 DEF front
  <2>7. (key \o load) \o rest = key \o (load \o rest)
    BY <2>1, <2>5, ConcatAssociative
  <2>8. buf = msg \o (key \o tail)
    BY <2>3, <2>4, <2>6, <2>7
  <2> QED BY <2>2, <2>8 DEF S, Bytes
<1> HIDE DEF buf, tail, n, m
<1>5. /\ Len(buf) \in Nat /\ Len(buf) >= m + Len(key) /\ \A i \in 1 .. m : buf[i] = msg[i]
      /\ \A i \in 1 .. Len(key) : buf[m + i] = key[i]
  <2> DEFINE S == Nat \cup Json
             back == key \o tail
  <2>1. msg \in Seq(S) /\ key \in Seq(S) /\ tail \in Seq(S) /\ back \in Seq(S)
    BY <1>1, <1>2, <1>4 DEF Bytes
  <2> HIDE DEF S
  <2>2. /\ Len(back) = Len(key) + Len(tail) /\ Len(tail) \in Nat
        /\ \A i \in 1 .. Len(key) + Len(tail) : back[i] = IF i <= Len(key) THEN key[i]
                                                          ELSE tail[i - Len(key)]
    BY <2>1, ConcatProperties, LenProperties
  <2> HIDE DEF back
  <2>3. /\ Len(buf) = m + Len(back)
        /\ \A i \in 1 .. m + Len(back) : buf[i] = IF i <= m THEN msg[i] ELSE back[i - m]
    BY <1>4, <2>1, ConcatProperties DEF back, m
  <2>4. Len(buf) = m + Len(key) + Len(tail)
    BY <1>1, <1>2, <2>2, <2>3
  <2>5. ASSUME NEW i \in 1 .. Len(key) PROVE buf[m + i] = key[i]
    <3>1. m + i \in 1 .. m + Len(back) /\ ~(m + i <= m) /\ m + i - m = i
      BY <1>1, <1>2, <2>2
    <3>2. i \in 1 .. Len(key) + Len(tail) /\ i <= Len(key)
      BY <1>2, <2>2
    <3>3. back[i] = key[i]
      BY <2>2, <3>2
    <3> DEFINE j == m + i
    <3>4. j \in 1 .. m + Len(back) /\ ~(j <= m) /\ j - m = i
      BY <1>1, <1>2, <2>2
    <3> HIDE DEF j
    <3>5. buf[j] = back[i]
      BY <2>3, <3>4
    <3> QED BY <3>3, <3>5 DEF j
  <2>6. \A i \in 1 .. m : buf[i] = msg[i]
    BY <1>1, <1>2, <2>2, <2>3
  <2> QED BY <1>1, <1>2, <2>2, <2>4, <2>5, <2>6
<1>6. PICK p \in [0 .. n -> Nat] : p[n] = m + 1 /\ Laid(fs, msg, p)
  BY FieldPlaces DEF Laid, msg, m, n
<1>7. Laid(fs, buf, p)
  <2> SUFFICES ASSUME NEW i \in 1 .. n
               PROVE  Holds(buf, p[i - 1], encode_field(fs[i])) /\ p[i - 1] \in 1 .. Len(buf)
    BY <1>6 DEF Laid, n
  <2> DEFINE x == encode_field(fs[i])
             q == p[i - 1]
  <2>1. Holds(msg, q, x) /\ q \in 1 .. m
    BY <1>6 DEF Laid, n, m
  <2>2. Len(x) \in Nat
    <3>1. fs[i] \in Field
      BY FittingFields, ElementOfSeq DEF n
    <3> QED BY <3>1, FieldBytes, LenProperties DEF Bytes
  <2> HIDE DEF x, q
  <2>3. q + Len(x) <= m + 1 /\ \A j \in 1 .. Len(x) : msg[q + j - 1] = x[j]
    BY <2>1 DEF Holds, m
  <2>4. q + Len(x) <= Len(buf) + 1 /\ q \in 1 .. Len(buf)
    BY <1>1, <1>2, <1>5, <2>1, <2>2, <2>3
  <2>5. ASSUME NEW j \in 1 .. Len(x) PROVE buf[q + j - 1] = x[j]
    <3>1. q + j - 1 \in 1 .. m
      BY <1>1, <2>1, <2>2, <2>3
    <3> QED BY <1>5, <2>3, <3>1
  <2> QED BY <2>4, <2>5 DEF Holds, x, q
<1>8. PICK f : /\ Fields(buf) = (IF f[Len(buf)] = Raised THEN Raised ELSE f[Len(buf)].fields)
               /\ Turns(f, buf)
  BY <1>5, FieldsSteps DEF Turns
<1>9. f[n] = [pos |-> m + 1, fields |-> Read(fs, n)] /\ f[n] # Raised
  <2>1. n \in 0 .. n /\ Len(fs) <= Len(buf)
    BY <1>1, <1>2, <1>5 DEF n
  <2> QED BY <1>4, <1>6, <1>7, <1>8, <2>1, TurnsRead DEF n
<1>10. n + 1 \in 1 .. Len(buf) /\ n + 1 - 1 = n /\ m + 1 \in Nat \ {0} /\ ~(m + 1 > Len(buf))
  BY <1>1, <1>2, <1>5
<1>11. Holds(buf, m + 1, key)
  <2>1. m + 1 + Len(key) <= Len(buf) + 1
    BY <1>1, <1>2, <1>5
  <2>2. \A i \in 1 .. Len(key) : m + 1 + i - 1 = m + i
    BY <1>1, <1>2
  <2> QED BY <1>5, <2>1, <2>2 DEF Holds
<1>12. f[n + 1] = Raised
  <2> DEFINE j == n + 1
  <2>1. f[n + 1] = Advanced(buf, f[n])
    <3>1. j \in 1 .. Len(buf) /\ j - 1 = n
      BY <1>1, <1>2, <1>5
    <3> HIDE DEF j
    <3>2. f[j] = Advanced(buf, f[j - 1])
      BY <1>8, <3>1 DEF Turns
    <3>3. f[j] = Advanced(buf, f[n])
      BY <3>1, <3>2
    <3> QED BY <3>3 DEF j
  <2>2. Advanced(buf, f[n]) = NextField(buf, [pos |-> m + 1, fields |-> Read(fs, n)])
    BY <1>9, <1>10 DEF Advanced
  <2> QED BY <1>4, <1>10, <1>11, <2>1, <2>2, ForeignTurn DEF key
<1>13. \A i \in Nat : n + 1 + i <= Len(buf) => f[n + 1 + i] = Raised
  <2> DEFINE Ns == {i \in Nat : n + 1 + i <= Len(buf) => f[n + 1 + i] = Raised}
  <2>1. 0 \in Ns
    <3>1. n + 1 + 0 = n + 1
      BY <1>1
    <3> QED BY <1>12, <3>1
  <2>2. ASSUME NEW i \in Nat, i \in Ns PROVE i + 1 \in Ns
    <3> SUFFICES ASSUME n + 1 + (i + 1) <= Len(buf) PROVE f[n + 1 + (i + 1)] = Raised
      OBVIOUS
    <3> DEFINE j == n + 1 + (i + 1)
    <3>1. j \in 1 .. Len(buf) /\ j - 1 = n + 1 + i /\ n + 1 + i <= Len(buf)
      BY <1>1, <1>5
    <3>2. f[n + 1 + i] = Raised
      BY <2>2, <3>1
    <3> HIDE DEF j
    <3>3. f[j] = Advanced(buf, f[j - 1])
      BY <1>8, <3>1 DEF Turns
    <3>4. f[j] = Raised
      BY <3>1, <3>2, <3>3 DEF Advanced
    <3> QED BY <3>4 DEF j
  <2> HIDE DEF Ns
  <2>3. Nat \subseteq Ns
    BY <2>1, <2>2, NumberInduction
  <2> QED BY <2>3 DEF Ns
<1>14. f[Len(buf)] = Raised
  <2>1. /\ Len(buf) - (n + 1) \in Nat /\ n + 1 + (Len(buf) - (n + 1)) = Len(buf)
        /\ Len(buf) <= Len(buf)
    BY <1>1, <1>5, <1>10
  <2> QED BY <1>13, <2>1
<1> QED BY <1>8, <1>14 DEF buf, msg

----------------------------------------------------------------------------
(* What a message adds to an entry, and decimal text. *)

(* What an entry becomes when the fields of a message are read into it. *)
Absorbed(e, fs) == Taken(e, Read(fs, Len(fs)))

(* One field more. *)
LEMMA AbsorbedAppend ==
  ASSUME NEW e, NEW s \in Seq(Fitting), NEW d \in Fitting
  PROVE  /\ Absorbed(e, <<>>) = e
         /\ Absorbed(e, Append(s, d)) = TakeField(Absorbed(e, s), AsRead(d))
<1> DEFINE t == Append(s, d)
           n == Len(s)
<1>1. /\ t \in Seq(Fitting) /\ Len(t) = n + 1 /\ t[n + 1] = d /\ n \in Nat
      /\ \A i \in 1 .. n : t[i] = s[i]
  BY AppendProperties, LenProperties
<1> HIDE DEF t, n
<1>2. n + 1 \in 1 .. Len(t) /\ n + 1 - 1 = n
  BY <1>1
<1>3. Append(Read(t, n), AsRead(t[n + 1])) = Read(t, n + 1) /\ Read(t, n) \in Seq(Field)
  <2> DEFINE i == n + 1
  <2>1. i \in 1 .. Len(t) /\ i - 1 = n
    BY <1>1, <1>2
  <2> HIDE DEF i
  <2>2. Append(Read(t, i - 1), AsRead(t[i])) = Read(t, i) /\ Read(t, i - 1) \in Seq(Field)
    BY <1>1, <2>1, ReadStep
  <2> QED BY <2>1, <2>2 DEF i
<1>4. Read(t, n) = Read(s, n)
  BY <1>1 DEF Read
<1>5. AsRead(d) \in Field
  BY ReadIsField
<1>6. Taken(e, Append(Read(s, n), AsRead(d))) = TakeField(Taken(e, Read(s, n)), AsRead(d))
  BY <1>3, <1>4, <1>5, TakenAppend
<1>7. Absorbed(e, t) = TakeField(Absorbed(e, s), AsRead(d))
  BY <1>1, <1>3, <1>4, <1>6 DEF Absorbed, n
<1>8. Absorbed(e, <<>>) = e
  <2>1. Read(<<>>, 0) = <<>> /\ Len(<<>>) = 0
    BY DEF Read
  <2>2. Taken(e, <<>>) = e
    BY <1>3, <1>5, TakenAppend
  <2> QED BY <2>1, <2>2 DEF Absorbed
<1> QED BY <1>7, <1>8 DEF t

(* One field alone. *)
LEMMA AbsorbedSingle ==
  ASSUME NEW e, NEW d \in Fitting
  PROVE  Absorbed(e, <<d>>) = TakeField(e, AsRead(d)) /\ <<d>> \in Seq(Fitting)
<1>1. <<>> \in Seq(Fitting) /\ Append(<<>>, d) = <<d>>
  BY EmptySeq
<1>2. Absorbed(e, <<>>) = e /\ Absorbed(e, Append(<<>>, d)) = TakeField(Absorbed(e, <<>>), AsRead(d))
  BY <1>1, AbsorbedAppend
<1> QED BY <1>1, <1>2

(* The fields of a part are read before those of the next one. *)
LEMMA AbsorbedConcat ==
  ASSUME NEW e, NEW s \in Seq(Fitting), NEW t \in Seq(Fitting)
  PROVE  Absorbed(e, s \o t) = Absorbed(Absorbed(e, s), t) /\ s \o t \in Seq(Fitting)
<1> DEFINE T == {u \in Seq(Fitting) : Absorbed(e, s \o u) = Absorbed(Absorbed(e, s), u)}
<1>1. <<>> \in T
  <2>1. <<>> \in Seq(Fitting) /\ s \o <<>> = s
    BY EmptySeq, ConcatEmptySeq
  <2>2. Absorbed(Absorbed(e, s), <<>>) = Absorbed(e, s)
    <3>1. Read(<<>>, 0) = <<>> /\ Len(<<>>) = 0 /\ <<>> \in Seq(Fitting)
      BY EmptySeq DEF Read
    <3>2. Taken(Absorbed(e, s), <<>>) = Absorbed(e, s)
      <4>1. Len(<<>>) = 0
        OBVIOUS
      <4> QED BY <4>1, TakenSteps
    <3> QED BY <3>1, <3>2 DEF Absorbed
  <2> QED BY <2>1, <2>2
<1>2. ASSUME NEW u \in Seq(Fitting), NEW d \in Fitting, u \in T PROVE Append(u, d) \in T
  <2>1. s \o Append(u, d) = Append(s \o u, d) /\ s \o u \in Seq(Fitting)
    BY AppendRight, ConcatProperties
  <2>2. Absorbed(e, Append(s \o u, d)) = TakeField(Absorbed(e, s \o u), AsRead(d))
    BY <2>1, AbsorbedAppend
  <2>3. Absorbed(Absorbed(e, s), Append(u, d)) = TakeField(Absorbed(Absorbed(e, s), u), AsRead(d))
    BY AbsorbedAppend
  <2>4. Append(u, d) \in Seq(Fitting)
    BY AppendProperties
  <2> QED BY <1>2, <2>1, <2>2, <2>3, <2>4
<1> HIDE DEF T
<1>3. Seq(Fitting) \subseteq T
  BY <1>1, <1>2, SequenceInduction
<1> QED BY <1>3, ConcatProperties DEF T

(* What a message is decoded to. *)
LEMMA MessageDecoded ==
  ASSUME NEW fs \in Seq(Fitting)
  PROVE  decode_wal_entry(Message(fs)) = Stamped(Absorbed(NoEntry, fs))
BY FieldsRead DEF decode_wal_entry, EntryOf, Absorbed

(* The digits of a number are bytes, and no minus sign is among them. *)
LEMMA DigitsProperties ==
  ASSUME NEW n \in Nat
  PROVE  /\ Digits(n) \in Seq(Nat) /\ Digits(n) # <<>> /\ Head(Digits(n)) # 45
         /\ ParseDigits(Digits(n)) = n
<1> DEFINE E == Expansion(10)[n]
           s == Digits(n)
<1>1. E \in Seq(0 .. 9) /\ Len(E) >= 1 /\ Positional(10, E) = n
  <2>1. 10 \in Nat \ {0, 1} /\ 10 - 1 = 9
    OBVIOUS
  <2> QED BY <2>1, ExpansionProperties
<1>2. /\ Len(E) \in Nat /\ DOMAIN E = 1 .. Len(E) /\ E = [i \in 1 .. Len(E) |-> E[i]]
      /\ \A i \in 1 .. Len(E) : E[i] \in 0 .. 9
  BY <1>1, LenProperties, ElementOfSeq
<1>3. s = [i \in DOMAIN E |-> 48 + E[i]]
  BY DEF Digits
<1> HIDE DEF E, s
<1>4. /\ s = [i \in 1 .. Len(E) |-> 48 + E[i]] /\ s \in Seq(Nat) /\ Len(s) = Len(E)
      /\ DOMAIN s = 1 .. Len(E)
  BY <1>2, <1>3
<1>5. [i \in DOMAIN s |-> s[i] - 48] = E
  <2>1. \A i \in 1 .. Len(E) : s[i] - 48 = E[i]
    BY <1>2, <1>4
  <2> QED BY <1>2, <1>4, <2>1
<1>6. ParseDigits(s) = n
  BY <1>1, <1>5 DEF ParseDigits
<1>7. s # <<>> /\ Head(s) # 45
  <2>1. 1 \in 1 .. Len(E)
    BY <1>1, <1>2
  <2>2. s[1] # 45 /\ Head(s) = s[1]
    BY <1>2, <1>4, <2>1
  <2> QED BY <1>1, <1>2, <1>4, <2>2
<1> QED BY <1>4, <1>6, <1>7 DEF s

(* A number is the number that its decimal text means. *)
LEMMA DecimalRead ==
  ASSUME NEW n \in Int
  PROVE  Decimal(n) \in Seq(Nat) /\ ParseDecimal(Decimal(n)) = n
<1>1. CASE n < 0
  <2> DEFINE d == Digits(-n)
  <2>1. -n \in Nat
    BY <1>1
  <2>2. d \in Seq(Nat) /\ ParseDigits(d) = -n
    BY <2>1, DigitsProperties
  <2>3. Decimal(n) = <<45>> \o d
    BY <1>1 DEF Decimal
  <2> HIDE DEF d
  <2>4. <<45>> \o d \in Seq(Nat) /\ Head(<<45>> \o d) = 45 /\ Tail(<<45>> \o d) = d
    <3>1. <<45>> \in Seq(Nat) /\ Len(<<45>>) = 1
      OBVIOUS
    <3> QED BY <2>2, <3>1
  <2>5. ParseDecimal(<<45>> \o d) = -(-n)
    BY <2>2, <2>4 DEF ParseDecimal
  <2> QED BY <2>3, <2>4, <2>5
<1>2. CASE ~(n < 0)
  <2>1. n \in Nat
    BY <1>2
  <2>2. Decimal(n) = Digits(n)
    BY <1>2 DEF Decimal
  <2> QED BY <2>1, <2>2, DigitsProperties DEF ParseDecimal
<1> QED BY <1>1, <1>2

----------------------------------------------------------------------------
(* Values, level by level. *)

(* One level more. *)
Grown(S, lists, keys) == S \cup Typed(lists, Seq(S)) \cup Typed({"dict"}, Dict(keys, S))

(* The levels grow out of the leaves. *)
LEMMA LevelSteps ==
  ASSUME NEW leaves, NEW lists, NEW keys
  PROVE  /\ Levels(leaves, lists, keys)[0] = leaves
         /\ \A i \in 1 .. MaxDepth :
              Levels(leaves, lists, keys)[i] = Grown(Levels(leaves, lists, keys)[i - 1], lists, keys)
<1> DEFINE Step(f, i) == IF i = 0 THEN leaves ELSE Grown(f[i - 1], lists, keys)
           Is(f, n)   == f = [i \in 0 .. n |-> Step(f, i)]
           Ns         == {n \in Nat : \E f : Is(f, n)}
<1>1. 0 \in Ns
  <2>1. Is([i \in 0 .. 0 |-> leaves], 0)
    OBVIOUS
  <2> QED BY <2>1
<1>2. ASSUME NEW n \in Nat, n \in Ns PROVE n + 1 \in Ns
  <2>1. PICK f : Is(f, n)
    BY <1>2
  <2> DEFINE g == [i \in 0 .. n + 1 |-> Step(f, i)]
  <2>2. ASSUME NEW i \in 0 .. n + 1 PROVE Step(f, i) = Step(g, i)
    <3>1. CASE i = 0
      BY <3>1
    <3>2. CASE i # 0
      <4>1. i - 1 \in 0 .. n /\ i - 1 \in 0 .. n + 1
        BY <3>2
      <4>2. g[i - 1] = f[i - 1]
        <5> HIDE DEF Step
        <5> QED BY <4>1, <2>1
      <4> HIDE DEF g
      <4> QED BY <3>2, <4>2
    <3> QED BY <3>1, <3>2
  <2>3. Is(g, n + 1)
    <3> HIDE DEF Step
    <3> QED BY <2>2
  <2> HIDE DEF Is, g
  <2> QED BY <2>3
<1> HIDE DEF Ns
<1>3. MaxDepth \in Ns
  BY <1>1, <1>2, NumberInduction, EncodingsAssumption
<1> DEFINE f == CHOOSE f : Is(f, MaxDepth)
<1>4. Is(f, MaxDepth)
  <2>1. \E g : Is(g, MaxDepth)
    BY <1>3 DEF Ns
  <2> HIDE DEF Is
  <2> QED BY <2>1
<1>5. Levels(leaves, lists, keys) = f
  BY Zenon DEF Levels, Grown
<1> HIDE DEF f
<1>6. f[0] = leaves /\ \A i \in 1 .. MaxDepth : f[i] = Step(f, i)
  <2> HIDE DEF Step
  <2>1. \A i \in 0 .. MaxDepth : f[i] = Step(f, i)
    BY <1>4
  <2> USE DEF Step
  <2> QED BY <2>1, EncodingsAssumption
<1> QED BY <1>5, <1>6

(* Sequences and dicts of some values are sequences and dicts of more. *)
LEMMA Widened ==
  ASSUME NEW S, NEW T, S \subseteq T, NEW J, NEW K, J \subseteq K
  PROVE  Seq(S) \subseteq Seq(T) /\ Dict(J, S) \subseteq Dict(K, T)
<1>1. ASSUME NEW A, NEW B, A \subseteq B PROVE Seq(A) \subseteq Seq(B)
  <2> SUFFICES ASSUME NEW s \in Seq(A) PROVE s \in Seq(B)
    OBVIOUS
  <2>1. Len(s) \in Nat /\ s = [i \in 1 .. Len(s) |-> s[i]] /\ \A i \in 1 .. Len(s) : s[i] \in B
    BY <1>1, LenProperties, ElementOfSeq
  <2> QED BY <2>1
<1>2. J \X S \subseteq K \X T
  OBVIOUS
<1>3. Seq(J \X S) \subseteq Seq(K \X T)
  BY <1>1, <1>2
<1> QED BY <1>1, <1>3 DEF Dict

(* Each level has those before it, and a level that grows out of more has more. *)
LEMMA LevelOrder ==
  ASSUME NEW leaves, NEW lists, NEW keys
  PROVE  \A i, j \in 0 .. MaxDepth : i <= j =>
           Levels(leaves, lists, keys)[i] \subseteq Levels(leaves, lists, keys)[j]
<1> DEFINE L == Levels(leaves, lists, keys)
<1>1. MaxDepth \in Nat /\ \A i \in 1 .. MaxDepth : L[i] = Grown(L[i - 1], lists, keys)
  BY LevelSteps, EncodingsAssumption
<1> HIDE DEF L
<1> SUFFICES ASSUME NEW i \in 0 .. MaxDepth
             PROVE  \A j \in 0 .. MaxDepth : i <= j => L[i] \subseteq L[j]
  BY DEF L
<1> DEFINE Ns == {k \in Nat : i + k <= MaxDepth => L[i] \subseteq L[i + k]}
<1>2. 0 \in Ns
  <2>1. i + 0 = i
    BY <1>1
  <2> QED BY <2>1
<1>3. ASSUME NEW k \in Nat, k \in Ns PROVE k + 1 \in Ns
  <2> SUFFICES ASSUME i + (k + 1) <= MaxDepth PROVE L[i] \subseteq L[i + (k + 1)]
    OBVIOUS
  <2> DEFINE j == i + (k + 1)
  <2>1. j \in 1 .. MaxDepth /\ j - 1 = i + k /\ i + k <= MaxDepth
    BY <1>1
  <2>2. L[j] = Grown(L[j - 1], lists, keys)
    BY <1>1, <2>1
  <2>3. L[j - 1] = L[i + k] /\ L[i] \subseteq L[i + k]
    BY <1>3, <2>1
  <2> QED BY <2>2, <2>3 DEF Grown
<1> HIDE DEF Ns
<1>4. Nat \subseteq Ns
  BY <1>2, <1>3, NumberInduction
<1> SUFFICES ASSUME NEW j \in 0 .. MaxDepth, i <= j PROVE L[i] \subseteq L[j]
  OBVIOUS
<1>5. j - i \in Nat /\ i + (j - i) = j /\ j <= MaxDepth
  BY <1>1
<1> QED BY <1>4, <1>5 DEF Ns

ValueLevel == Levels(Leaf, {"list", "tuple"}, Key)
JsonLevel  == Levels(Scalar, {"list"}, Name)

(* What the levels of Value and of Json are. *)
LEMMA BothLevels ==
  /\ MaxDepth \in Nat
  /\ Value = ValueLevel[MaxDepth] /\ ValueLevel[0] = Leaf
  /\ \A i \in 1 .. MaxDepth : ValueLevel[i] = Grown(ValueLevel[i - 1], {"list", "tuple"}, Key)
  /\ \A i \in 0 .. MaxDepth : ValueLevel[i] \subseteq Value
  /\ Json = JsonLevel[MaxDepth] /\ JsonLevel[0] = Scalar
  /\ \A i \in 1 .. MaxDepth : JsonLevel[i] = Grown(JsonLevel[i - 1], {"list"}, Name)
  /\ \A i, j \in 0 .. MaxDepth : i <= j => JsonLevel[i] \subseteq JsonLevel[j]
  /\ \A i \in 0 .. MaxDepth : JsonLevel[i] \subseteq Json
<1>1. MaxDepth \in Nat
  BY EncodingsAssumption
<1>2. \A i \in 0 .. MaxDepth : i <= MaxDepth /\ MaxDepth \in 0 .. MaxDepth
  BY <1>1
<1> QED BY <1>1, <1>2, LevelSteps, LevelOrder DEF ValueLevel, JsonLevel, Value, Json

(* A Json value is a value. *)
LEMMA JsonIsValue == Json \subseteq Value
<1> DEFINE Ns == {i \in Nat : i <= MaxDepth => JsonLevel[i] \subseteq ValueLevel[i]}
<1>1. 0 \in Ns
  BY BothLevels DEF Leaf
<1>2. ASSUME NEW k \in Nat, k \in Ns PROVE k + 1 \in Ns
  <2> SUFFICES ASSUME k + 1 <= MaxDepth PROVE JsonLevel[k + 1] \subseteq ValueLevel[k + 1]
    OBVIOUS
  <2> DEFINE j == k + 1
  <2>1. j \in 1 .. MaxDepth /\ j - 1 = k /\ k <= MaxDepth
    BY BothLevels
  <2>2. /\ JsonLevel[j] = Grown(JsonLevel[j - 1], {"list"}, Name)
        /\ ValueLevel[j] = Grown(ValueLevel[j - 1], {"list", "tuple"}, Key)
    BY <2>1, BothLevels
  <2> DEFINE S == JsonLevel[k]
             T == ValueLevel[k]
  <2>3. S \subseteq T
    BY <1>2, <2>1
  <2>4. Name \subseteq Key
    BY DEF Key
  <2> HIDE DEF S, T
  <2>5. Seq(S) \subseteq Seq(T) /\ Dict(Name, S) \subseteq Dict(Key, T)
    BY <2>3, <2>4, Widened
  <2>6. Grown(S, {"list"}, Name) \subseteq Grown(T, {"list", "tuple"}, Key)
    BY <2>3, <2>5 DEF Grown, Typed
  <2> QED BY <2>1, <2>2, <2>6 DEF S, T
<1> HIDE DEF Ns
<1>3. Nat \subseteq Ns
  BY <1>1, <1>2, NumberInduction
<1>4. MaxDepth \in Nat /\ MaxDepth <= MaxDepth
  BY BothLevels
<1> QED BY <1>3, <1>4, BothLevels DEF Ns

(* How deep a value is nested. *)
Depth == [x \in Value |-> CHOOSE n \in 0 .. MaxDepth :
            x \in ValueLevel[n] /\ \A m \in 0 .. MaxDepth : x \in ValueLevel[m] => n <= m]

(* That is one of the levels that it is in, and the lowest. *)
LEMMA DepthProperties ==
  ASSUME NEW x \in Value
  PROVE  /\ Depth[x] \in 0 .. MaxDepth /\ Depth[x] \in Nat /\ x \in ValueLevel[Depth[x]]
         /\ \A m \in 0 .. MaxDepth : x \in ValueLevel[m] => Depth[x] <= m
<1> DEFINE T == {n \in 0 .. MaxDepth : x \in ValueLevel[n]}
<1>1. MaxDepth \in T /\ T \subseteq Nat
  BY BothLevels
<1>2. \E n \in T : \A m \in T : n <= m
  BY <1>1, LeastNumber
<1>3. \E n \in 0 .. MaxDepth :
        x \in ValueLevel[n] /\ \A m \in 0 .. MaxDepth : x \in ValueLevel[m] => n <= m
  BY <1>2
<1> DEFINE P(n) == x \in ValueLevel[n] /\ \A m \in 0 .. MaxDepth : x \in ValueLevel[m] => n <= m
           d    == CHOOSE n \in 0 .. MaxDepth : P(n)
<1>4. Depth[x] = d
  BY DEF Depth
<1>5. d \in 0 .. MaxDepth /\ P(d)
  <2>1. \E n \in 0 .. MaxDepth : P(n)
    BY <1>3
  <2> HIDE DEF P
  <2> QED BY <2>1
<1>6. d \in Nat
  BY <1>5, BothLevels
<1> HIDE DEF d
<1> QED BY <1>4, <1>5, <1>6

(* The values that are nested less deep. *)
Shallow(x) == {y \in Value : Depth[y] < Depth[x]}

(* A value is a leaf, or a container of shallower ones. *)
LEMMA ValueParts ==
  ASSUME NEW x \in Value
  PROVE  \/ x \in Leaf /\ x.type \notin {"list", "tuple", "dict"}
         \/ x \in Typed({"list", "tuple"}, Seq(Shallow(x))) /\ Depth[x] \in 1 .. MaxDepth
         \/ x \in Typed({"dict"}, Dict(Key, Shallow(x))) /\ Depth[x] \in 1 .. MaxDepth
<1> DEFINE n == Depth[x]
<1>1. MaxDepth \in Nat /\ n \in 0 .. MaxDepth /\ x \in ValueLevel[n]
  BY DepthProperties, BothLevels
<1>2. ASSUME NEW y \in Leaf PROVE y.type \notin {"list", "tuple", "dict"}
  BY <1>2 DEF Leaf, Scalar, Nil, Typed
<1>3. CASE n = 0
  BY <1>1, <1>2, <1>3, BothLevels
<1>4. CASE n # 0
  <2>1. n \in 1 .. MaxDepth /\ n - 1 \in 0 .. MaxDepth /\ ~(n <= n - 1) /\ n \in Nat
    BY <1>1, <1>4
  <2>2. x \in Grown(ValueLevel[n - 1], {"list", "tuple"}, Key)
    BY <1>1, <2>1, BothLevels
  <2>3. x \notin ValueLevel[n - 1]
    BY <2>1, DepthProperties
  <2>4. ValueLevel[n - 1] \subseteq Shallow(x)
    <3> SUFFICES ASSUME NEW y \in ValueLevel[n - 1] PROVE y \in Value /\ Depth[y] < n
      BY DEF Shallow
    <3>1. y \in Value
      BY <2>1, BothLevels
    <3>2. Depth[y] \in Nat /\ Depth[y] <= n - 1
      BY <2>1, <3>1, DepthProperties
    <3> HIDE DEF n
    <3> QED BY <2>1, <3>1, <3>2
  <2> HIDE DEF n
  <2>5. /\ Seq(ValueLevel[n - 1]) \subseteq Seq(Shallow(x))
        /\ Dict(Key, ValueLevel[n - 1]) \subseteq Dict(Key, Shallow(x))
    BY <2>4, Widened
  <2>6. \/ x \in Typed({"list", "tuple"}, Seq(ValueLevel[n - 1]))
        \/ x \in Typed({"dict"}, Dict(Key, ValueLevel[n - 1]))
    BY <2>2, <2>3 DEF Grown
  <2>7. \/ x \in Typed({"list", "tuple"}, Seq(Shallow(x)))
        \/ x \in Typed({"dict"}, Dict(Key, Shallow(x)))
    BY <2>5, <2>6 DEF Typed
  <2> QED BY <2>1, <2>7 DEF n
<1> QED BY <1>3, <1>4

(* A pair is put into a dict. *)
LEMMA PairPut ==
  ASSUME NEW J, NEW S, NEW d \in Dict(J, S), NEW p \in J \X S
  PROVE  WithPair(d, p) \in Dict(J, S)
<1>1. /\ d \in Seq(J \X S) /\ Len(d) \in Nat /\ DOMAIN d = 1 .. Len(d)
      /\ \A i, j \in DOMAIN d : d[i][1] = d[j][1] => i = j
      /\ \A i \in DOMAIN d : d[i] \in J \X S
  BY LenProperties, ElementOfSeq DEF Dict
<1>2. CASE \E i \in DOMAIN d : d[i][1] = p[1]
  <2> DEFINE e == [i \in DOMAIN d |-> IF d[i][1] = p[1] THEN p ELSE d[i]]
  <2>1. WithPair(d, p) = e
    BY <1>2 DEF WithPair
  <2>2. \A i \in DOMAIN d : e[i][1] = d[i][1] /\ e[i] \in J \X S
    BY <1>1
  <2>3. e \in Seq(J \X S) /\ DOMAIN e = DOMAIN d
    BY <1>1, <2>2
  <2> HIDE DEF e
  <2> QED BY <1>1, <2>1, <2>2, <2>3 DEF Dict
<1>3. CASE ~\E i \in DOMAIN d : d[i][1] = p[1]
  <2> DEFINE e == Append(d, p)
  <2>1. WithPair(d, p) = e
    BY <1>3 DEF WithPair
  <2>2. /\ e \in Seq(J \X S) /\ Len(e) = Len(d) + 1 /\ e[Len(d) + 1] = p
        /\ \A i \in 1 .. Len(d) : e[i] = d[i]
    BY <1>1, AppendProperties
  <2> HIDE DEF e
  <2>3. DOMAIN e = 1 .. Len(d) + 1
    BY <2>2, LenProperties
  <2>4. ASSUME NEW i \in 1 .. Len(d) + 1, NEW j \in 1 .. Len(d) + 1, e[i][1] = e[j][1] PROVE i = j
    <3>1. CASE i \in 1 .. Len(d) /\ j \in 1 .. Len(d)
      BY <1>1, <2>2, <2>4, <3>1
    <3>2. CASE i \notin 1 .. Len(d) \/ j \notin 1 .. Len(d)
      <4>1. \A k \in 1 .. Len(d) + 1 : k \in 1 .. Len(d) \/ k = Len(d) + 1
        BY <1>1
      <4>2. \A k \in 1 .. Len(d) : e[k][1] # p[1]
        BY <1>1, <1>3, <2>2
      <4>3. i = Len(d) + 1 \/ j = Len(d) + 1
        BY <3>2, <4>1
      <4> QED BY <2>2, <2>4, <4>1, <4>2, <4>3
    <3> QED BY <3>1, <3>2
  <2> QED BY <2>1, <2>2, <2>3, <2>4 DEF Dict
<1> QED BY <1>2, <1>3

(* The pairs of a dict literal are a dict. *)
LEMMA AsDictIsDict ==
  ASSUME NEW J, NEW S, NEW s \in Seq(J \X S)
  PROVE  AsDict(s) \in Dict(J, S)
<1> DEFINE T == {t \in Seq(J \X S) : AsDict(t) \in Dict(J, S)}
<1>1. <<>> \in T
  <2>1. Len(<<>>) = 0
    OBVIOUS
  <2>2. AsDict(<<>>) = <<>>
    BY <2>1, AsDictSteps
  <2>3. <<>> \in Seq(J \X S) /\ <<>> \in Dict(J, S)
    BY EmptySeq DEF Dict
  <2> QED BY <2>2, <2>3
<1>2. ASSUME NEW t \in Seq(J \X S), NEW p \in J \X S, t \in T PROVE Append(t, p) \in T
  <2>1. AsDict(Append(t, p)) = WithPair(AsDict(t), p) /\ Append(t, p) \in Seq(J \X S)
    BY AsDictAppend, AppendProperties
  <2> QED BY <1>2, <2>1, PairPut
<1> HIDE DEF T
<1>3. Seq(J \X S) \subseteq T
  BY <1>1, <1>2, SequenceInduction
<1> QED BY <1>3 DEF T

(* A dict is made of its pairs. *)
LEMMA AsDictOfDict ==
  ASSUME NEW J, NEW S, NEW d \in Dict(J, S)
  PROVE  AsDict(d) = d
<1> DEFINE Single(t) == \A i, j \in DOMAIN t : t[i][1] = t[j][1] => i = j
           T == {t \in Seq(J \X S) : Single(t) => AsDict(t) = t}
<1>1. <<>> \in T
  <2>1. Len(<<>>) = 0
    OBVIOUS
  <2> QED BY <2>1, AsDictSteps, EmptySeq
<1>2. ASSUME NEW t \in Seq(J \X S), NEW p \in J \X S, t \in T PROVE Append(t, p) \in T
  <2> DEFINE e == Append(t, p)
  <2>1. /\ e \in Seq(J \X S) /\ Len(e) = Len(t) + 1 /\ e[Len(t) + 1] = p /\ Len(t) \in Nat
        /\ \A i \in 1 .. Len(t) : e[i] = t[i]
    BY AppendProperties, LenProperties
  <2>2. AsDict(e) = WithPair(AsDict(t), p)
    BY AsDictAppend
  <2>3. DOMAIN t = 1 .. Len(t) /\ DOMAIN e = 1 .. Len(t) + 1
    <3> HIDE DEF e
    <3> QED BY <2>1, LenProperties
  <2>4. e = Append(t, p)
    OBVIOUS
  <2> HIDE DEF e
  <2> SUFFICES ASSUME Single(e) PROVE AsDict(e) = e
    BY <2>1, <2>4
  <2>5. Single(t)
    <3> SUFFICES ASSUME NEW i \in DOMAIN t, NEW j \in DOMAIN t, t[i][1] = t[j][1] PROVE i = j
      OBVIOUS
    <3>1. i \in DOMAIN e /\ j \in DOMAIN e /\ e[i] = t[i] /\ e[j] = t[j]
      BY <2>1, <2>3
    <3> QED BY <3>1
  <2>6. ~\E i \in DOMAIN t : t[i][1] = p[1]
    <3> SUFFICES ASSUME NEW i \in DOMAIN t, t[i][1] = p[1] PROVE FALSE
      OBVIOUS
    <3>1. i \in DOMAIN e /\ Len(t) + 1 \in DOMAIN e /\ i # Len(t) + 1 /\ e[i] = t[i]
      BY <2>1, <2>3
    <3> QED BY <2>1, <3>1
  <2>7. AsDict(t) = t
    BY <1>2, <2>5
  <2> QED BY <2>2, <2>4, <2>6, <2>7 DEF WithPair
<1> HIDE DEF T
<1>3. d \in T
  BY <1>1, <1>2, SequenceInduction DEF Dict
<1> QED BY <1>3 DEF T, Dict

----------------------------------------------------------------------------
(* Converted: there is such a function, and what it yields. *)

(* A function on the first numbers is a sequence. *)
LEMMA FunctionIsSeq ==
  ASSUME NEW S, NEW n \in Nat, NEW f \in [1 .. n -> S]
  PROVE  f \in Seq(S)
OBVIOUS

(* What a value is converted to, once its parts are. *)
Items(C, x) == [i \in DOMAIN x.v |-> C[x.v[i]]]

Pairs(name, C, x) == [i \in DOMAIN x.v |-> <<name[x.v[i][1]], C[x.v[i][2]]>>]

Conversion(leaf, name, C, x) ==
  CASE x.type \in {"list", "tuple"} ->
         IF \E i \in DOMAIN x.v : Items(C, x)[i] = Raised THEN Raised ELSE Py("list", Items(C, x))
    [] x.type = "dict" ->
         IF \E i \in DOMAIN x.v : Pairs(name, C, x)[i][1] = Raised \/ Pairs(name, C, x)[i][2] = Raised
         THEN Raised ELSE Py("dict", AsDict(Pairs(name, C, x)))
    [] OTHER -> leaf[x]

(* The three cases of a conversion. *)
LEMMA ConversionCases ==
  ASSUME NEW leaf, NEW name, NEW C, NEW x
  PROVE  /\ x.type \notin {"list", "tuple", "dict"} => Conversion(leaf, name, C, x) = leaf[x]
         /\ x.type \in {"list", "tuple"} =>
              Conversion(leaf, name, C, x) =
                IF \E i \in DOMAIN x.v : Items(C, x)[i] = Raised
                THEN Raised ELSE Py("list", Items(C, x))
         /\ x.type = "dict" =>
              Conversion(leaf, name, C, x) =
                IF \E i \in DOMAIN x.v : \/ Pairs(name, C, x)[i][1] = Raised
                                         \/ Pairs(name, C, x)[i][2] = Raised
                THEN Raised ELSE Py("dict", AsDict(Pairs(name, C, x)))
<1>1. CASE x.type \in {"list", "tuple"}
  <2>1. x.type # "dict"
    BY <1>1
  <2> QED BY <1>1, <2>1 DEF Conversion
<1>2. CASE x.type = "dict"
  BY <1>2 DEF Conversion
<1>3. CASE x.type \notin {"list", "tuple", "dict"}
  BY <1>3 DEF Conversion
<1> QED BY <1>1, <1>2, <1>3

(* The conversions of leaves and of keys that the code has. *)
Conversions(leaf, name) ==
  leaf \in [Leaf -> Scalar \cup {Raised}] /\ name \in [Key -> Name \cup {Raised}]

Agree(f, g, x) == \A y \in Shallow(x) : f[y] = g[y]

(* A conversion asks for the parts of a value only. *)
LEMMA ConversionIsLocal ==
  ASSUME NEW leaf, NEW name, NEW f, NEW g, NEW x \in Value, Agree(f, g, x)
  PROVE  Conversion(leaf, name, f, x) = Conversion(leaf, name, g, x)
<1>1. CASE x \in Leaf /\ x.type \notin {"list", "tuple", "dict"}
  BY <1>1, ConversionCases
<1>2. CASE x \in Typed({"list", "tuple"}, Seq(Shallow(x)))
  <2>1. x.type \in {"list", "tuple"} /\ \A i \in DOMAIN x.v : x.v[i] \in Shallow(x)
    BY <1>2, ElementOfSeq, LenProperties DEF Typed
  <2>2. Items(f, x) = Items(g, x)
    BY <2>1 DEF Items, Agree
  <2> QED BY <2>1, <2>2, ConversionCases
<1>3. CASE x \in Typed({"dict"}, Dict(Key, Shallow(x)))
  <2>1. x.type = "dict" /\ \A i \in DOMAIN x.v : x.v[i][2] \in Shallow(x)
    <3>1. x.type = "dict" /\ x.v \in Seq(Key \X Shallow(x))
      BY <1>3 DEF Typed, Dict
    <3>2. \A i \in DOMAIN x.v : x.v[i] \in Key \X Shallow(x)
      BY <3>1, ElementOfSeq, LenProperties
    <3> QED BY <3>1, <3>2
  <2>2. Pairs(name, f, x) = Pairs(name, g, x)
    BY <2>1 DEF Pairs, Agree
  <2> QED BY <2>1, <2>2, ConversionCases
<1> QED BY <1>1, <1>2, <1>3, ValueParts

SmallResults(C, x) == \A y \in Shallow(x) : C[y] \in JsonLevel[Depth[y]] \cup {Raised}

(* A conversion yields JSON, not deeper than the value, or raises. *)
LEMMA ConversionRange ==
  ASSUME NEW leaf, NEW name, Conversions(leaf, name), NEW C, NEW x \in Value, SmallResults(C, x)
  PROVE  Conversion(leaf, name, C, x) \in JsonLevel[Depth[x]] \cup {Raised}
<1> DEFINE n == Depth[x]
<1>1. MaxDepth \in Nat /\ n \in 0 .. MaxDepth /\ n \in Nat
  BY DepthProperties, BothLevels
<1>2. CASE x \in Leaf /\ x.type \notin {"list", "tuple", "dict"}
  <2>1. Conversion(leaf, name, C, x) = leaf[x] /\ leaf[x] \in Scalar \cup {Raised}
    BY <1>2, ConversionCases DEF Conversions
  <2>2. 0 \in 0 .. MaxDepth /\ 0 <= n
    BY <1>1
  <2>3. JsonLevel[0] = Scalar /\ JsonLevel[0] \subseteq JsonLevel[n]
    BY <1>1, <2>2, BothLevels
  <2> QED BY <2>1, <2>3
<1> SUFFICES ASSUME n \in 1 .. MaxDepth,
                    \/ x \in Typed({"list", "tuple"}, Seq(Shallow(x)))
                    \/ x \in Typed({"dict"}, Dict(Key, Shallow(x)))
             PROVE  Conversion(leaf, name, C, x) \in JsonLevel[n] \cup {Raised}
  BY <1>2, ValueParts
<1> DEFINE J == JsonLevel[n - 1]
<1>3. JsonLevel[n] = Grown(J, {"list"}, Name)
  BY BothLevels
<1>4. ASSUME NEW y \in Shallow(x), C[y] # Raised PROVE C[y] \in J
  <2>1. y \in Value /\ Depth[y] \in 0 .. MaxDepth /\ Depth[y] \in Nat /\ Depth[y] < n
    BY DepthProperties DEF Shallow
  <2>2. n - 1 \in 0 .. MaxDepth /\ Depth[y] <= n - 1
    <3> HIDE DEF n
    <3> QED BY <1>1, <2>1
  <2>3. C[y] \in JsonLevel[Depth[y]]
    BY <1>4 DEF SmallResults
  <2>4. JsonLevel[Depth[y]] \subseteq J
    BY <2>1, <2>2, BothLevels
  <2> QED BY <2>3, <2>4
<1> HIDE DEF n, J
<1>5. CASE x \in Typed({"list", "tuple"}, Seq(Shallow(x)))
  <2> DEFINE items == Items(C, x)
  <2>1. /\ x.type \in {"list", "tuple"} /\ x.v \in Seq(Shallow(x))
        /\ DOMAIN x.v = 1 .. Len(x.v) /\ Len(x.v) \in Nat
        /\ \A i \in DOMAIN x.v : x.v[i] \in Shallow(x)
    <3>1. x.type \in {"list", "tuple"} /\ x.v \in Seq(Shallow(x))
      BY <1>5 DEF Typed
    <3> QED BY <3>1, ElementOfSeq, LenProperties
  <2>2. Conversion(leaf, name, C, x) =
          IF \E i \in DOMAIN x.v : items[i] = Raised THEN Raised ELSE Py("list", items)
    BY <2>1, ConversionCases
  <2>3. items = [i \in DOMAIN x.v |-> C[x.v[i]]]
    BY DEF Items
  <2> HIDE DEF items
  <2> SUFFICES ASSUME ~\E i \in DOMAIN x.v : items[i] = Raised
               PROVE  Py("list", items) \in JsonLevel[n]
    BY <2>2
  <2>4. \A i \in DOMAIN x.v : items[i] \in J
    BY <1>4, <2>1, <2>3
  <2>5. items \in Seq(J)
    <3>1. items \in [1 .. Len(x.v) -> J]
      BY <2>1, <2>3, <2>4
    <3> QED BY <2>1, <3>1, FunctionIsSeq
  <2> QED BY <1>3, <2>5 DEF Grown, Typed, Py
<1>6. CASE x \in Typed({"dict"}, Dict(Key, Shallow(x)))
  <2> DEFINE pairs == Pairs(name, C, x)
  <2>1. /\ x.type = "dict" /\ x.v \in Seq(Key \X Shallow(x))
        /\ DOMAIN x.v = 1 .. Len(x.v) /\ Len(x.v) \in Nat
        /\ \A i \in DOMAIN x.v : x.v[i][1] \in Key /\ x.v[i][2] \in Shallow(x)
    <3>1. x.type = "dict" /\ x.v \in Seq(Key \X Shallow(x))
      BY <1>6 DEF Typed, Dict
    <3>2. \A i \in 1 .. Len(x.v) : x.v[i] \in Key \X Shallow(x)
      BY <3>1, ElementOfSeq
    <3>3. DOMAIN x.v = 1 .. Len(x.v) /\ Len(x.v) \in Nat
      BY <3>1, LenProperties
    <3> QED BY <3>1, <3>2, <3>3
  <2>2. Conversion(leaf, name, C, x) =
          IF \E i \in DOMAIN x.v : pairs[i][1] = Raised \/ pairs[i][2] = Raised
          THEN Raised ELSE Py("dict", AsDict(pairs))
    BY <2>1, ConversionCases
  <2>3. pairs = [i \in DOMAIN x.v |-> <<name[x.v[i][1]], C[x.v[i][2]]>>]
    BY DEF Pairs
  <2> HIDE DEF pairs
  <2> SUFFICES ASSUME ~\E i \in DOMAIN x.v : pairs[i][1] = Raised \/ pairs[i][2] = Raised
               PROVE  Py("dict", AsDict(pairs)) \in JsonLevel[n]
    BY <2>2
  <2>4. ASSUME NEW i \in DOMAIN x.v PROVE pairs[i] \in Name \X J
    <3>1. pairs[i] = <<name[x.v[i][1]], C[x.v[i][2]]>>
      BY <2>3
    <3>2. name[x.v[i][1]] # Raised /\ C[x.v[i][2]] # Raised
      BY <3>1
    <3>3. name[x.v[i][1]] \in Name
      BY <2>1, <3>2 DEF Conversions
    <3>4. C[x.v[i][2]] \in J
      BY <1>4, <2>1, <3>2
    <3> QED BY <3>1, <3>3, <3>4
  <2>5. pairs \in Seq(Name \X J)
    <3>1. pairs \in [1 .. Len(x.v) -> Name \X J]
      BY <2>1, <2>3, <2>4
    <3> QED BY <2>1, <3>1, FunctionIsSeq
  <2>6. AsDict(pairs) \in Dict(Name, J)
    BY <2>5, AsDictIsDict
  <2> QED BY <1>3, <2>6 DEF Grown, Typed, Py
<1> QED BY <1>5, <1>6

(* The recursion of Converted is well-founded: it has a solution. *)
LEMMA ConvertedExists ==
  ASSUME NEW leaf, NEW name, Conversions(leaf, name)
  PROVE  \E C : C = [x \in Value |-> Conversion(leaf, name, C, x)]
<1> DEFINE V    == Json \cup {Raised}
           b(f, x) == Conversion(leaf, name, f, x)
           B    == [a \in Value \X [Value -> V] |-> IF b(a[2], a[1]) \in V THEN b(a[2], a[1]) ELSE Raised]
<1>1. RecursiveBody(Value, V, Depth, B)
  <2>1. V # {} /\ Depth \in [Value -> Nat]
    <3>1. \A x \in Value : Depth[x] \in Nat
      BY DepthProperties
    <3>2. Depth = [x \in Value |-> Depth[x]]
      BY DEF Depth
    <3> QED BY <3>1, <3>2
  <2>2. B \in [Value \X [Value -> V] -> V]
    <3> HIDE DEF b
    <3> QED OBVIOUS
  <2>3. ASSUME NEW x \in Value, NEW f \in [Value -> V], NEW g \in [Value -> V],
               \A y \in Value : Depth[y] < Depth[x] => f[y] = g[y]
        PROVE  B[<<x, f>>] = B[<<x, g>>]
    <3>1. Agree(f, g, x)
      BY <2>3 DEF Agree, Shallow
    <3>2. b(f, x) = b(g, x)
      BY <3>1, ConversionIsLocal
    <3> HIDE DEF b, V
    <3> QED BY <3>2
  <2> HIDE DEF B, V
  <2> QED BY <2>1, <2>2, <2>3 DEF RecursiveBody
<1> HIDE DEF b
<1>2. PICK f \in [Value -> V] : \A x \in Value : f[x] = B[<<x, f>>]
  <2> HIDE DEF B, V
  <2> QED BY <1>1, RankedRecursion
<1>3. \A x \in Value : f[x] = IF b(f, x) \in V THEN b(f, x) ELSE Raised
  <2> HIDE DEF V
  <2> QED BY <1>2
<1> HIDE DEF B, V
<1> DEFINE Ns == {n \in Nat : \A x \in Value : Depth[x] = n =>
                    f[x] \in JsonLevel[Depth[x]] \cup {Raised} /\ f[x] = b(f, x)}
<1>4. ASSUME NEW n \in Nat, \A m \in Nat : m < n => m \in Ns PROVE n \in Ns
  <2> SUFFICES ASSUME NEW x \in Value, Depth[x] = n
               PROVE  f[x] \in JsonLevel[Depth[x]] \cup {Raised} /\ f[x] = b(f, x)
    OBVIOUS
  <2>1. SmallResults(f, x)
    <3> SUFFICES ASSUME NEW y \in Shallow(x) PROVE f[y] \in JsonLevel[Depth[y]] \cup {Raised}
      BY DEF SmallResults
    <3>1. y \in Value /\ Depth[y] \in Nat /\ Depth[y] < n
      BY DepthProperties DEF Shallow
    <3>2. Depth[y] \in Ns
      BY <1>4, <3>1
    <3> QED BY <3>1, <3>2
  <2>2. b(f, x) \in JsonLevel[Depth[x]] \cup {Raised}
    BY <2>1, ConversionRange DEF b
  <2>3. b(f, x) \in V
    BY <2>2, BothLevels, DepthProperties DEF V
  <2> QED BY <1>3, <2>2, <2>3
<1>5. Nat \subseteq Ns
  <2> HIDE DEF Ns
  <2> QED BY <1>4, StrongInduction
<1>6. \A x \in Value : f[x] = b(f, x)
  <2> SUFFICES ASSUME NEW x \in Value PROVE f[x] = b(f, x)
    OBVIOUS
  <2>1. Depth[x] \in Nat
    BY DepthProperties
  <2> QED BY <1>5, <2>1
<1>7. f = [x \in Value |-> b(f, x)]
  BY <1>2, <1>6
<1> QED BY <1>7 DEF b

(* Converted is such a solution, and yields JSON or raises. *)
LEMMA ConvertedStep ==
  ASSUME NEW leaf, NEW name, Conversions(leaf, name)
  PROVE  /\ \A x \in Value : Converted(leaf, name)[x]
                               = Conversion(leaf, name, Converted(leaf, name), x)
         /\ \A x \in Value : Converted(leaf, name)[x] \in Json \cup {Raised}
<1> DEFINE C == CHOOSE C : C = [x \in Value |-> Conversion(leaf, name, C, x)]
<1>1. Converted(leaf, name) = C
  BY Zenon DEF Converted, Conversion, Items, Pairs
<1>2. C = [x \in Value |-> Conversion(leaf, name, C, x)]
  BY ConvertedExists
<1> HIDE DEF C
<1>3. \A x \in Value : C[x] = Conversion(leaf, name, C, x)
  BY <1>2
<1> DEFINE Ns == {n \in Nat : \A x \in Value : Depth[x] = n => C[x] \in JsonLevel[Depth[x]] \cup {Raised}}
<1>4. ASSUME NEW n \in Nat, \A m \in Nat : m < n => m \in Ns PROVE n \in Ns
  <2> SUFFICES ASSUME NEW x \in Value, Depth[x] = n
               PROVE  C[x] \in JsonLevel[Depth[x]] \cup {Raised}
    OBVIOUS
  <2>1. SmallResults(C, x)
    <3> SUFFICES ASSUME NEW y \in Shallow(x) PROVE C[y] \in JsonLevel[Depth[y]] \cup {Raised}
      BY DEF SmallResults
    <3>1. y \in Value /\ Depth[y] \in Nat /\ Depth[y] < n
      BY DepthProperties DEF Shallow
    <3>2. Depth[y] \in Ns
      BY <1>4, <3>1
    <3> QED BY <3>1, <3>2
  <2> QED BY <1>3, <2>1, ConversionRange
<1>5. Nat \subseteq Ns
  <2> HIDE DEF Ns
  <2> QED BY <1>4, StrongInduction
<1>6. ASSUME NEW x \in Value PROVE C[x] \in Json \cup {Raised}
  <2>1. Depth[x] \in Nat /\ Depth[x] \in 0 .. MaxDepth
    BY DepthProperties
  <2> QED BY <1>5, <2>1, BothLevels
<1> QED BY <1>1, <1>3, <1>6

(* What converts plain leaves and names to themselves leaves JSON unchanged. *)
LEMMA ConvertedJson ==
  ASSUME NEW leaf, NEW name, Conversions(leaf, name),
         \A x \in Scalar : leaf[x] = x, \A k \in Name : name[k] = k, NEW y \in Json
  PROVE  Converted(leaf, name)[y] = y
<1> DEFINE C == Converted(leaf, name)
<1>1. \A x \in Value : C[x] = Conversion(leaf, name, C, x)
  BY ConvertedStep
<1>2. MaxDepth \in Nat /\ Raised \notin Json /\ Raised \notin Name
  <2>1. Scalar \subseteq Json
    <3>1. 0 \in 0 .. MaxDepth
      BY BothLevels
    <3> QED BY <3>1, BothLevels
  <2>2. Name \subseteq Scalar
    BY DEF Name, Scalar, Typed
  <2> QED BY <2>1, <2>2, BothLevels, JsonIsValue, RaisedAssumption
<1> HIDE DEF C
<1> DEFINE Ns == {n \in Nat : n <= MaxDepth => \A x \in JsonLevel[n] : C[x] = x}
<1>3. 0 \in Ns
  <2> SUFFICES ASSUME NEW x \in Scalar PROVE C[x] = x
    BY BothLevels
  <2>1. x.type \notin {"list", "tuple", "dict"}
    BY DEF Scalar, Nil, Typed
  <2>2. x \in Value
    <3>1. 0 \in 0 .. MaxDepth /\ x \in Leaf
      BY BothLevels DEF Leaf
    <3> QED BY <3>1, BothLevels
  <2> QED BY <1>1, <2>1, <2>2, ConversionCases
<1>4. ASSUME NEW k \in Nat, k \in Ns PROVE k + 1 \in Ns
  <2> SUFFICES ASSUME k + 1 <= MaxDepth, NEW x \in JsonLevel[k + 1] PROVE C[x] = x
    OBVIOUS
  <2> DEFINE n == k + 1
             J == JsonLevel[k]
  <2>1. n \in 1 .. MaxDepth /\ n \in 0 .. MaxDepth /\ n - 1 = k /\ k \in 0 .. MaxDepth /\ k <= MaxDepth
    BY <1>2
  <2>2. x \in Grown(J, {"list"}, Name)
    <3>1. JsonLevel[n] = Grown(JsonLevel[n - 1], {"list"}, Name)
      BY <2>1, BothLevels
    <3> QED BY <2>1, <3>1
  <2>3. x \in Value
    BY <2>1, BothLevels, JsonIsValue
  <2>4. \A z \in J : C[z] = z /\ z # Raised
    BY <1>2, <1>4, <2>1, BothLevels
  <2> HIDE DEF n, J
  <2>5. CASE x \in J
    BY <2>4, <2>5
  <2>6. CASE x \in Typed({"list"}, Seq(J))
    <3>1. x.type = "list" /\ x.v \in Seq(J) /\ x = Py("list", x.v)
      BY <2>6 DEF Typed, Py
    <3>2. \A i \in DOMAIN x.v : x.v[i] \in J
      BY <3>1, ElementOfSeq, LenProperties
    <3>3. x.v = [i \in DOMAIN x.v |-> x.v[i]]
      BY <3>1, LenProperties
    <3>4. Items(C, x) = x.v
      BY <2>4, <3>2, <3>3 DEF Items
    <3>5. Conversion(leaf, name, C, x) = Py("list", x.v)
      BY <2>4, <3>1, <3>2, <3>4, ConversionCases
    <3> QED BY <1>1, <2>3, <3>1, <3>5
  <2>7. CASE x \in Typed({"dict"}, Dict(Name, J))
    <3>1. x.type = "dict" /\ x.v \in Dict(Name, J) /\ x.v \in Seq(Name \X J) /\ x = Py("dict", x.v)
      BY <2>7 DEF Typed, Py, Dict
    <3>2. DOMAIN x.v = 1 .. Len(x.v) /\ x.v = [i \in DOMAIN x.v |-> x.v[i]]
      BY <3>1, LenProperties
    <3>3. \A i \in DOMAIN x.v : x.v[i] \in Name \X J
      BY <3>1, <3>2, ElementOfSeq
    <3>4. ASSUME NEW i \in DOMAIN x.v
          PROVE  /\ <<name[x.v[i][1]], C[x.v[i][2]]>> = x.v[i]
                 /\ x.v[i][1] # Raised /\ x.v[i][2] # Raised
      <4>1. x.v[i][1] \in Name /\ x.v[i][2] \in J /\ x.v[i] = <<x.v[i][1], x.v[i][2]>>
        BY <3>3
      <4> QED BY <1>2, <2>4, <4>1
    <3>5. Pairs(name, C, x) = x.v
      BY <3>2, <3>4 DEF Pairs
    <3>6. AsDict(x.v) = x.v
      BY <3>1, AsDictOfDict
    <3>7. Conversion(leaf, name, C, x) = Py("dict", x.v)
      BY <3>1, <3>4, <3>5, <3>6, ConversionCases
    <3> QED BY <1>1, <2>3, <3>1, <3>7
  <2> QED BY <2>2, <2>5, <2>6, <2>7 DEF Grown
<1> HIDE DEF Ns
<1>5. Nat \subseteq Ns
  BY <1>3, <1>4, NumberInduction
<1> QED BY <1>2, <1>5, BothLevels DEF Ns, C

----------------------------------------------------------------------------
(* JSON forms, and values in their tagged form. *)

(* json.dumps yields JSON or raises, and leaves JSON unchanged. *)
LEMMA DumpsProperties ==
  /\ \A x \in Value : Dumps[x] \in Json \cup {Raised}
  /\ \A x \in Json : Dumps[x] = x
  /\ \A x \in Typed({"object"}, Nat) : Dumps[x] = Raised
<1> DEFINE leaf == [x \in Leaf |-> IF x \in Scalar THEN x ELSE Raised]
           name == [k \in Key |-> JsonName(k)]
<1>1. \A k \in Key : JsonName(k) \in Name
  <2> SUFFICES ASSUME NEW k \in Key PROVE JsonName(k) \in Name
    OBVIOUS
  <2>1. CASE k \in Typed({"int"}, Int)
    <3>1. k.type = "int" /\ k.v \in Int
      BY <2>1 DEF Typed
    <3>2. Decimal(k.v) \in Seq(Nat)
      BY <3>1, DecimalRead
    <3> QED BY <3>1, <3>2 DEF JsonName, Name, Typed, Py, Text
  <2>2. CASE k \in Name
    BY <2>2 DEF JsonName, Name, Typed
  <2> QED BY <2>1, <2>2 DEF Key
<1>2. Conversions(leaf, name)
  BY <1>1 DEF Conversions
<1>3. \A x \in Scalar : leaf[x] = x
  BY DEF Leaf
<1>4. \A k \in Name : name[k] = k
  BY DEF Key, Name, Typed, JsonName
<1>5. Dumps = Converted(leaf, name)
  BY DEF Dumps
<1>6. ASSUME NEW x \in Typed({"object"}, Nat) PROVE leaf[x] = Raised /\ x \in Value /\ x.type = "object"
  <2>1. x \in Leaf /\ x \notin Scalar /\ x.type = "object"
    BY DEF Leaf, Scalar, Typed, Nil
  <2>2. 0 \in 0 .. MaxDepth
    BY BothLevels
  <2> QED BY <2>1, <2>2, BothLevels
<1> HIDE DEF leaf, name
<1>7. \A x \in Typed({"object"}, Nat) : Dumps[x] = Raised
  <2> SUFFICES ASSUME NEW x \in Typed({"object"}, Nat) PROVE Dumps[x] = Raised
    OBVIOUS
  <2>1. x.type \notin {"list", "tuple", "dict"} /\ x \in Value /\ leaf[x] = Raised
    BY <1>6
  <2> QED BY <1>2, <1>5, <2>1, ConvertedStep, ConversionCases
<1>8. \A x \in Json : Dumps[x] = x
  BY <1>2, <1>3, <1>4, <1>5, ConvertedJson
<1> QED BY <1>2, <1>5, <1>7, <1>8, ConvertedStep

(* What a value is after it was read back from the log or from state.rdb. *)
Loadable == Json \cup Typed({"bytes"}, Text)

(* The values that are loaded are values, and the scalars are among them. *)
LEMMA LoadableValues ==
  /\ Leaf \subseteq Value /\ Scalar \subseteq Json /\ Loadable \subseteq Value
  /\ Raised \notin Value /\ Raised \notin Json /\ Absent \notin Value /\ Absent \notin Json
  /\ Absent # Raised
<1>1. 0 \in 0 .. MaxDepth
  BY BothLevels
<1>2. Leaf \subseteq Value /\ Scalar \subseteq Json
  BY <1>1, BothLevels
<1>3. Typed({"bytes"}, Text) \subseteq Leaf
  BY DEF Leaf
<1> QED BY <1>2, <1>3, JsonIsValue, RaisedAssumption, FormatsAssumption DEF Loadable

(* _normalize_for_json yields JSON or raises, leaves JSON unchanged, and accepts
   bytes. *)
LEMMA NormalizeProperties ==
  /\ \A x \in Value : Normalize[x] \in Json \cup {Raised}
  /\ \A x \in Json : Normalize[x] = x
  /\ \A x \in Loadable : Normalize[x] \in Json
<1> DEFINE leaf == [x \in Leaf |-> IF x.type = "object" THEN Raised ELSE NormalizedScalar(x)]
           name == [k \in Key |-> IF k \in Name THEN k ELSE Raised]
<1>1. ASSUME NEW x \in Typed({"bytes"}, Text)
      PROVE  NormalizedScalar(x) \in Scalar /\ x.type = "bytes" /\ x \in Leaf
  <2>1. x.type = "bytes" /\ x.v \in Seq(Nat)
    BY DEF Typed, Text
  <2>2. <<64>> \o x.v \in Seq(Nat)
    <3>1. <<64>> \in Seq(Nat)
      OBVIOUS
    <3> QED BY <2>1, <3>1, ConcatProperties
  <2>3. NormalizedScalar(x) = Py("str", <<64>> \o x.v)
    BY <2>1 DEF NormalizedScalar, Base64
  <2>4. Py("str", <<64>> \o x.v) \in Scalar
    BY <2>2 DEF Py, Scalar, Typed, Text
  <2> QED BY <2>1, <2>3, <2>4 DEF Leaf
<1>2. ASSUME NEW x \in Scalar PROVE x.type # "bytes" /\ x.type # "object" /\ NormalizedScalar(x) = x
  <2>1. x.type # "bytes" /\ x.type # "object"
    BY DEF Scalar, Typed, Nil
  <2> QED BY <2>1 DEF NormalizedScalar
<1>3. \A x \in Leaf : x \in Scalar \/ x \in Typed({"bytes"}, Text) \/ x.type = "object"
  BY DEF Leaf, Typed
<1>4. \A x \in Leaf : leaf[x] \in Scalar \cup {Raised}
  BY <1>1, <1>2, <1>3
<1>5. Conversions(leaf, name)
  <2>1. name \in [Key -> Name \cup {Raised}]
    OBVIOUS
  <2>2. leaf \in [Leaf -> Scalar \cup {Raised}]
    BY <1>4
  <2> QED BY <2>1, <2>2 DEF Conversions
<1>6. \A x \in Scalar : leaf[x] = x
  BY <1>2 DEF Leaf
<1>7. \A k \in Name : name[k] = k
  BY DEF Key
<1>8. Normalize = Converted(leaf, name)
  BY DEF Normalize
<1>9. ASSUME NEW x \in Typed({"bytes"}, Text) PROVE leaf[x] \in Scalar
  BY <1>1
<1> HIDE DEF leaf, name
<1>10. \A x \in Json : Normalize[x] = x
  BY <1>5, <1>6, <1>7, <1>8, ConvertedJson
<1>11. ASSUME NEW x \in Typed({"bytes"}, Text) PROVE Normalize[x] \in Json
  <2>1. x.type \notin {"list", "tuple", "dict"} /\ x \in Value
    BY <1>1, LoadableValues
  <2>2. Normalize[x] = leaf[x]
    BY <1>5, <1>8, <2>1, ConvertedStep, ConversionCases
  <2> QED BY <1>9, <2>2, LoadableValues
<1> QED BY <1>5, <1>8, <1>10, <1>11, ConvertedStep DEF Loadable

(* The value that is read when a value was logged. *)
Wire(x) == IF x \in Leaf THEN x ELSE Dumps[x]

(* What deserialize_value makes of each tag. *)
LEMMA ReadCases ==
  ASSUME NEW bytes, bytes # <<>>
  PROVE  /\ Head(bytes) = TAG_NIL => deserialize_value(bytes) = Nil
         /\ Head(bytes) = TAG_BYTES => deserialize_value(bytes) = Py("bytes", Tail(bytes))
         /\ Head(bytes) = TAG_STRING => deserialize_value(bytes) = Py("str", Tail(bytes))
         /\ Head(bytes) \in {TAG_INT, TAG_UINT} =>
              deserialize_value(bytes) = Py("int", ParseDecimal(Tail(bytes)))
         /\ Head(bytes) = TAG_FLOAT => deserialize_value(bytes) = Py("float", Tail(bytes))
         /\ Head(bytes) = TAG_BOOL /\ Tail(bytes) # <<>> =>
              deserialize_value(bytes) = Py("bool", Head(Tail(bytes)) = 1)
         /\ Head(bytes) = TAG_JSON => deserialize_value(bytes) = Head(Tail(bytes))
<1> DEFINE t == Head(bytes)
           p == Tail(bytes)
           b == IF p = <<>> THEN Raised ELSE Py("bool", Head(p) = 1)
           n == ParseDecimal(p)
           Cases == CASE t = TAG_NIL -> Nil
                      [] t = TAG_BYTES -> Py("bytes", p)
                      [] t = TAG_STRING -> Py("str", p)
                      [] t \in {TAG_INT, TAG_UINT} -> Py("int", n)
                      [] t = TAG_FLOAT -> Py("float", p)
                      [] t = TAG_BOOL -> b
                      [] t = TAG_JSON -> Head(p)
                      [] OTHER -> Raised
<1>1. deserialize_value(bytes) = IF bytes = <<>> THEN Nil ELSE Cases
  BY Zenon DEF deserialize_value
<1>2. p # <<>> => b = Py("bool", Head(p) = 1)
  BY Zenon
<1> HIDE DEF b, n, t, p
<1>3. /\ t = TAG_NIL => Cases = Nil
      /\ t = TAG_BYTES => Cases = Py("bytes", p)
      /\ t = TAG_STRING => Cases = Py("str", p)
      /\ t \in {TAG_INT, TAG_UINT} => Cases = Py("int", n)
      /\ t = TAG_FLOAT => Cases = Py("float", p)
      /\ t = TAG_BOOL => Cases = b
      /\ t = TAG_JSON => Cases = Head(p)
  BY DEF TAG_JSON, TAG_BOOL, TAG_BYTES, TAG_NIL, TAG_STRING, TAG_INT, TAG_UINT, TAG_FLOAT
<1> HIDE DEF Cases
<1>4. deserialize_value(bytes) = Cases
  BY <1>1
<1> QED BY <1>2, <1>3, <1>4, Zenon DEF n, t, p

(* A leaf comes back as it was. *)
LEMMA LeafRead ==
  ASSUME NEW x \in Leaf
  PROVE  \/ serialize_value(x) = Raised /\ x \in Typed({"object"}, Nat)
         \/ /\ serialize_value(x) \in Bytes /\ deserialize_value(serialize_value(x)) = x
            /\ x \in Scalar \cup Typed({"bytes"}, Text)
<1>1. Seq(Nat) \subseteq Bytes
  BY NumbersAreBytes
<1> DEFINE Tagged(t, s) == <<t>> \o s
<1>2. ASSUME NEW t \in Nat, NEW s \in Seq(Nat)
      PROVE  Tagged(t, s) \in Seq(Nat) /\ Tagged(t, s) # <<>> /\ Head(Tagged(t, s)) = t
             /\ Tail(Tagged(t, s)) = s
  <2>1. <<t>> \in Seq(Nat) /\ Len(<<t>>) = 1 /\ Len(s) \in Nat
    OBVIOUS
  <2> QED BY <2>1
<1>3. CASE x = Nil
  <2>1. serialize_value(x) = <<TAG_NIL>> /\ <<TAG_NIL>> \in Seq(Nat) /\ <<TAG_NIL>> # <<>>
        /\ Head(<<TAG_NIL>>) = TAG_NIL
    BY <1>3 DEF serialize_value, Nil, TAG_NIL
  <2>2. deserialize_value(<<TAG_NIL>>) = Nil
    BY <2>1, ReadCases
  <2> QED BY <1>1, <1>3, <2>1, <2>2 DEF Scalar
<1>4. CASE x \in Typed({"bytes"}, Text)
  <2>1. x.type = "bytes" /\ x.v \in Seq(Nat) /\ x = Py("bytes", x.v)
    BY <1>4 DEF Typed, Text, Py
  <2>2. serialize_value(x) = Tagged(TAG_BYTES, x.v)
    BY <2>1 DEF serialize_value
  <2> HIDE DEF Tagged
  <2>3. deserialize_value(Tagged(TAG_BYTES, x.v)) = Py("bytes", x.v) /\ Tagged(TAG_BYTES, x.v) \in Seq(Nat)
    <3>1. TAG_BYTES \in Nat
      BY DEF TAG_BYTES
    <3>2. /\ Tagged(TAG_BYTES, x.v) \in Seq(Nat) /\ Tagged(TAG_BYTES, x.v) # <<>>
          /\ Head(Tagged(TAG_BYTES, x.v)) = TAG_BYTES /\ Tail(Tagged(TAG_BYTES, x.v)) = x.v
      BY <1>2, <2>1, <3>1
    <3> QED BY <3>2, ReadCases
  <2> QED BY <1>1, <1>4, <2>1, <2>2, <2>3
<1>5. CASE x \in Typed({"str", "float"}, Text)
  <2>1. x.type \in {"str", "float"} /\ x.v \in Seq(Nat) /\ x = Py(x.type, x.v)
    BY <1>5 DEF Typed, Text, Py
  <2> DEFINE t == IF x.type = "str" THEN TAG_STRING ELSE TAG_FLOAT
  <2>2. serialize_value(x) = Tagged(t, x.v)
    BY <2>1 DEF serialize_value
  <2> HIDE DEF Tagged
  <2>3. deserialize_value(Tagged(t, x.v)) = Py(x.type, x.v) /\ Tagged(t, x.v) \in Seq(Nat)
    <3>1. t \in Nat
      BY DEF TAG_STRING, TAG_FLOAT
    <3>2. /\ Tagged(t, x.v) \in Seq(Nat) /\ Tagged(t, x.v) # <<>>
          /\ Head(Tagged(t, x.v)) = t /\ Tail(Tagged(t, x.v)) = x.v
      BY <1>2, <2>1, <3>1
    <3> QED BY <2>1, <3>2, ReadCases
  <2> QED BY <1>1, <1>5, <2>1, <2>2, <2>3 DEF Scalar
<1>6. CASE x \in Typed({"int"}, Int)
  <2>1. x.type = "int" /\ x.v \in Int /\ x = Py("int", x.v)
    BY <1>6 DEF Typed, Py
  <2> DEFINE t == IF x.v >= 0 THEN TAG_UINT ELSE TAG_INT
             s == Decimal(x.v)
  <2>2. serialize_value(x) = Tagged(t, s)
    BY <2>1 DEF serialize_value
  <2>3. s \in Seq(Nat) /\ ParseDecimal(s) = x.v
    BY <2>1, DecimalRead
  <2> HIDE DEF Tagged, s
  <2>4. deserialize_value(Tagged(t, s)) = Py("int", x.v) /\ Tagged(t, s) \in Seq(Nat)
    <3>1. t \in Nat /\ t \in {TAG_INT, TAG_UINT}
      BY DEF TAG_INT, TAG_UINT
    <3> HIDE DEF t
    <3>2. /\ Tagged(t, s) \in Seq(Nat) /\ Tagged(t, s) # <<>>
          /\ Head(Tagged(t, s)) = t /\ Tail(Tagged(t, s)) = s
      BY <1>2, <2>3, <3>1
    <3> QED BY <2>3, <3>1, <3>2, ReadCases
  <2> QED BY <1>1, <1>6, <2>1, <2>2, <2>4 DEF Scalar
<1>7. CASE x \in Typed({"bool"}, BOOLEAN)
  <2>1. x.type = "bool" /\ x.v \in BOOLEAN /\ x = Py("bool", x.v)
    BY <1>7 DEF Typed, Py
  <2>2. serialize_value(x) = BoolBytes(x.v)
    BY <2>1 DEF serialize_value
  <2>3. ASSUME NEW b \in {0, 1}
        PROVE  deserialize_value(<<TAG_BOOL, b>>) = Py("bool", b = 1) /\ <<TAG_BOOL, b>> \in Seq(Nat)
    <3>1. <<TAG_BOOL, b>> \in Seq(Nat) /\ Head(<<TAG_BOOL, b>>) = TAG_BOOL /\ <<TAG_BOOL, b>> # <<>>
          /\ Tail(<<TAG_BOOL, b>>) = <<b>> /\ Head(<<b>>) = b /\ <<b>> # <<>>
      BY DEF TAG_BOOL
    <3> DEFINE c == <<TAG_BOOL, b>>
               p == <<b>>
    <3>2. c # <<>> /\ TAG_BOOL = Head(c) /\ p = Tail(c) /\ p # <<>> /\ Head(p) = b
      BY <3>1
    <3> HIDE DEF c, p
    <3>3. deserialize_value(c) = Py("bool", Head(p) = 1)
      <4>1. Head(c) = TAG_BOOL /\ Tail(c) # <<>> => deserialize_value(c) = Py("bool", Head(Tail(c)) = 1)
        BY <3>2, ReadCases, Zenon
      <4> QED BY <3>2, <4>1, Zenon
    <3>4. deserialize_value(c) = Py("bool", b = 1)
      BY <3>2, <3>3, Zenon
    <3> QED BY <3>1, <3>4, Zenon DEF c
  <2>4. CASE x.v = TRUE
    <3>1. BoolBytes(x.v) = <<TAG_BOOL, 1>>
      BY <2>4 DEF BoolBytes
    <3>2. deserialize_value(<<TAG_BOOL, 1>>) = Py("bool", TRUE) /\ <<TAG_BOOL, 1>> \in Seq(Nat)
      <4>1. deserialize_value(<<TAG_BOOL, 1>>) = Py("bool", 1 = 1) /\ <<TAG_BOOL, 1>> \in Seq(Nat)
        BY <2>3, Zenon
      <4>2. (1 = 1) = TRUE
        OBVIOUS
      <4> QED BY <4>1, <4>2, Zenon
    <3> QED BY <1>1, <1>7, <2>1, <2>2, <2>4, <3>1, <3>2 DEF Scalar
  <2>5. CASE x.v = FALSE
    <3>1. BoolBytes(x.v) = <<TAG_BOOL, 0>>
      BY <2>5 DEF BoolBytes
    <3>2. deserialize_value(<<TAG_BOOL, 0>>) = Py("bool", FALSE) /\ <<TAG_BOOL, 0>> \in Seq(Nat)
      <4>1. deserialize_value(<<TAG_BOOL, 0>>) = Py("bool", 0 = 1) /\ <<TAG_BOOL, 0>> \in Seq(Nat)
        BY <2>3, Zenon
      <4>2. (0 = 1) = FALSE
        OBVIOUS
      <4> QED BY <4>1, <4>2, Zenon
    <3> QED BY <1>1, <1>7, <2>1, <2>2, <2>5, <3>1, <3>2 DEF Scalar
  <2> QED BY <2>1, <2>4, <2>5
<1>8. CASE x \in Typed({"object"}, Nat)
  <2>1. x.type = "object" /\ Dumps[x] = Raised
    BY <1>8, DumpsProperties DEF Typed
  <2> QED BY <1>8, <2>1 DEF serialize_value
<1> QED BY <1>3, <1>4, <1>5, <1>6, <1>7, <1>8 DEF Leaf, Scalar

(* serialize_value and deserialize_value: what can be serialized comes back, a
   container as the JSON it is. *)
LEMMA ValueRead ==
  ASSUME NEW x \in Value
  PROVE  /\ serialize_value(x) # Raised =>
              /\ serialize_value(x) \in Bytes /\ Wire(x) \in Loadable
              /\ deserialize_value(serialize_value(x)) = Wire(x)
         /\ x \in Json => serialize_value(x) # Raised /\ Wire(x) = x
<1>1. CASE x \in Leaf
  <2>1. Wire(x) = x
    BY <1>1 DEF Wire
  <2>2. x \in Scalar \cup Typed({"bytes"}, Text) => x \in Loadable
    BY LoadableValues DEF Loadable
  <2>3. Raised \notin Bytes
    BY RaisedAssumption
  <2>4. x \in Json => x \notin Typed({"object"}, Nat)
    BY DumpsProperties, LoadableValues
  <2> QED BY <1>1, <2>1, <2>2, <2>3, <2>4, LeafRead
<1>2. CASE x \notin Leaf
  <2>1. x.type \in {"list", "tuple", "dict"}
    BY <1>2, ValueParts DEF Typed
  <2>2. Wire(x) = Dumps[x] /\ Dumps[x] \in Json \cup {Raised}
    BY <1>2, DumpsProperties DEF Wire
  <2>3. serialize_value(x) = IF Dumps[x] = Raised THEN Raised ELSE <<TAG_JSON, Dumps[x]>>
    BY <2>1 DEF serialize_value
  <2>4. ASSUME NEW y \in Json
        PROVE  <<TAG_JSON, y>> \in Bytes /\ deserialize_value(<<TAG_JSON, y>>) = y
    <3>1. <<TAG_JSON, y>> \in Seq(Nat \cup Json)
      BY DEF TAG_JSON
    <3>2. Head(<<TAG_JSON, y>>) = TAG_JSON /\ <<TAG_JSON, y>> # <<>>
          /\ Tail(<<TAG_JSON, y>>) = <<y>> /\ Head(<<y>>) = y
      OBVIOUS
    <3>3. deserialize_value(<<TAG_JSON, y>>) = y
      BY <3>2, ReadCases
    <3> QED BY <3>1, <3>3 DEF Bytes
  <2>5. \A y \in Json : <<TAG_JSON, y>> # Raised
    BY <2>4, RaisedAssumption
  <2>6. x \in Json => Dumps[x] = x /\ x # Raised
    BY DumpsProperties, LoadableValues
  <2> QED BY <2>2, <2>3, <2>4, <2>5, <2>6 DEF Loadable
<1> QED BY <1>1, <1>2

----------------------------------------------------------------------------
(* Metadata. *)

(* The loop of Named, pair by pair. *)
LEMMA NamedSteps ==
  ASSUME NEW s, Len(s) \in Nat
  PROVE  \E f : /\ Named(s) = f[Len(s)] /\ f[0] = <<>>
                /\ \A i \in 1 .. Len(s) : f[i] = IfNamed(f[i - 1], s[i])
<1> DEFINE Step(f, i) == IF i = 0 THEN <<>> ELSE IfNamed(f[i - 1], s[i])
           Is(f, n)   == f = [i \in 0 .. n |-> Step(f, i)]
           Ns         == {n \in Nat : \E f : Is(f, n)}
<1>1. 0 \in Ns
  <2>1. Is([i \in 0 .. 0 |-> <<>>], 0)
    OBVIOUS
  <2> QED BY <2>1
<1>2. ASSUME NEW n \in Nat, n \in Ns PROVE n + 1 \in Ns
  <2>1. PICK f : Is(f, n)
    BY <1>2
  <2> DEFINE g == [i \in 0 .. n + 1 |-> Step(f, i)]
  <2>2. ASSUME NEW i \in 0 .. n + 1 PROVE Step(f, i) = Step(g, i)
    <3>1. CASE i = 0
      BY <3>1
    <3>2. CASE i # 0
      <4>1. i - 1 \in 0 .. n /\ i - 1 \in 0 .. n + 1
        BY <3>2
      <4>2. g[i - 1] = f[i - 1]
        <5> HIDE DEF Step
        <5> QED BY <4>1, <2>1
      <4> HIDE DEF g
      <4> QED BY <3>2, <4>2
    <3> QED BY <3>1, <3>2
  <2>3. Is(g, n + 1)
    <3> HIDE DEF Step
    <3> QED BY <2>2
  <2> HIDE DEF Is, g
  <2> QED BY <2>3
<1> HIDE DEF Ns
<1>3. Len(s) \in Ns
  BY <1>1, <1>2, NumberInduction
<1> DEFINE f == CHOOSE f : Is(f, Len(s))
<1>4. Is(f, Len(s))
  <2>1. \E g : Is(g, Len(s))
    BY <1>3 DEF Ns
  <2> HIDE DEF Is
  <2> QED BY <2>1
<1>5. Named(s) = f[Len(s)]
  BY Zenon DEF Named
<1> HIDE DEF f
<1>6. f[0] = <<>> /\ \A i \in 1 .. Len(s) : f[i] = Step(f, i)
  <2> HIDE DEF Step
  <2>1. \A i \in 0 .. Len(s) : f[i] = Step(f, i)
    BY <1>4
  <2> USE DEF Step
  <2> QED BY <2>1
<1> QED BY <1>5, <1>6

(* One more pair is kept or left out last. *)
LEMMA NamedAppend ==
  ASSUME NEW S, NEW s \in Seq(S), NEW d \in S
  PROVE  /\ Named(<<>>) = <<>>
         /\ Named(Append(s, d)) = IfNamed(Named(s), d)
<1>1. Named(<<>>) = <<>>
  <2>1. Len(<<>>) = 0
    OBVIOUS
  <2> QED BY <2>1, NamedSteps
<1> DEFINE t == Append(s, d)
<1>2. /\ Len(s) \in Nat /\ Len(t) = Len(s) + 1 /\ t[Len(s) + 1] = d
      /\ \A i \in 1 .. Len(s) : t[i] = s[i]
  BY AppendProperties, LenProperties
<1> HIDE DEF t
<1>3. PICK f : /\ Named(s) = f[Len(s)] /\ f[0] = <<>>
               /\ \A i \in 1 .. Len(s) : f[i] = IfNamed(f[i - 1], s[i])
  BY <1>2, NamedSteps
<1>4. Len(t) \in Nat
  BY <1>2
<1>5. PICK g : /\ Named(t) = g[Len(t)] /\ g[0] = <<>>
               /\ \A i \in 1 .. Len(t) : g[i] = IfNamed(g[i - 1], t[i])
  BY <1>4, NamedSteps
<1> DEFINE Ns == {n \in Nat : n <= Len(s) => g[n] = f[n]}
<1>6. 0 \in Ns
  BY <1>3, <1>5
<1>7. ASSUME NEW n \in Nat, n \in Ns PROVE n + 1 \in Ns
  <2> SUFFICES ASSUME n + 1 <= Len(s) PROVE g[n + 1] = f[n + 1]
    OBVIOUS
  <2>1. n + 1 \in 1 .. Len(s) /\ n + 1 \in 1 .. Len(t) /\ n + 1 - 1 = n /\ n <= Len(s)
    BY <1>2
  <2> QED BY <1>2, <1>3, <1>5, <1>7, <2>1
<1> HIDE DEF Ns
<1>8. Len(s) \in Ns
  BY <1>2, <1>6, <1>7, NumberInduction
<1>9. g[Len(s)] = f[Len(s)]
  BY <1>2, <1>8 DEF Ns
<1>10. Len(s) + 1 \in 1 .. Len(t) /\ Len(s) + 1 - 1 = Len(s)
  BY <1>2
<1>11. Named(t) = IfNamed(Named(s), d)
  BY <1>2, <1>3, <1>5, <1>9, <1>10
<1> QED BY <1>1, <1>11 DEF t


(* A message in which every number and length fits. *)
Short(s) == s \in Seq(Field) /\ Len(Message(s)) < Word

(* The parts of a short message are short. *)
LEMMA ShortParts ==
  ASSUME NEW s \in Seq(Field), NEW t \in Seq(Field), Short(s \o t)
  PROVE  Short(s) /\ Short(t)
<1>1. /\ Message(s \o t) = Message(s) \o Message(t)
      /\ Message(s) \in Seq(Nat \cup Json) /\ Message(t) \in Seq(Nat \cup Json)
  BY MessageConcat, MessageBytes DEF Bytes
<1>2. Len(Message(s \o t)) = Len(Message(s)) + Len(Message(t))
      /\ Len(Message(s)) \in Nat /\ Len(Message(t)) \in Nat
  BY <1>1, ConcatProperties, LenProperties
<1>3. Word \in Nat
  BY EncodingsAssumption
<1> QED BY <1>2, <1>3 DEF Short

(* A message of one field. *)
LEMMA MessageOfOne ==
  ASSUME NEW f \in Field
  PROVE  Message(<<f>>) = encode_field(f) /\ <<f>> \in Seq(Field)
<1>1. <<>> \in Seq(Field) /\ Append(<<>>, f) = <<f>>
  BY EmptySeq
<1>2. Message(Append(<<>>, f)) = <<>> \o encode_field(f)
  BY <1>1, MessageAppend DEF WithField
<1>3. <<>> \o encode_field(f) = encode_field(f)
  BY FieldBytes, ConcatEmptySeq DEF Bytes
<1> QED BY <1>1, <1>2, <1>3

(* The payload of a short message fits. *)
LEMMA PayloadFits ==
  ASSUME NEW n \in 0 .. 7, NEW p \in Bytes, Short(<<Delimited(n, p)>>)
  PROVE  Delimited(n, p) \in Fitting
<1> DEFINE f == Delimited(n, p)
<1>1. f \in Field /\ f.wire = LEN /\ f.payload = p /\ f.field = n
  BY DEF Field, Delimited
<1>2. Len(encode_field(f)) < Word /\ Word \in Nat /\ Word >= 64
  BY <1>1, MessageOfOne, EncodingsAssumption DEF Short
<1>3. Len(p) \in Nat /\ Len(p) < Len(encode_field(f)) /\ Len(encode_field(f)) \in Nat
  BY <1>1, FieldBytes
<1> HIDE DEF f
<1>4. Len(p) < Word /\ 8 * n + LEN < Word
  BY <1>2, <1>3 DEF LEN
<1>5. f.wire # VARINT
  BY <1>1 DEF VARINT, LEN
<1> QED BY <1>1, <1>4, <1>5 DEF Fitting, Fits, f

(* parse_string_map_entry reads the pair that was encoded. *)
LEMMA PairRead ==
  ASSUME NEW p \in Text \X Text, Short(<<MapEntry(p)>>), MapEntry(p) \in Field
  PROVE  /\ MapEntry(p) \in Fitting
         /\ parse_string_map_entry(MapEntry(p).payload) = p
<1> DEFINE a == Delimited(1, p[1])
           b == Delimited(2, p[2])
           fs == <<a, b>>
           m == Message(fs)
<1>1. p[1] \in Bytes /\ p[2] \in Bytes /\ p = <<p[1], p[2]>>
  BY NumbersAreBytes DEF Text
<1>2. a \in Field /\ b \in Field /\ <<a>> \in Seq(Field) /\ <<b>> \in Seq(Field) /\ fs \in Seq(Field)
      /\ <<a>> \o <<b>> = fs
  <2>1. a \in Field /\ b \in Field
    BY <1>1 DEF Field, Delimited
  <2> HIDE DEF a, b
  <2>2. <<a>> \in Seq(Field) /\ <<b>> \in Seq(Field) /\ Len(<<a>>) = 1 /\ Len(<<b>>) = 1
        /\ <<a>>[1] = a /\ <<b>>[1] = b
    BY <2>1
  <2>3. fs \in Seq(Field) /\ Len(fs) = 2 /\ fs[1] = a /\ fs[2] = b
    BY <2>1
  <2> DEFINE c == <<a>> \o <<b>>
  <2>4. c \in Seq(Field) /\ Len(c) = 2 /\ c[1] = a /\ c[2] = b
    BY <2>2, ConcatProperties
  <2> HIDE DEF c, fs
  <2>5. c = fs
    BY <2>3, <2>4, SeqEqual
  <2> QED BY <2>1, <2>2, <2>3, <2>5 DEF c
<1>3. MapEntry(p) = Delimited(7, m) /\ MapEntry(p).payload = m
  BY DEF MapEntry, Delimited
<1>4. m \in Bytes /\ Len(m) \in Nat
  BY <1>2, MessageBytes
<1>5. MapEntry(p) \in Fitting
  BY <1>3, <1>4, PayloadFits
<1>6. Len(m) < Word
  BY <1>3, <1>5 DEF Fitting, Fits, Delimited
<1>7. Short(<<a>>) /\ Short(<<b>>)
  <2>1. Short(fs)
    BY <1>2, <1>6 DEF Short
  <2> HIDE DEF a, b, fs
  <2> QED BY <1>2, <2>1, ShortParts
<1>8. a \in Fitting /\ b \in Fitting
  BY <1>1, <1>7, PayloadFits
<1>9. /\ a.wire = LEN /\ a.field = 1 /\ a.payload = p[1] /\ AsRead(a) = a
      /\ b.wire = LEN /\ b.field = 2 /\ b.payload = p[2] /\ AsRead(b) = b
  BY DEF Delimited, AsRead, VARINT, LEN
<1> HIDE DEF a, b
<1>10. fs \in Seq(Fitting) /\ Len(fs) = 2
  BY <1>8
<1>11. Read(fs, 2) = fs
  BY <1>9 DEF Read
<1>12. Fields(m) = fs /\ Fields(m) # Raised
  BY <1>10, <1>11, FieldsRead
<1>13. LastPayload(fs, 1) = p[1] /\ LastPayload(fs, 2) = p[2]
  <2>1. ASSUME NEW n \in {1, 2} PROVE LastPayload(fs, n) = fs[n].payload
    <3> DEFINE at == {i \in DOMAIN fs : fs[i].wire = LEN /\ fs[i].field = n}
    <3>1. at = {n}
      BY <1>9
    <3>2. Max({n}) = n
      BY DEF Max
    <3>3. LastPayload(fs, n) = IF at = {} THEN <<>> ELSE fs[Max(at)].payload
      BY DEF LastPayload
    <3> HIDE DEF at, fs
    <3> QED BY <3>1, <3>2, <3>3
  <2>2. fs[1] = a /\ fs[2] = b
    OBVIOUS
  <2> HIDE DEF fs
  <2> QED BY <1>9, <2>1, <2>2
<1> HIDE DEF fs, m
<1>14. parse_string_map_entry(m) = <<p[1], p[2]>>
  BY <1>12, <1>13 DEF parse_string_map_entry, PairOf
<1> QED BY <1>1, <1>3, <1>5, <1>14

(* An entry, field by field. *)
Made(op, table, key, value, tx, ts, metadata) ==
  [op |-> op, table |-> table, key |-> key, value |-> value, tx |-> tx, ts |-> ts,
   metadata |-> metadata]

(* What TakeField makes of each field. *)
LEMMA TakeCases ==
  ASSUME NEW e, e # Raised, NEW f
  PROVE  /\ f.wire = VARINT /\ f.field = 1 => TakeField(e, f) = [e EXCEPT !.op = f.n]
         /\ f.wire = VARINT /\ f.field = 6 => TakeField(e, f) = [e EXCEPT !.ts = f.n]
         /\ f.wire = VARINT /\ f.field \notin {1, 6} => TakeField(e, f) = e
         /\ f.wire # VARINT /\ f.field = 2 => TakeField(e, f) = [e EXCEPT !.table = f.payload]
         /\ f.wire # VARINT /\ f.field = 3 => TakeField(e, f) = [e EXCEPT !.key = f.payload]
         /\ f.wire # VARINT /\ f.field = 4 =>
              TakeField(e, f) = WithValue(e, deserialize_value(f.payload))
         /\ f.wire # VARINT /\ f.field = 5 => TakeField(e, f) = [e EXCEPT !.tx = f.payload]
         /\ f.wire # VARINT /\ f.field = 7 =>
              TakeField(e, f) = WithMetadata(e, parse_string_map_entry(f.payload))
         /\ f.wire # VARINT /\ f.field \notin {2, 3, 4, 5, 7} => TakeField(e, f) = e
<1>1. f.wire = VARINT => TakeField(e, f) = TakeVarint(e, f)
  BY DEF TakeField
<1>2. f.wire # VARINT => TakeField(e, f) = TakePayload(e, f)
  BY DEF TakeField
<1>3. /\ f.field = 1 => TakeVarint(e, f) = [e EXCEPT !.op = f.n]
      /\ f.field = 6 => TakeVarint(e, f) = [e EXCEPT !.ts = f.n]
      /\ f.field \notin {1, 6} => TakeVarint(e, f) = e
  BY DEF TakeVarint, SkipUnknown
<1>4. /\ f.field = 2 => TakePayload(e, f) = [e EXCEPT !.table = f.payload]
      /\ f.field = 3 => TakePayload(e, f) = [e EXCEPT !.key = f.payload]
      /\ f.field = 4 => TakePayload(e, f) = WithValue(e, deserialize_value(f.payload))
      /\ f.field = 5 => TakePayload(e, f) = [e EXCEPT !.tx = f.payload]
      /\ f.field = 7 => TakePayload(e, f) = WithMetadata(e, parse_string_map_entry(f.payload))
      /\ f.field \notin {2, 3, 4, 5, 7} => TakePayload(e, f) = e
  BY DEF TakePayload, SkipUnknown
<1> QED BY <1>1, <1>2, <1>3, <1>4

(* The fields of the pairs of a dict. *)
MetaFields(s) == [i \in DOMAIN s |-> MapEntry(s[i])]

(* The pairs that fit. *)
FittingPair == {p \in Text \X Text : Short(<<MapEntry(p)>>)}

(* A pair is a field. *)
LEMMA PairIsField ==
  ASSUME NEW p \in Text \X Text
  PROVE  MapEntry(p) \in Field
<1> DEFINE a == Delimited(1, p[1])
           b == Delimited(2, p[2])
<1>1. p[1] \in Bytes /\ p[2] \in Bytes
  BY NumbersAreBytes DEF Text
<1>2. a \in Field /\ b \in Field
  BY <1>1 DEF Field, Delimited
<1>3. MapEntry(p) = Delimited(7, Message(<<a, b>>))
  BY DEF MapEntry
<1> HIDE DEF a, b
<1>4. <<a, b>> \in Seq(Field)
  BY <1>2
<1>5. Message(<<a, b>>) \in Bytes
  BY <1>4, MessageBytes
<1> QED BY <1>3, <1>5 DEF Field, Delimited

(* The field of one pair more. *)
LEMMA MetaFieldsAppend ==
  ASSUME NEW s \in Seq(Text \X Text), NEW p \in Text \X Text
  PROVE  /\ MetaFields(s) \in Seq(Field)
         /\ MetaFields(Append(s, p)) = Append(MetaFields(s), MapEntry(p))
<1>1. /\ DOMAIN s = 1 .. Len(s) /\ Len(s) \in Nat
      /\ \A i \in 1 .. Len(s) : s[i] \in Text \X Text
  BY LenProperties, ElementOfSeq
<1>2. \A q \in Text \X Text : MapEntry(q) \in Field
  BY PairIsField
<1>3. MetaFields(s) \in [1 .. Len(s) -> Field]
  BY <1>1, <1>2 DEF MetaFields
<1>4. MetaFields(s) \in Seq(Field) /\ Len(MetaFields(s)) = Len(s)
  BY <1>1, <1>3, FunctionIsSeq
<1> DEFINE t == Append(s, p)
<1>5. /\ t \in Seq(Text \X Text) /\ Len(t) = Len(s) + 1 /\ t[Len(s) + 1] = p
      /\ \A i \in 1 .. Len(s) : t[i] = s[i]
  BY <1>1, AppendProperties
<1> HIDE DEF t
<1>6. DOMAIN t = 1 .. Len(s) + 1 /\ \A i \in 1 .. Len(t) : t[i] \in Text \X Text
  BY <1>5, LenProperties, ElementOfSeq
<1>7. MetaFields(t) \in [1 .. Len(s) + 1 -> Field]
  BY <1>2, <1>5, <1>6 DEF MetaFields
<1>8. MetaFields(t) \in Seq(Field) /\ Len(MetaFields(t)) = Len(s) + 1
  <2>1. Len(s) + 1 \in Nat
    BY <1>1
  <2> QED BY <1>7, <2>1, FunctionIsSeq
<1>9. MetaFields(t)[Len(s) + 1] = MapEntry(p)
      /\ \A i \in 1 .. Len(s) : MetaFields(t)[i] = MetaFields(s)[i]
  BY <1>1, <1>5, <1>6 DEF MetaFields
<1>10. MapEntry(p) \in Field
  BY <1>2
<1> DEFINE u == MetaFields(t)
           v == MetaFields(s)
<1> HIDE DEF u, v
<1>11. u = Append(v, MapEntry(p))
  BY <1>4, <1>8, <1>9, <1>10, CompleteFrame DEF u, v
<1> QED BY <1>4, <1>11 DEF t, u, v

(* The pairs of a short message fit, each of them. *)
LEMMA PairsFit ==
  ASSUME NEW s \in Seq(Text \X Text), Short(MetaFields(s))
  PROVE  s \in Seq(FittingPair)
<1> DEFINE T == {t \in Seq(Text \X Text) : Short(MetaFields(t)) => t \in Seq(FittingPair)}
<1>1. <<>> \in T
  BY EmptySeq
<1>2. ASSUME NEW t \in Seq(Text \X Text), NEW p \in Text \X Text, t \in T PROVE Append(t, p) \in T
  <2> SUFFICES ASSUME Short(MetaFields(Append(t, p))) PROVE Append(t, p) \in Seq(FittingPair)
    BY AppendProperties
  <2> DEFINE m == MetaFields(t)
             f == MapEntry(p)
  <2>1. m \in Seq(Field) /\ f \in Field /\ Short(Append(m, f))
    BY MetaFieldsAppend, PairIsField
  <2> HIDE DEF m, f
  <2>2. <<f>> \in Seq(Field) /\ Append(m, f) = m \o <<f>>
    <3>1. <<>> \in Seq(Field) /\ Append(<<>>, f) = <<f>> /\ m \o <<>> = m
      BY <2>1, EmptySeq, ConcatEmptySeq
    <3>2. m \o Append(<<>>, f) = Append(m \o <<>>, f)
      BY <2>1, <3>1, AppendRight
    <3>3. <<f>> \in Seq(Field)
      BY <2>1
    <3> QED BY <3>1, <3>2, <3>3
  <2>3. Short(m) /\ Short(<<f>>)
    BY <2>1, <2>2, ShortParts
  <2>4. t \in Seq(FittingPair)
    BY <1>2, <2>3 DEF m
  <2>5. p \in FittingPair
    BY <2>3 DEF f, FittingPair
  <2> QED BY <2>4, <2>5, AppendProperties
<1> HIDE DEF T
<1>3. s \in T
  BY <1>1, <1>2, SequenceInduction
<1> QED BY <1>3 DEF T

(* The fields of pairs that fit, fit. *)
LEMMA MetaFieldsFit ==
  ASSUME NEW s \in Seq(FittingPair)
  PROVE  MetaFields(s) \in Seq(Fitting)
<1>1. DOMAIN s = 1 .. Len(s) /\ Len(s) \in Nat /\ \A i \in 1 .. Len(s) : s[i] \in FittingPair
  BY LenProperties, ElementOfSeq
<1>2. \A p \in FittingPair : MapEntry(p) \in Fitting
  BY PairRead, PairIsField DEF FittingPair
<1>3. MetaFields(s) \in [1 .. Len(s) -> Fitting]
  BY <1>1, <1>2 DEF MetaFields
<1> QED BY <1>1, <1>3, FunctionIsSeq

(* No key twice. *)
Single(s) == \A i, j \in DOMAIN s : s[i][1] = s[j][1] => i = j

(* The pairs that have a key are pairs of the dict. *)
LEMMA NamedIsDict ==
  ASSUME NEW s \in Seq(Text \X Text), Single(s)
  PROVE  /\ Named(s) \in Dict(Text, Text)
         /\ \A i \in DOMAIN Named(s) : \E j \in DOMAIN s : s[j] = Named(s)[i]
<1> DEFINE Good(t) == /\ Named(t) \in Seq(Text \X Text) /\ Single(Named(t))
                      /\ \A i \in DOMAIN Named(t) : \E j \in DOMAIN t : t[j] = Named(t)[i]
           T == {t \in Seq(Text \X Text) : Single(t) => Good(t)}
<1>1. <<>> \in T
  <2>1. Len(<<>>) = 0
    OBVIOUS
  <2>2. Named(<<>>) = <<>>
    BY <2>1, NamedSteps
  <2> QED BY <2>2, EmptySeq DEF Single
<1>2. ASSUME NEW t \in Seq(Text \X Text), NEW p \in Text \X Text, t \in T PROVE Append(t, p) \in T
  <2> DEFINE e == Append(t, p)
             m == Named(t)
  <2>1. /\ e \in Seq(Text \X Text) /\ Len(e) = Len(t) + 1 /\ e[Len(t) + 1] = p /\ Len(t) \in Nat
        /\ \A i \in 1 .. Len(t) : e[i] = t[i]
    BY AppendProperties, LenProperties
  <2>2. DOMAIN t = 1 .. Len(t) /\ DOMAIN e = 1 .. Len(t) + 1
    <3> HIDE DEF e
    <3> QED BY <2>1, LenProperties
  <2>3. Named(e) = IfNamed(m, p)
    BY NamedAppend
  <2> HIDE DEF e, m
  <2> SUFFICES ASSUME Single(e) PROVE Good(e)
    BY <2>1 DEF e
  <2>4. \A i \in DOMAIN t : i \in DOMAIN e /\ e[i] = t[i] /\ i # Len(t) + 1
    BY <2>1, <2>2
  <2>5. Single(t)
    BY <2>4 DEF Single
  <2>6. m \in Seq(Text \X Text) /\ Single(m) /\ \A i \in DOMAIN m : \E j \in DOMAIN t : t[j] = m[i]
    BY <1>2, <2>5 DEF m
  <2>7. Len(t) + 1 \in DOMAIN e
    BY <2>1, <2>2
  <2>8. \A i \in DOMAIN m : m[i][1] # p[1]
    <3> SUFFICES ASSUME NEW i \in DOMAIN m, m[i][1] = p[1] PROVE FALSE
      OBVIOUS
    <3>1. PICK j \in DOMAIN t : t[j] = m[i]
      BY <2>6
    <3>2. j \in DOMAIN e /\ e[j][1] = e[Len(t) + 1][1] /\ j # Len(t) + 1
      BY <2>1, <2>4, <3>1
    <3> QED BY <2>7, <3>2 DEF Single
  <2>9. CASE p[1] = <<>>
    <3>1. Named(e) = m
      BY <2>3, <2>9 DEF IfNamed
    <3>2. \A i \in DOMAIN m : \E j \in DOMAIN e : e[j] = m[i]
      BY <2>4, <2>6
    <3> QED BY <2>6, <3>1, <3>2
  <2>10. CASE p[1] # <<>>
    <3> DEFINE u == Append(m, p)
    <3>1. Named(e) = u
      BY <2>3, <2>10 DEF IfNamed
    <3>2. /\ u \in Seq(Text \X Text) /\ Len(u) = Len(m) + 1 /\ u[Len(m) + 1] = p /\ Len(m) \in Nat
          /\ \A i \in 1 .. Len(m) : u[i] = m[i]
      BY <2>6, AppendProperties, LenProperties
    <3> HIDE DEF u
    <3>3. DOMAIN m = 1 .. Len(m) /\ DOMAIN u = 1 .. Len(m) + 1
      BY <2>6, <3>2, LenProperties
    <3>4. \A i \in DOMAIN u : i \in DOMAIN m \/ i = Len(m) + 1
      BY <3>2, <3>3
    <3>5. Single(u)
      <4> SUFFICES ASSUME NEW i \in DOMAIN u, NEW j \in DOMAIN u, u[i][1] = u[j][1] PROVE i = j
        BY DEF Single
      <4>1. CASE i \in DOMAIN m /\ j \in DOMAIN m
        BY <2>6, <3>2, <3>3, <4>1 DEF Single
      <4>2. CASE i = Len(m) + 1 \/ j = Len(m) + 1
        BY <2>8, <3>2, <3>3, <3>4, <4>2
      <4> QED BY <3>4, <4>1, <4>2
    <3>6. ASSUME NEW i \in DOMAIN u PROVE \E j \in DOMAIN e : e[j] = u[i]
      <4>1. CASE i \in DOMAIN m
        BY <2>4, <2>6, <3>2, <3>3, <4>1
      <4>2. CASE i = Len(m) + 1
        BY <2>1, <2>7, <3>2, <4>2
      <4> QED BY <3>4, <4>1, <4>2
    <3> QED BY <3>1, <3>2, <3>5, <3>6
  <2> QED BY <2>9, <2>10
<1> HIDE DEF T
<1>3. s \in T
  BY <1>1, <1>2, SequenceInduction
<1>4. Good(s)
  BY <1>3 DEF T
<1> QED BY <1>4 DEF Single, Dict

(* Metadata is read pair by pair, those without a key left out. *)
LEMMA MetadataRead ==
  ASSUME NEW op \in Nat, NEW table \in Text, NEW key \in Text, NEW value \in Value,
         NEW tx \in Text, NEW ts \in Int, NEW s \in Seq(FittingPair), Single(s)
  PROVE  Absorbed(Made(op, table, key, value, tx, ts, <<>>), MetaFields(s))
           = Made(op, table, key, value, tx, ts, Named(s))
<1> DEFINE M(m) == Made(op, table, key, value, tx, ts, m)
           T == {t \in Seq(FittingPair) : Single(t) => Absorbed(M(<<>>), MetaFields(t)) = M(Named(t))}
<1>1. <<>> \in T
  <2>1. Len(<<>>) = 0 /\ <<>> \in Seq(FittingPair)
    BY EmptySeq
  <2>2. Named(<<>>) = <<>>
    BY <2>1, NamedSteps
  <2>3. MetaFields(<<>>) = <<>> /\ Read(<<>>, 0) = <<>>
    BY DEF MetaFields, Read
  <2>4. Taken(M(<<>>), <<>>) = M(<<>>)
    <3> HIDE DEF M
    <3> QED BY <2>1, TakenSteps
  <2>5. Absorbed(M(<<>>), <<>>) = M(<<>>)
    BY <2>1, <2>3, <2>4 DEF Absorbed
  <2> HIDE DEF M
  <2> QED BY <2>1, <2>2, <2>3, <2>5
<1>2. ASSUME NEW t \in Seq(FittingPair), NEW p \in FittingPair, t \in T PROVE Append(t, p) \in T
  <2> DEFINE f == MapEntry(p)
             m == MetaFields(t)
             n == Named(t)
  <2>1. FittingPair \subseteq Text \X Text /\ t \in Seq(Text \X Text) /\ p \in Text \X Text
    <3>1. FittingPair \subseteq Text \X Text
      BY DEF FittingPair
    <3>2. /\ Len(t) \in Nat /\ t = [i \in 1 .. Len(t) |-> t[i]]
          /\ \A i \in 1 .. Len(t) : t[i] \in Text \X Text
      BY <3>1, LenProperties, ElementOfSeq
    <3>3. t \in [1 .. Len(t) -> Text \X Text]
      BY <3>2
    <3> QED BY <3>1, <3>2, <3>3, FunctionIsSeq
  <2>2. /\ f \in Fitting /\ m \in Seq(Fitting) /\ parse_string_map_entry(f.payload) = p
        /\ MetaFields(Append(t, p)) = Append(m, f) /\ Named(Append(t, p)) = IfNamed(n, p)
        /\ Append(t, p) \in Seq(FittingPair)
    BY <2>1, PairIsField, PairRead, MetaFieldsFit, MetaFieldsAppend, NamedAppend, AppendProperties
       DEF FittingPair
  <2> SUFFICES ASSUME Single(Append(t, p))
               PROVE  Absorbed(M(<<>>), MetaFields(Append(t, p))) = M(Named(Append(t, p)))
    BY <2>2
  <2>3. Single(t) /\ \A i \in DOMAIN t : t[i][1] # p[1]
    <3> DEFINE e == Append(t, p)
    <3>1. /\ e \in Seq(Text \X Text) /\ Len(e) = Len(t) + 1 /\ e[Len(t) + 1] = p /\ Len(t) \in Nat
          /\ \A i \in 1 .. Len(t) : e[i] = t[i]
      BY <2>1, AppendProperties, LenProperties
    <3>2. Single(e)
      OBVIOUS
    <3> HIDE DEF e
    <3>3. DOMAIN t = 1 .. Len(t) /\ DOMAIN e = 1 .. Len(t) + 1
      BY <3>1, LenProperties
    <3>4. /\ \A i \in DOMAIN t : i \in DOMAIN e /\ e[i] = t[i] /\ i # Len(t) + 1
          /\ Len(t) + 1 \in DOMAIN e
      BY <3>1, <3>3
    <3>5. Single(t)
      BY <3>2, <3>4 DEF Single
    <3>6. \A i \in DOMAIN t : t[i][1] # p[1]
      BY <3>1, <3>2, <3>4 DEF Single
    <3> QED BY <3>5, <3>6
  <2>4. n \in Dict(Text, Text) /\ \A i \in DOMAIN n : n[i][1] # p[1]
    BY <2>1, <2>3, NamedIsDict
  <2>5. Absorbed(M(<<>>), m) = M(n)
    BY <1>2, <2>3
  <2>6. M(n) # Raised
    <3>1. M(n) \in Entry
      BY <2>4 DEF Made, Entry
    <3> HIDE DEF M
    <3> QED BY <3>1, RaisedAssumption
  <2>7. f.wire # VARINT /\ f.field = 7 /\ AsRead(f) = f
    BY DEF MapEntry, Delimited, VARINT, LEN, AsRead
  <2> HIDE DEF f, m, n, M
  <2>8. Absorbed(M(<<>>), Append(m, f)) = TakeField(M(n), f)
    BY <2>2, <2>5, <2>7, AbsorbedAppend
  <2>9. TakeField(M(n), f) = WithMetadata(M(n), p)
    BY <2>2, <2>6, <2>7, TakeCases
  <2>10. p # Raised
    BY <2>1, RaisedAssumption
  <2>11. WithMetadata(M(n), p) = M(IfNamed(n, p))
    <3>1. CASE p[1] = <<>>
      BY <2>10, <3>1 DEF WithMetadata, IfNamed
    <3>2. CASE p[1] # <<>>
      <4>1. WithMetadata(M(n), p) = [M(n) EXCEPT !.metadata = WithPair(M(n).metadata, p)]
        BY <2>10, <3>2 DEF WithMetadata
      <4>2. M(n).metadata = n /\ IfNamed(n, p) = Append(n, p)
        BY <3>2 DEF M, Made, IfNamed
      <4>3. WithPair(n, p) = Append(n, p)
        BY <2>4 DEF WithPair
      <4>4. \A x : [M(n) EXCEPT !.metadata = x] = M(x)
        BY DEF M, Made
      <4> QED BY <4>1, <4>2, <4>3, <4>4
    <3> QED BY <3>1, <3>2
  <2> QED BY <2>2, <2>8, <2>9, <2>11
<1> HIDE DEF T
<1>3. s \in T
  BY <1>1, <1>2, SequenceInduction
<1> QED BY <1>3 DEF T

----------------------------------------------------------------------------
(* WAL entries. *)

(* The parts of an entry's message, field by field. *)
OpPart(e)       == Unless(e.op = 0, Varint(1, e.op))
TablePart(e)    == Unless(e.table = <<>>, Delimited(2, e.table))
KeyPart(e)      == Unless(e.key = <<>>, Delimited(3, e.key))
ValuePart(e)    == Unless(e.value = Nil, Delimited(4, serialize_value(e.value)))
TxPart(e)       == Unless(e.tx = <<>>, Delimited(5, e.tx))
TsPart(e)       == Unless(e.ts = 0, Varint(6, e.ts))

(* A field that may be left out. *)
LEMMA UnlessField ==
  ASSUME NEW default \in BOOLEAN, NEW f \in Field
  PROVE  Unless(default, f) \in Seq(Field)
BY EmptySeq DEF Unless

(* It is read unless it was left out. *)
LEMMA UnlessRead ==
  ASSUME NEW default \in BOOLEAN, NEW f, default \/ f \in Fitting, NEW e
  PROVE  /\ Unless(default, f) \in Seq(Fitting)
         /\ Absorbed(e, Unless(default, f)) = IF default THEN e ELSE TakeField(e, AsRead(f))
<1>1. CASE default
  <2>1. Len(<<>>) = 0 /\ <<>> \in Seq(Fitting)
    BY EmptySeq
  <2>2. Read(<<>>, 0) = <<>>
    BY DEF Read
  <2>3. Taken(e, <<>>) = e
    BY <2>1, TakenSteps
  <2>4. Absorbed(e, <<>>) = e
    BY <2>1, <2>2, <2>3 DEF Absorbed
  <2> QED BY <1>1, <2>1, <2>4 DEF Unless
<1>2. CASE ~default
  BY <1>2, AbsorbedSingle DEF Unless
<1> QED BY <1>1, <1>2

(* The fields of an entry are fields, and fit: what has bytes has an entry. *)
LEMMA EntryParts ==
  ASSUME NEW e \in Entries, serialize_value(e.value) # Raised
  PROVE  /\ e \in Entry /\ e.op = OP_WRITE /\ -Word < e.ts /\ e.ts < Word
         /\ encode_wal_entry(e) = Message(wal_fields(e)) /\ encode_wal_entry(e) \in Bytes
         /\ encode_wal_entry(e) # Raised /\ wal_fields(e) \in Seq(Fitting)
         /\ OpPart(e) \in Seq(Fitting)
         /\ e.table = <<>> \/ Delimited(2, e.table) \in Fitting
         /\ e.key = <<>> \/ Delimited(3, e.key) \in Fitting
         /\ e.value = Nil \/ Delimited(4, serialize_value(e.value)) \in Fitting
         /\ e.tx = <<>> \/ Delimited(5, e.tx) \in Fitting
         /\ Varint(6, e.ts) \in Fitting /\ Varint(1, e.op) \in Fitting
         /\ e.metadata \in Seq(FittingPair) /\ Single(e.metadata)
<1>1. /\ e \in Entry /\ e.op = OP_WRITE /\ -Word < e.ts /\ e.ts < Word
      /\ encode_wal_entry(e) = Message(wal_fields(e))
  BY EntriesAssumption DEF encode_wal_entry
<1>2. /\ e.op \in Nat /\ e.ts \in Int /\ e.table \in Bytes /\ e.key \in Bytes /\ e.tx \in Bytes
      /\ e.value \in Value /\ e.metadata \in Seq(Text \X Text) /\ Single(e.metadata)
  BY <1>1, NumbersAreBytes DEF Entry, Text, Dict, Single
<1>3. serialize_value(e.value) \in Bytes
  BY <1>1, <1>2, ValueRead
<1>4. Varint(1, e.op) \in Fitting /\ Varint(6, e.ts) \in Fitting
  <2>1. Word \in Nat /\ Word >= 64
    BY EncodingsAssumption
  <2>2. \A f \in {1, 6}, n \in Int : -Word < n /\ n < Word => Varint(f, n) \in Fitting
    BY <2>1 DEF Varint, Field, Fitting, Fits, VARINT, LEN
  <2>3. -Word < e.op /\ e.op < Word
    BY <1>1, <2>1 DEF OP_WRITE
  <2> QED BY <1>1, <1>2, <2>2, <2>3
<1>5. \A n \in 0 .. 7, p \in Bytes : Delimited(n, p) \in Field
  BY DEF Delimited, Field
<1> DEFINE A == OpPart(e)
           B == TablePart(e)
           C == KeyPart(e)
           D == ValuePart(e)
           E == TxPart(e)
           F == TsPart(e)
           G == MetaFields(e.metadata)
<1>6. wal_fields(e) = A \o B \o C \o D \o E \o F \o G
  BY DEF wal_fields, OpPart, TablePart, KeyPart, ValuePart, TxPart, TsPart, MetaFields
<1>7. A \in Seq(Field) /\ F \in Seq(Field)
  BY <1>4, UnlessField DEF OpPart, TsPart, Fitting
<1>8. B \in Seq(Field) /\ C \in Seq(Field) /\ D \in Seq(Field) /\ E \in Seq(Field)
  <2>1. \A n \in 0 .. 7, p \in Bytes : /\ <<>> \in Seq(Field)
                                       /\ <<Delimited(n, p)>> \in Seq(Field)
    BY <1>5, EmptySeq
  <2>2. B \in {<<>>, <<Delimited(2, e.table)>>} /\ C \in {<<>>, <<Delimited(3, e.key)>>}
    BY DEF TablePart, KeyPart, Unless
  <2>3. /\ D \in {<<>>, <<Delimited(4, serialize_value(e.value))>>}
        /\ E \in {<<>>, <<Delimited(5, e.tx)>>}
    BY DEF ValuePart, TxPart, Unless
  <2> HIDE DEF B, C, D, E
  <2>4. <<Delimited(2, e.table)>> \in Seq(Field) /\ <<Delimited(3, e.key)>> \in Seq(Field)
    BY <1>2, <2>1
  <2>5. /\ <<Delimited(4, serialize_value(e.value))>> \in Seq(Field)
        /\ <<Delimited(5, e.tx)>> \in Seq(Field)
    BY <1>2, <1>3, <2>1
  <2>6. <<>> \in Seq(Field)
    BY EmptySeq
  <2> QED BY <2>2, <2>3, <2>4, <2>5, <2>6
<1>9. G \in Seq(Field)
  <2>1. <<<<>>, <<>>>> \in Text \X Text
    BY EmptySeq DEF Text
  <2> QED BY <1>2, <2>1, MetaFieldsAppend
<1> HIDE DEF A, B, C, D, E, F, G
<1>10. A \o B \o C \o D \o E \o F \o G \in Seq(Field) /\ Short(A \o B \o C \o D \o E \o F \o G)
  <2>1. A \o B \o C \o D \o E \o F \o G \in Seq(Field)
    BY <1>7, <1>8, <1>9, ConcatProperties
  <2>2. encode_wal_entry(e) \in Bytes /\ encode_wal_entry(e) # Raised
    BY <1>1, <1>6, <2>1, MessageBytes, RaisedAssumption
  <2>3. Len(encode_wal_entry(e)) < Word
    BY <2>2, EntriesAssumption
  <2> QED BY <1>1, <1>6, <2>1, <2>3 DEF Short
<1>11. Short(B) /\ Short(C) /\ Short(D) /\ Short(E) /\ Short(G)
  <2>1. /\ A \o B \in Seq(Field) /\ A \o B \o C \in Seq(Field) /\ A \o B \o C \o D \in Seq(Field)
        /\ A \o B \o C \o D \o E \in Seq(Field) /\ A \o B \o C \o D \o E \o F \in Seq(Field)
    BY <1>7, <1>8, ConcatProperties
  <2>2. Short(A \o B \o C \o D \o E \o F) /\ Short(G)
    BY <1>9, <1>10, <2>1, ShortParts
  <2>3. Short(A \o B \o C \o D \o E)
    BY <1>7, <2>1, <2>2, ShortParts
  <2>4. Short(A \o B \o C \o D) /\ Short(E)
    BY <1>8, <2>1, <2>3, ShortParts
  <2>5. Short(A \o B \o C) /\ Short(D)
    BY <1>8, <2>1, <2>4, ShortParts
  <2>6. Short(A \o B) /\ Short(C)
    BY <1>8, <2>1, <2>5, ShortParts
  <2>7. Short(B)
    BY <1>7, <1>8, <2>6, ShortParts
  <2> QED BY <2>2, <2>4, <2>5, <2>6, <2>7
<1>12. ASSUME NEW n \in 0 .. 7, NEW p \in Bytes, Short(<<Delimited(n, p)>>)
       PROVE  Delimited(n, p) \in Fitting
  BY <1>12, PayloadFits
<1>13. /\ e.table = <<>> \/ Delimited(2, e.table) \in Fitting
       /\ e.key = <<>> \/ Delimited(3, e.key) \in Fitting
       /\ e.tx = <<>> \/ Delimited(5, e.tx) \in Fitting
  <2>1. /\ e.table # <<>> => Short(<<Delimited(2, e.table)>>)
        /\ e.key # <<>> => Short(<<Delimited(3, e.key)>>)
        /\ e.tx # <<>> => Short(<<Delimited(5, e.tx)>>)
    BY <1>11 DEF B, C, E, TablePart, KeyPart, TxPart, Unless
  <2> QED BY <1>2, <1>12, <2>1
<1>14. e.value = Nil \/ Delimited(4, serialize_value(e.value)) \in Fitting
  <2>1. e.value # Nil => Short(<<Delimited(4, serialize_value(e.value))>>)
    BY <1>11 DEF D, ValuePart, Unless
  <2> QED BY <1>3, <1>12, <2>1
<1>15. e.metadata \in Seq(FittingPair) /\ G \in Seq(Fitting)
  BY <1>2, <1>11, PairsFit, MetaFieldsFit DEF G
<1>16. A \in Seq(Fitting) /\ F \in Seq(Fitting)
  BY <1>4, UnlessRead DEF A, F, OpPart, TsPart
<1>17. B \in Seq(Fitting) /\ C \in Seq(Fitting) /\ D \in Seq(Fitting) /\ E \in Seq(Fitting)
  BY <1>13, <1>14, UnlessRead DEF B, C, D, E, TablePart, KeyPart, ValuePart, TxPart
<1>18. A \o B \o C \o D \o E \o F \o G \in Seq(Fitting)
  BY <1>15, <1>16, <1>17, ConcatProperties
<1>19. encode_wal_entry(e) \in Bytes /\ encode_wal_entry(e) # Raised
  BY <1>1, <1>6, <1>10, MessageBytes, RaisedAssumption
<1> QED BY <1>1, <1>2, <1>4, <1>6, <1>19, <1>13, <1>14, <1>15, <1>16, <1>18 DEF A

(* One part more is read. *)
LEMMA AbsorbedNext ==
  ASSUME NEW e, NEW s \in Seq(Fitting), NEW r, Absorbed(e, s) = r,
         NEW t \in Seq(Fitting), NEW q, Absorbed(r, t) = q
  PROVE  s \o t \in Seq(Fitting) /\ Absorbed(e, s \o t) = q
BY AbsorbedConcat

(* What the log gives back of an entry. *)
LEMMA EntryRead ==
  ASSUME NEW e \in Entries, serialize_value(e.value) # Raised
  PROVE  /\ Absorbed(NoEntry, wal_fields(e))
              = Made(e.op, e.table, e.key, Wire(e.value), e.tx, Unsigned(e.ts), Named(e.metadata))
         /\ Absorbed(NoEntry, wal_fields(e)) \in Entry
<1>1. /\ e.op \in Nat /\ e.ts \in Int /\ e.table \in Text /\ e.key \in Text /\ e.tx \in Text
      /\ e.value \in Value /\ e.metadata \in Seq(FittingPair) /\ Single(e.metadata)
      /\ e.metadata \in Seq(Text \X Text) /\ serialize_value(e.value) # Raised
  BY EntryParts DEF Entry, Dict
<1>2. /\ Wire(e.value) \in Value /\ deserialize_value(serialize_value(e.value)) = Wire(e.value)
      /\ Wire(Nil) = Nil /\ Nil \in Value
  <2>1. Wire(Nil) = Nil /\ Nil \in Value
    BY LoadableValues DEF Wire, Leaf, Scalar
  <2> QED BY <1>1, <2>1, ValueRead, LoadableValues
<1>3. Unsigned(e.ts) \in Nat /\ Unsigned(0) = 0 /\ Unsigned(e.op) = e.op
  BY <1>1, UnsignedNumber DEF Unsigned
<1>4. <<>> \in Text /\ 0 \in Nat /\ 0 \in Int /\ Unsigned(e.ts) \in Int /\ <<>> \in Dict(Text, Text)
  BY <1>3, EmptySeq DEF Text, Dict
<1> DEFINE A == OpPart(e)
           B == TablePart(e)
           C == KeyPart(e)
           D == ValuePart(e)
           E == TxPart(e)
           F == TsPart(e)
           G == MetaFields(e.metadata)
           w == Wire(e.value)
           u == Unsigned(e.ts)
           s == serialize_value(e.value)
<1>5. ASSUME NEW op \in Nat, NEW table \in Text, NEW key \in Text, NEW value \in Value, NEW tx \in Text,
             NEW ts \in Int
      PROVE  Made(op, table, key, value, tx, ts, <<>>) # Raised
  <2>1. Made(op, table, key, value, tx, ts, <<>>) \in Entry
    BY <1>4 DEF Made, Entry
  <2> QED BY <2>1, RaisedAssumption
<1>6. NoEntry = Made(0, <<>>, <<>>, Nil, <<>>, 0, <<>>)
  BY DEF NoEntry, Made
<1>7. A \in Seq(Fitting) /\ Absorbed(NoEntry, A) = Made(e.op, <<>>, <<>>, Nil, <<>>, 0, <<>>)
  <2> DEFINE r == Made(0, <<>>, <<>>, Nil, <<>>, 0, <<>>)
             f == Varint(1, e.op)
  <2>1. r # Raised
    BY <1>2, <1>4, <1>5
  <2>2. AsRead(f) = f /\ f.wire = VARINT /\ f.field = 1 /\ f.n = e.op
    BY <1>3 DEF AsRead, Varint
  <2>3. A \in Seq(Fitting) /\ Absorbed(r, A) = IF e.op = 0 THEN r ELSE TakeField(r, AsRead(f))
    BY EntryParts, UnlessRead DEF OpPart
  <2>4. TakeField(r, f) = [r EXCEPT !.op = e.op]
    <3> HIDE DEF r, f
    <3> QED BY <2>1, <2>2, TakeCases
  <2>5. [r EXCEPT !.op = e.op] = Made(e.op, <<>>, <<>>, Nil, <<>>, 0, <<>>)
    BY DEF Made
  <2> HIDE DEF r, f, A
  <2> QED BY <1>6, <2>2, <2>3, <2>4, <2>5 DEF r
<1>8. /\ B \in Seq(Fitting)
      /\ Absorbed(Made(e.op, <<>>, <<>>, Nil, <<>>, 0, <<>>), B)
           = Made(e.op, e.table, <<>>, Nil, <<>>, 0, <<>>)
  <2> DEFINE r == Made(e.op, <<>>, <<>>, Nil, <<>>, 0, <<>>)
             f == Delimited(2, e.table)
  <2>1. r # Raised
    BY <1>1, <1>2, <1>4, <1>5
  <2>2. AsRead(f) = f /\ f.wire # VARINT /\ f.field = 2 /\ f.payload = e.table
    BY DEF AsRead, Delimited, VARINT, LEN
  <2>3. B \in Seq(Fitting) /\ Absorbed(r, B) = IF e.table = <<>> THEN r ELSE TakeField(r, AsRead(f))
    BY EntryParts, UnlessRead DEF TablePart
  <2>4. TakeField(r, f) = [r EXCEPT !.table = e.table]
    <3> HIDE DEF r, f
    <3> QED BY <2>1, <2>2, TakeCases
  <2>5. [r EXCEPT !.table = e.table] = Made(e.op, e.table, <<>>, Nil, <<>>, 0, <<>>)
    BY DEF Made
  <2> HIDE DEF r, f, B
  <2> QED BY <2>2, <2>3, <2>4, <2>5 DEF r
<1>9. /\ C \in Seq(Fitting)
      /\ Absorbed(Made(e.op, e.table, <<>>, Nil, <<>>, 0, <<>>), C)
           = Made(e.op, e.table, e.key, Nil, <<>>, 0, <<>>)
  <2> DEFINE r == Made(e.op, e.table, <<>>, Nil, <<>>, 0, <<>>)
             f == Delimited(3, e.key)
  <2>1. r # Raised
    BY <1>1, <1>2, <1>4, <1>5
  <2>2. AsRead(f) = f /\ f.wire # VARINT /\ f.field = 3 /\ f.payload = e.key
    BY DEF AsRead, Delimited, VARINT, LEN
  <2>3. C \in Seq(Fitting) /\ Absorbed(r, C) = IF e.key = <<>> THEN r ELSE TakeField(r, AsRead(f))
    BY EntryParts, UnlessRead DEF KeyPart
  <2>4. TakeField(r, f) = [r EXCEPT !.key = e.key]
    <3> HIDE DEF r, f
    <3> QED BY <2>1, <2>2, TakeCases
  <2>5. [r EXCEPT !.key = e.key] = Made(e.op, e.table, e.key, Nil, <<>>, 0, <<>>)
    BY DEF Made
  <2> HIDE DEF r, f, C
  <2> QED BY <2>2, <2>3, <2>4, <2>5 DEF r
<1>10. /\ D \in Seq(Fitting)
       /\ Absorbed(Made(e.op, e.table, e.key, Nil, <<>>, 0, <<>>), D)
            = Made(e.op, e.table, e.key, w, <<>>, 0, <<>>)
  <2> DEFINE r == Made(e.op, e.table, e.key, Nil, <<>>, 0, <<>>)
             f == Delimited(4, s)
  <2>1. r # Raised
    BY <1>1, <1>2, <1>4, <1>5
  <2>2. AsRead(f) = f /\ f.wire # VARINT /\ f.field = 4 /\ f.payload = s
    BY DEF AsRead, Delimited, VARINT, LEN
  <2>3. D \in Seq(Fitting) /\ Absorbed(r, D) = IF e.value = Nil THEN r ELSE TakeField(r, AsRead(f))
    BY EntryParts, UnlessRead DEF ValuePart
  <2>4. w # Raised /\ deserialize_value(s) = w
    BY <1>2, RaisedAssumption
  <2>5. TakeField(r, f) = [r EXCEPT !.value = w]
    <3> HIDE DEF r, f, s, w
    <3>1. TakeField(r, f) = WithValue(r, deserialize_value(s))
      BY <2>1, <2>2, TakeCases
    <3> QED BY <2>4, <3>1 DEF WithValue
  <2>6. [r EXCEPT !.value = w] = Made(e.op, e.table, e.key, w, <<>>, 0, <<>>)
    BY DEF Made
  <2>7. e.value = Nil => w = Nil
    BY <1>2
  <2> HIDE DEF r, f, D, w
  <2> QED BY <2>2, <2>3, <2>5, <2>6, <2>7 DEF r
<1>11. /\ E \in Seq(Fitting)
       /\ Absorbed(Made(e.op, e.table, e.key, w, <<>>, 0, <<>>), E)
            = Made(e.op, e.table, e.key, w, e.tx, 0, <<>>)
  <2> DEFINE r == Made(e.op, e.table, e.key, w, <<>>, 0, <<>>)
             f == Delimited(5, e.tx)
  <2>1. r # Raised
    BY <1>1, <1>2, <1>4, <1>5
  <2>2. AsRead(f) = f /\ f.wire # VARINT /\ f.field = 5 /\ f.payload = e.tx
    BY DEF AsRead, Delimited, VARINT, LEN
  <2>3. E \in Seq(Fitting) /\ Absorbed(r, E) = IF e.tx = <<>> THEN r ELSE TakeField(r, AsRead(f))
    BY EntryParts, UnlessRead DEF TxPart
  <2>4. TakeField(r, f) = [r EXCEPT !.tx = e.tx]
    <3> HIDE DEF r, f
    <3> QED BY <2>1, <2>2, TakeCases
  <2>5. [r EXCEPT !.tx = e.tx] = Made(e.op, e.table, e.key, w, e.tx, 0, <<>>)
    BY DEF Made
  <2> HIDE DEF r, f, E
  <2> QED BY <2>2, <2>3, <2>4, <2>5 DEF r
<1>12. /\ F \in Seq(Fitting)
       /\ Absorbed(Made(e.op, e.table, e.key, w, e.tx, 0, <<>>), F)
            = Made(e.op, e.table, e.key, w, e.tx, u, <<>>)
  <2> DEFINE r == Made(e.op, e.table, e.key, w, e.tx, 0, <<>>)
             f == Varint(6, e.ts)
             g == Varint(6, u)
  <2>1. r # Raised
    BY <1>1, <1>2, <1>4, <1>5
  <2>2. AsRead(f) = g /\ g.wire = VARINT /\ g.field = 6 /\ g.n = u
    BY DEF AsRead, Varint
  <2>3. F \in Seq(Fitting) /\ Absorbed(r, F) = IF e.ts = 0 THEN r ELSE TakeField(r, AsRead(f))
    BY EntryParts, UnlessRead DEF TsPart
  <2>4. TakeField(r, g) = [r EXCEPT !.ts = u]
    <3> HIDE DEF r, g
    <3> QED BY <2>1, <2>2, TakeCases
  <2>5. [r EXCEPT !.ts = u] = Made(e.op, e.table, e.key, w, e.tx, u, <<>>)
    BY DEF Made
  <2>6. e.ts = 0 => u = 0
    BY <1>3
  <2> HIDE DEF r, f, g, F, u
  <2> QED BY <2>2, <2>3, <2>4, <2>5, <2>6 DEF r
<1>13. /\ G \in Seq(Fitting)
       /\ Absorbed(Made(e.op, e.table, e.key, w, e.tx, u, <<>>), G)
            = Made(e.op, e.table, e.key, w, e.tx, u, Named(e.metadata))
  BY <1>1, <1>2, <1>4, MetadataRead, MetaFieldsFit
<1>14. wal_fields(e) = A \o B \o C \o D \o E \o F \o G
  BY DEF wal_fields, OpPart, TablePart, KeyPart, ValuePart, TxPart, TsPart, MetaFields
<1>15. Made(e.op, e.table, e.key, w, e.tx, u, Named(e.metadata)) \in Entry
  BY <1>1, <1>2, <1>4, NamedIsDict DEF Made, Entry
<1> DEFINE mA == Made(e.op, <<>>, <<>>, Nil, <<>>, 0, <<>>)
           mB == Made(e.op, e.table, <<>>, Nil, <<>>, 0, <<>>)
           mC == Made(e.op, e.table, e.key, Nil, <<>>, 0, <<>>)
           mD == Made(e.op, e.table, e.key, w, <<>>, 0, <<>>)
           mE == Made(e.op, e.table, e.key, w, e.tx, 0, <<>>)
           mF == Made(e.op, e.table, e.key, w, e.tx, u, <<>>)
           mG == Made(e.op, e.table, e.key, w, e.tx, u, Named(e.metadata))
           sB == A \o B
           sC == sB \o C
           sD == sC \o D
           sE == sD \o E
           sF == sE \o F
           sG == sF \o G
<1> HIDE DEF A, B, C, D, E, F, G, mA, mB, mC, mD, mE, mF, mG
<1>16. sB \in Seq(Fitting) /\ Absorbed(NoEntry, sB) = mB
  BY <1>7, <1>8, AbsorbedNext DEF mA, mB
<1> HIDE DEF sB
<1>17. sC \in Seq(Fitting) /\ Absorbed(NoEntry, sC) = mC
  BY <1>9, <1>16, AbsorbedNext DEF mB, mC
<1> HIDE DEF sC
<1>18. sD \in Seq(Fitting) /\ Absorbed(NoEntry, sD) = mD
  BY <1>10, <1>17, AbsorbedNext DEF mC, mD
<1> HIDE DEF sD
<1>19. sE \in Seq(Fitting) /\ Absorbed(NoEntry, sE) = mE
  BY <1>11, <1>18, AbsorbedNext DEF mD, mE
<1> HIDE DEF sE
<1>20. sF \in Seq(Fitting) /\ Absorbed(NoEntry, sF) = mF
  BY <1>12, <1>19, AbsorbedNext DEF mE, mF
<1> HIDE DEF sF
<1>21. Absorbed(NoEntry, sG) = mG
  BY <1>13, <1>20, AbsorbedNext DEF mF, mG
<1> QED BY <1>14, <1>15, <1>21 DEF mG, sB, sC, sD, sE, sF

(* The entry that is read is the entry that was written, its container as JSON,
   its timestamp unsigned. *)
LEMMA MadeAsLogged ==
  ASSUME NEW e \in Entry, -Word < e.ts, e.ts < Word,
         Made(e.op, e.table, e.key, Wire(e.value), e.tx, Unsigned(e.ts), Named(e.metadata)) # Raised
  PROVE  Stamped(Made(e.op, e.table, e.key, Wire(e.value), e.tx, Unsigned(e.ts), Named(e.metadata)))
           = AsLogged(e)
<1> DEFINE w == Wire(e.value)
           u == Unsigned(e.ts)
           m == Named(e.metadata)
           v == e.ts % Word
           r == Made(e.op, e.table, e.key, w, e.tx, u, m)
<1>1. e.ts \in Int /\ Word \in Nat /\ Word >= 64
  BY EncodingsAssumption DEF Entry
<1>2. u = v /\ (u = 0 <=> e.ts = 0)
  <2>1. e.ts >= 0 => u = e.ts /\ v = e.ts
    BY <1>1 DEF Unsigned
  <2>2. e.ts < 0 => u = v /\ v = e.ts + Word
    BY <1>1 DEF Unsigned
  <2> HIDE DEF u, v
  <2> QED BY <1>1, <2>1, <2>2
<1>3. AsLogged(e) = [e EXCEPT !.value = w, !.ts = IF e.ts = 0 THEN Now ELSE v, !.metadata = m]
  BY DEF AsLogged, Wire
<1>4. Stamped(r) = IF u = 0 THEN [r EXCEPT !.ts = Now] ELSE r
  BY DEF Stamped, Made
<1>5. e = Made(e.op, e.table, e.key, e.value, e.tx, e.ts, e.metadata)
  BY DEF Entry, Made
<1> HIDE DEF w, u, m, v
<1>6. AsLogged(e) = Made(e.op, e.table, e.key, w, e.tx, IF e.ts = 0 THEN Now ELSE v, m)
  BY <1>3 DEF Made, Entry
<1>7. Stamped(r) = Made(e.op, e.table, e.key, w, e.tx, IF u = 0 THEN Now ELSE u, m)
  BY <1>4 DEF Made
<1> QED BY <1>2, <1>6, <1>7 DEF r, w, u, m

(* An entry that has bytes comes back from them, as the log should give it back. *)
THEOREM EntryRoundTrip ==
  ASSUME NEW e \in Entries, serialize_value(e.value) # Raised
  PROVE  /\ decode_wal_entry(encode_wal_entry(e)) = AsLogged(e)
         /\ AsLogged(e) \in Entry /\ AsLogged(e) # Raised
<1> DEFINE r == Made(e.op, e.table, e.key, Wire(e.value), e.tx, Unsigned(e.ts), Named(e.metadata))
<1>1. Absorbed(NoEntry, wal_fields(e)) = r /\ r \in Entry /\ r # Raised
  BY EntryRead, RaisedAssumption
<1>2. e \in Entry /\ -Word < e.ts /\ e.ts < Word
  BY EntryParts
<1>3. Stamped(r) = AsLogged(e)
  BY <1>1, <1>2, MadeAsLogged
<1>4. decode_wal_entry(encode_wal_entry(e)) = Stamped(r)
  BY <1>1, EntryParts, MessageDecoded
<1>5. Stamped(r) \in Entry
  <2>1. Now \in Int /\ Now \in Nat
    BY EncodingsAssumption
  <2> HIDE DEF r
  <2> QED BY <1>1, <2>1 DEF Stamped, Entry
<1> QED BY <1>3, <1>4, <1>5, RaisedAssumption

(* An unknown field is skipped. *)
LEMMA UnknownSkipped ==
  ASSUME NEW u \in Unknown, NEW e, e # Raised
  PROVE  u \in Fitting /\ TakeField(e, AsRead(u)) = e
<1>1. /\ Fits(u) /\ u \in Fitting
      /\ u.wire = VARINT => u.field \notin {1, 6}
      /\ u.wire = LEN => u.field \notin {2, 3, 4, 5, 7}
  BY UnknownAssumption DEF Fits, Fitting
<1>2. u.wire \in {VARINT, LEN} /\ AsRead(u).wire = u.wire /\ AsRead(u).field = u.field
  BY <1>1, FieldKinds DEF AsRead, Varint
<1>3. VARINT # LEN
  BY DEF VARINT, LEN
<1> QED BY <1>1, <1>2, <1>3, TakeCases

(* Unknown fields around an entry change nothing. *)
LEMMA UnknownAround ==
  ASSUME NEW e \in Entries, serialize_value(e.value) # Raised, NEW u \in Unknown
  PROVE  /\ decode_wal_entry(encode_field(u) \o encode_wal_entry(e))
              = decode_wal_entry(encode_wal_entry(e))
         /\ decode_wal_entry(encode_wal_entry(e) \o encode_field(u))
              = decode_wal_entry(encode_wal_entry(e))
<1> DEFINE fs == wal_fields(e)
           us == <<u>>
<1>1. fs \in Seq(Fitting) /\ encode_wal_entry(e) = Message(fs)
  BY EntryParts
<1>2. /\ Absorbed(NoEntry, fs) # Raised /\ NoEntry # Raised
  <2>1. Absorbed(NoEntry, fs) \in Entry
    BY EntryRead
  <2>2. NoEntry \in Entry
    <3>1. Nil \in Value /\ <<>> \in Text /\ <<>> \in Dict(Text, Text)
      BY LoadableValues, EmptySeq DEF Leaf, Scalar, Text, Dict
    <3> QED BY <3>1 DEF NoEntry, Entry
  <2> QED BY <2>1, <2>2, RaisedAssumption
<1>3. u \in Fitting
  BY <1>2, UnknownSkipped
<1> HIDE DEF fs
<1>4. /\ us \in Seq(Fitting) /\ Absorbed(NoEntry, us) = NoEntry
      /\ Absorbed(Absorbed(NoEntry, fs), us) = Absorbed(NoEntry, fs)
  BY <1>2, <1>3, AbsorbedSingle, UnknownSkipped
<1>5. Message(us) = encode_field(u)
  BY <1>3, MessageOfOne DEF Fitting
<1> HIDE DEF us
<1>6. /\ Message(us \o fs) = Message(us) \o Message(fs)
      /\ Message(fs \o us) = Message(fs) \o Message(us)
  BY <1>1, <1>4, FittingFields, MessageConcat
<1>7. /\ Absorbed(NoEntry, us \o fs) = Absorbed(NoEntry, fs)
      /\ Absorbed(NoEntry, fs \o us) = Absorbed(NoEntry, fs)
      /\ us \o fs \in Seq(Fitting) /\ fs \o us \in Seq(Fitting)
  BY <1>1, <1>4, AbsorbedConcat
<1>8. /\ decode_wal_entry(Message(us \o fs)) = decode_wal_entry(Message(fs))
      /\ decode_wal_entry(Message(fs \o us)) = decode_wal_entry(Message(fs))
  BY <1>1, <1>7, MessageDecoded
<1> QED BY <1>1, <1>5, <1>6, <1>8

(* A field of a foreign wire type, in front of an entry or behind it, makes it
   undecodable. *)
LEMMA ForeignAround ==
  ASSUME NEW e \in Entries, serialize_value(e.value) # Raised, NEW u \in Foreign
  PROVE  /\ decode_wal_entry(encode_foreign(u) \o encode_wal_entry(e)) = Raised
         /\ decode_wal_entry(encode_wal_entry(e) \o encode_foreign(u)) = Raised
<1> DEFINE fs == wal_fields(e)
           frame == encode_wal_entry(e)
           x == encode_foreign(u)
<1>1. fs \in Seq(Fitting) /\ frame = Message(fs)
  BY EntryParts
<1> HIDE DEF fs
<1>2. frame \in Bytes /\ <<>> \in Bytes /\ <<>> \in Seq(Fitting)
  BY <1>1, MessageBytes, FittingFields, EmptySeq DEF Bytes
<1>3. x \in Bytes
  <2>1. 8 * u.field + u.wire \in Nat /\ u.payload \in Bytes
    BY ForeignAssumption
  <2>2. encode_key(u.field, u.wire) \in Bytes
    BY <2>1, VarintShape, NumbersAreBytes DEF encode_key
  <2> QED BY <2>1, <2>2, ConcatProperties DEF encode_foreign, Bytes
<1>4. Message(<<>>) = <<>>
  BY MessageAppend, EmptySeq
<1>5. <<>> \o x \o frame = x \o frame /\ frame \o x \o <<>> = frame \o x
  <2>1. <<>> \o x = x /\ frame \o x \in Bytes
    BY <1>2, <1>3, ConcatEmptySeq, ConcatProperties DEF Bytes
  <2> HIDE DEF x, frame
  <2> QED BY <2>1, ConcatEmptySeq DEF Bytes
<1>6. Fields(Message(<<>>) \o x \o frame) = Raised
  BY <1>2, ForeignRaises
<1>7. Fields(Message(fs) \o x \o <<>>) = Raised
  BY <1>1, <1>2, ForeignRaises
<1> HIDE DEF x, frame
<1>8. Fields(x \o frame) = Raised /\ Fields(frame \o x) = Raised
  BY <1>1, <1>4, <1>5, <1>6, <1>7
<1> QED BY <1>8 DEF decode_wal_entry, EntryOf, x, frame

----------------------------------------------------------------------------
(* What a start-up makes of a log and a snapshot. *)

(* Every frame is the encoding of its entry. *)
GoodLog(l) ==
  /\ l \in Seq([entry : Entries, frame : Bytes])
  /\ \A i \in 1 .. Len(l) : /\ l[i].frame = encode_wal_entry(l[i].entry)
                            /\ serialize_value(l[i].entry.value) # Raised

(* The frames of a place. *)
Of(l, k) == {i \in 1 .. Len(l) : Place(l[i].entry) = k}

(* What each frame of a good log decodes to. *)
LEMMA FramesDecoded ==
  ASSUME NEW l, GoodLog(l), NEW i \in 1 .. Len(l)
  PROVE  /\ l[i].entry \in Entries /\ l[i].frame \in Bytes
         /\ decode_wal_entry(l[i].frame) = AsLogged(l[i].entry)
         /\ decode_wal_entry(l[i].frame) # Raised
         /\ decode_wal_entry(l[i].frame).value = Wire(l[i].entry.value)
         /\ \A k : Writes(decode_wal_entry(l[i].frame), k) <=> Place(l[i].entry) = k
<1> DEFINE e == l[i].entry
<1>1. l[i] \in [entry : Entries, frame : Bytes]
  BY ElementOfSeq DEF GoodLog
<1>2. e \in Entries /\ l[i].frame \in Bytes /\ l[i].frame = encode_wal_entry(e)
      /\ serialize_value(e.value) # Raised
  BY <1>1 DEF GoodLog
<1> HIDE DEF e
<1>3. /\ decode_wal_entry(l[i].frame) = AsLogged(e) /\ AsLogged(e) # Raised
  BY <1>2, EntryRoundTrip
<1>4. e \in Entry /\ e.op = OP_WRITE
  BY <1>2, EntryParts
<1>5. /\ AsLogged(e).value = Wire(e.value) /\ AsLogged(e).op = e.op
      /\ AsLogged(e).table = e.table /\ AsLogged(e).key = e.key
  BY <1>4 DEF AsLogged, Wire, Entry
<1>6. \A k : Writes(AsLogged(e), k) <=> Place(e) = k
  BY <1>4, <1>5 DEF Writes, Place
<1> QED BY <1>2, <1>3, <1>5, <1>6 DEF e

(* Recovered, of any log and any snapshot. *)
RecoveredFrom(l, d) ==
  [k \in Places |-> IF Of(l, k) # {} THEN Wire(l[Max(Of(l, k))].entry.value)
                    ELSE IF d # NoFile THEN d[k] ELSE Absent]

(* The last frame of a place. *)
LEMMA LastFrame ==
  ASSUME NEW l, Len(l) \in Nat, NEW k, Of(l, k) # {}
  PROVE  Max(Of(l, k)) \in Of(l, k) /\ Max(Of(l, k)) \in 1 .. Len(l)
<1> DEFINE T == Of(l, k)
<1>1. T \subseteq 1 .. Len(l) /\ T # {}
  BY DEF Of
<1> HIDE DEF T
<1>2. \E m \in T : \A x \in T : x <= m
  BY <1>1, LargestNumber
<1>3. \E m \in T : \A x \in T : m >= x
  BY <1>1, <1>2
<1>4. Max(T) \in T
  BY <1>3 DEF Max
<1> QED BY <1>1, <1>4 DEF T

(* One frame more. *)
LEMMA FrameAppended ==
  ASSUME NEW l, GoodLog(l), NEW e \in Entries, serialize_value(e.value) # Raised, NEW d
  PROVE  LET m == Append(l, [entry |-> e, frame |-> encode_wal_entry(e)])
         IN  /\ GoodLog(m) /\ Len(m) = Len(l) + 1 /\ Len(l) \in Nat
             /\ RecoveredFrom(m, d) = [RecoveredFrom(l, d) EXCEPT ![Place(e)] = Wire(e.value)]
<1> DEFINE r == [entry |-> e, frame |-> encode_wal_entry(e)]
           m == Append(l, r)
           n == Len(l)
<1>1. r \in [entry : Entries, frame : Bytes]
  BY EntryParts
<1>2. /\ m \in Seq([entry : Entries, frame : Bytes]) /\ Len(m) = n + 1 /\ m[n + 1] = r /\ n \in Nat
      /\ \A i \in 1 .. n : m[i] = l[i]
  BY <1>1, AppendProperties, LenProperties DEF GoodLog
<1> HIDE DEF m
<1>3. GoodLog(m)
  <2> SUFFICES ASSUME NEW i \in 1 .. Len(m)
               PROVE  /\ m[i].frame = encode_wal_entry(m[i].entry)
                      /\ serialize_value(m[i].entry.value) # Raised
    BY <1>2 DEF GoodLog
  <2>1. CASE i \in 1 .. n
    BY <1>2, <2>1 DEF GoodLog
  <2>2. CASE i = n + 1
    BY <1>2, <2>2
  <2> QED BY <1>2, <2>1, <2>2
<1>4. ASSUME NEW k PROVE Of(m, k) = Of(l, k) \cup (IF k = Place(e) THEN {n + 1} ELSE {})
  <2>1. \A i : i \in 1 .. n + 1 <=> i \in 1 .. n \/ i = n + 1
    BY <1>2
  <2>2. m[n + 1].entry = e
    BY <1>2
  <2> HIDE DEF r
  <2>3. \A i \in 1 .. n : m[i].entry = l[i].entry
    BY <1>2
  <2>4. /\ Of(m, k) = {i \in 1 .. n + 1 : Place(m[i].entry) = k}
        /\ Of(l, k) = {i \in 1 .. n : Place(l[i].entry) = k}
    BY <1>2 DEF Of
  <2> QED BY <2>1, <2>2, <2>3, <2>4
<1>5. ASSUME NEW k \in Places
      PROVE  RecoveredFrom(m, d)[k] = IF k = Place(e) THEN Wire(e.value) ELSE RecoveredFrom(l, d)[k]
  <2>1. CASE k = Place(e)
    <3>1. Of(m, k) = Of(l, k) \cup {n + 1} /\ Of(l, k) \subseteq 1 .. n
      BY <1>4, <2>1 DEF Of
    <3>2. Max(Of(m, k)) = n + 1
      <4>1. \A i \in Of(m, k) : n + 1 >= i /\ i \in Nat
        BY <1>2, <3>1
      <4>2. n + 1 \in Of(m, k) /\ \A i \in Of(m, k) : i >= n + 1 => i = n + 1
        BY <1>2, <3>1, <4>1
      <4> QED BY <4>1, <4>2 DEF Max
    <3>3. Of(m, k) # {} /\ m[n + 1].entry = e
      BY <1>2, <3>1
    <3> QED BY <2>1, <3>2, <3>3 DEF RecoveredFrom
  <2>2. CASE k # Place(e)
    <3>1. Of(m, k) = Of(l, k)
      BY <1>4, <2>2
    <3>2. CASE Of(l, k) = {}
      BY <2>2, <3>1, <3>2 DEF RecoveredFrom
    <3>3. CASE Of(l, k) # {}
      <4>1. Max(Of(l, k)) \in 1 .. n
        BY <1>2, <3>3, LastFrame
      <4> QED BY <1>2, <2>2, <3>1, <3>3, <4>1 DEF RecoveredFrom
    <3> QED BY <3>2, <3>3
  <2> QED BY <2>1, <2>2
<1>6. RecoveredFrom(m, d) = [RecoveredFrom(l, d) EXCEPT ![Place(e)] = Wire(e.value)]
  <2> DEFINE f == RecoveredFrom(m, d)
             g == RecoveredFrom(l, d)
  <2>1. f = [k \in Places |-> f[k]] /\ g = [k \in Places |-> g[k]]
    BY DEF RecoveredFrom
  <2> HIDE DEF f, g
  <2>2. \A k \in Places : f[k] = IF k = Place(e) THEN Wire(e.value) ELSE g[k]
    BY <1>5 DEF f, g
  <2>3. f = [g EXCEPT ![Place(e)] = Wire(e.value)]
    BY <2>1, <2>2
  <2> QED BY <2>3 DEF f, g
<1> QED BY <1>2, <1>3, <1>6 DEF m

(* Recovered is what the frames and the snapshot are decoded to. *)
LEMMA RecoveredIs ==
  ASSUME GoodLog(log)
  PROVE  /\ Recovered = RecoveredFrom(log, disk) /\ (Readable = {} <=> log = <<>>)
         /\ \A k : Replayed(k) = Of(log, k)
<1>1. Len(log) \in Nat /\ log \in Seq([entry : Entries, frame : Bytes])
  BY LenProperties DEF GoodLog
<1>2. \A i \in 1 .. Len(log) :
        /\ Decoded(i) # Raised /\ Decoded(i).value = Wire(log[i].entry.value)
        /\ \A k : Writes(Decoded(i), k) <=> Place(log[i].entry) = k
  BY FramesDecoded DEF Decoded
<1>3. Readable = 1 .. Len(log)
  <2>1. \A n \in 1 .. Len(log) : \A i \in 1 .. n : i \in 1 .. Len(log)
    BY <1>1
  <2> QED BY <1>2, <2>1 DEF Readable
<1>4. \A k : Replayed(k) = Of(log, k)
  BY <1>2, <1>3 DEF Replayed, Of
<1>5. ASSUME NEW k \in Places PROVE Recovered[k] = RecoveredFrom(log, disk)[k]
  <2>1. CASE Of(log, k) # {}
    <3>1. Max(Of(log, k)) \in 1 .. Len(log)
      BY <1>1, <2>1, LastFrame
    <3>2. Recovered[k] = Decoded(Max(Of(log, k))).value
      BY <1>4, <2>1 DEF Recovered
    <3> QED BY <1>2, <2>1, <3>1, <3>2 DEF RecoveredFrom
  <2>2. CASE Of(log, k) = {}
    BY <1>4, <2>2 DEF Recovered, RecoveredFrom
  <2> QED BY <2>1, <2>2
<1>6. Recovered = RecoveredFrom(log, disk)
  <2>1. Recovered = [k \in Places |-> Recovered[k]]
    BY DEF Recovered
  <2>2. RecoveredFrom(log, disk) = [k \in Places |-> RecoveredFrom(log, disk)[k]]
    BY DEF RecoveredFrom
  <2> DEFINE f == Recovered
             g == RecoveredFrom(log, disk)
  <2> HIDE DEF f, g
  <2>3. f = g
    BY <1>5, <2>1, <2>2 DEF f, g
  <2> QED BY <2>3 DEF f, g
<1>7. 1 .. Len(log) = {} <=> log = <<>>
  <2>1. 1 .. Len(log) = {} <=> Len(log) = 0
    <3>1. Len(log) # 0 => 1 \in 1 .. Len(log)
      BY <1>1
    <3>2. Len(log) = 0 => \A i \in 1 .. Len(log) : FALSE
      BY <1>1
    <3> QED BY <3>1, <3>2
  <2>2. Len(log) = 0 <=> log = <<>>
    BY <1>1, EmptySeq
  <2> QED BY <2>1, <2>2
<1> QED BY <1>3, <1>4, <1>6, <1>7

----------------------------------------------------------------------------
(* The inductive invariant. *)

(* The forms that a value may take: itself, its JSON form, and that with base64
   text for bytes. *)
Forms(x) == {x, Dumps[x], Normalize[x]}

(* The entry is the last of its place in a queue. *)
Final(q, i) == \A j \in 1 .. Len(q) : j > i => Place(q[j]) # Place(q[i])

Queued(q, k) == \E i \in 1 .. Len(q) : Place(q[i]) = k

(* A queue ends, for each place, with the value that was written to it last. *)
GoodQueue(q, x) ==
  /\ q \in Seq(Entries)
  /\ \A i \in 1 .. Len(q) : Final(q, i) => q[i].value = x[Place(q[i])]

(* What waits to be written to the log. *)
Queue == batch \o pending

(* A place holds m, and the log and the snapshot, in which it has d, make of it
   what found is; x was written to it last; and unless it is open, because its last
   entry is on its way to the log or was dropped, a start-up finds a form of that. *)
GoodPlace(m, found, d, x, queued, open) ==
  /\ found \in Loadable \cup {Absent}
  /\ x = Absent => m = Absent /\ found = Absent /\ d = Absent /\ ~queued
  /\ x # Absent => m \in Forms(x)
  /\ x # Absent /\ ~open => found \in Forms(x)

(* A place in the snapshot. *)
Stored(d, k) == IF d = NoFile THEN Absent ELSE d[k]

(* The inductive invariant. *)
Inv ==
  /\ GoodLog(log) /\ GoodQueue(Queue, last)
  /\ pending \in Seq(Entries) /\ batch \in Seq(Entries) /\ dropped \subseteq Places
  /\ memory \in [Places -> Value \cup {Absent}] /\ last \in [Places -> Value \cup {Absent}]
  /\ disk = NoFile \/ disk \in [Places -> Json \cup {Absent}]
  /\ \A k \in Places :
       GoodPlace(memory[k], RecoveredFrom(log, disk)[k], Stored(disk, k), last[k],
                 Queued(Queue, k), Queued(Queue, k) \/ k \in dropped)

(* A form that is a value has one form more at most, and its JSON is a form of
   what it was made of. *)
LEMMA FormsStay ==
  ASSUME NEW x \in Value, NEW y \in Forms(x), y \in Value
  PROVE  Normalize[y] \in Forms(x)
<1>1. CASE y = x
  BY <1>1 DEF Forms
<1>2. CASE y \in Json
  BY <1>2, NormalizeProperties
<1>3. y = x \/ y \in Json
  <2>1. Dumps[x] \in Json \cup {Raised} /\ Normalize[x] \in Json \cup {Raised} /\ Raised \notin Value
    BY DumpsProperties, NormalizeProperties, LoadableValues
  <2> QED BY <2>1 DEF Forms
<1> QED BY <1>1, <1>2, <1>3

(* No form is Absent. *)
LEMMA FormsPresent ==
  ASSUME NEW x \in Value
  PROVE  Absent \notin Forms(x)
<1>1. Dumps[x] \in Json \cup {Raised} /\ Normalize[x] \in Json \cup {Raised}
  BY DumpsProperties, NormalizeProperties
<1> QED BY <1>1, LoadableValues DEF Forms

(* The document of loadable data: each value with base64 text for bytes. *)
LEMMA DocumentOf ==
  ASSUME NEW data \in [Places -> Value \cup {Absent}]
  PROVE  /\ CanSave(data) => Document(data) \in [Places -> Json \cup {Absent}]
         /\ (\A k \in Places : data[k] \in Loadable \cup {Absent}) => CanSave(data)
         /\ \A k \in Places : data[k] = Absent => Document(data)[k] = Absent
         /\ \A k \in Places : data[k] # Absent => Document(data)[k] = Normalize[data[k]]
         /\ Document(data) # NoFile \/ ~ CanSave(data)
<1>1. /\ \A k \in Places : data[k] = Absent => Document(data)[k] = Absent
      /\ \A k \in Places : data[k] # Absent => Document(data)[k] = Normalize[data[k]]
  BY DEF Document
<1>2. \A k \in Places : data[k] # Absent => data[k] \in Value
  OBVIOUS
<1>3. ASSUME CanSave(data) PROVE Document(data) \in [Places -> Json \cup {Absent}]
  <2>1. ASSUME NEW k \in Places PROVE Document(data)[k] \in Json \cup {Absent}
    <3>1. Document(data)[k] # Raised
      BY <1>3 DEF CanSave
    <3> QED BY <1>1, <1>2, <3>1, NormalizeProperties
  <2>2. Document(data) = [k \in Places |-> Document(data)[k]]
    BY DEF Document
  <2> DEFINE f == Document(data)
  <2> HIDE DEF f
  <2>3. f \in [Places -> Json \cup {Absent}]
    BY <2>1, <2>2 DEF f
  <2> QED BY <2>3 DEF f
<1>4. ASSUME \A k \in Places : data[k] \in Loadable \cup {Absent} PROVE CanSave(data)
  <2> SUFFICES ASSUME NEW k \in Places PROVE Document(data)[k] # Raised
    BY DEF CanSave
  <2>1. CASE data[k] = Absent
    BY <1>1, <2>1, LoadableValues
  <2>2. CASE data[k] # Absent
    <3>1. data[k] \in Loadable
      BY <1>4, <2>2
    <3> QED BY <1>1, <2>2, <3>1, NormalizeProperties, LoadableValues
  <2> QED BY <2>1, <2>2
<1>5. ASSUME Document(data) = NoFile PROVE ~ CanSave(data)
  <2>1. [Places -> Json \cup {Absent}] \subseteq [Places -> Value \cup {Absent}]
    BY JsonIsValue
  <2> QED BY <1>3, <1>5, <2>1, FormatsAssumption
<1> QED BY <1>1, <1>3, <1>4, <1>5

(* One more in the queue. *)
LEMMA QueueAppend ==
  ASSUME NEW x \in [Places -> Value \cup {Absent}], NEW q, GoodQueue(q, x), NEW e \in Entries
  PROVE  /\ GoodQueue(Append(q, e), [x EXCEPT ![Place(e)] = e.value])
         /\ \A k : Queued(Append(q, e), k) <=> Queued(q, k) \/ k = Place(e)
<1> DEFINE n == Len(q)
           a == Append(q, e)
           y == [x EXCEPT ![Place(e)] = e.value]
<1>1. /\ n \in Nat /\ a \in Seq(Entries) /\ Len(a) = n + 1 /\ a[n + 1] = e
      /\ \A i \in 1 .. n : a[i] = q[i]
  BY AppendProperties, LenProperties DEF GoodQueue
<1>2. \A k \in Places : y[k] = IF k = Place(e) THEN e.value ELSE x[k]
  OBVIOUS
<1>3. \A d \in Entries : Place(d) \in Places
  BY DEF Places
<1>4. \A i \in 1 .. n : q[i] \in Entries
  BY ElementOfSeq DEF GoodQueue
<1> HIDE DEF a, y, n
<1>5. ASSUME NEW i \in 1 .. n + 1, Final(a, i) PROVE a[i].value = y[Place(a[i])]
  <2>1. CASE i = n + 1
    BY <1>1, <1>2, <1>3, <2>1
  <2>2. CASE i \in 1 .. n
    <3>1. n + 1 \in 1 .. n + 1 /\ n + 1 > i /\ \A j \in 1 .. n : j \in 1 .. n + 1
      BY <1>1, <2>2
    <3>2. Place(q[i]) # Place(e)
      BY <1>1, <1>5, <2>2, <3>1 DEF Final
    <3>3. Final(q, i)
      BY <1>1, <1>5, <2>2, <3>1 DEF Final, n
    <3> QED BY <1>1, <1>2, <1>3, <1>4, <2>2, <3>2, <3>3 DEF GoodQueue, n
  <2> QED BY <1>1, <2>1, <2>2
<1>6. ASSUME NEW k PROVE Queued(a, k) <=> Queued(q, k) \/ k = Place(e)
  <2>1. \A i : i \in 1 .. n + 1 <=> i \in 1 .. n \/ i = n + 1
    BY <1>1
  <2> QED BY <1>1, <2>1 DEF Queued, n
<1> QED BY <1>1, <1>5, <1>6 DEF GoodQueue, a, y

(* The queue r is what is left of q without its first n. *)
Rest(q, n, r) ==
  /\ n \in Nat /\ r \in Seq(Entries) /\ Len(q) = n + Len(r)
  /\ \A i \in 1 .. Len(r) : r[i] = q[n + i]

(* Some less in the queue. *)
LEMMA QueueRest ==
  ASSUME NEW x, NEW q, GoodQueue(q, x), NEW n, NEW r, Rest(q, n, r)
  PROVE  /\ GoodQueue(r, x)
         /\ \A k : Queued(q, k) <=> Queued(r, k) \/ \E i \in 1 .. n : Place(q[i]) = k
<1> DEFINE m == Len(r)
<1>1. n \in Nat /\ m \in Nat /\ Len(q) = n + m /\ \A i \in 1 .. m : r[i] = q[n + i]
  BY LenProperties DEF Rest
<1> HIDE DEF m
<1>2. \A j \in 1 .. n + m : j \in 1 .. n \/ (j - n \in 1 .. m /\ n + (j - n) = j)
  BY <1>1
<1>3. \A i \in 1 .. m : n + i \in 1 .. n + m
  BY <1>1
<1>4. ASSUME NEW i \in 1 .. m, Final(r, i) PROVE Final(q, n + i)
  <2> SUFFICES ASSUME NEW j \in 1 .. n + m, j > n + i PROVE Place(q[j]) # Place(q[n + i])
    BY <1>1 DEF Final
  <2>1. j - n \in 1 .. m /\ n + (j - n) = j /\ j - n > i
    BY <1>1
  <2>2. r[j - n] = q[j] /\ r[i] = q[n + i]
    BY <1>1, <2>1
  <2> QED BY <1>4, <2>1, <2>2 DEF Final, m
<1>5. \A i \in 1 .. m : Final(r, i) => r[i].value = x[Place(r[i])]
  BY <1>1, <1>3, <1>4 DEF GoodQueue
<1>6. ASSUME NEW k PROVE Queued(q, k) <=> Queued(r, k) \/ \E i \in 1 .. n : Place(q[i]) = k
  <2>1. Queued(r, k) => Queued(q, k)
    BY <1>1, <1>3 DEF Queued, m
  <2>2. (\E i \in 1 .. n : Place(q[i]) = k) => Queued(q, k)
    <3>1. \A i \in 1 .. n : i \in 1 .. n + m
      BY <1>1
    <3> QED BY <1>1, <3>1 DEF Queued
  <2>3. ASSUME NEW j \in 1 .. n + m, Place(q[j]) = k
        PROVE  Queued(r, k) \/ \E i \in 1 .. n : Place(q[i]) = k
    <3>1. CASE j \in 1 .. n
      BY <2>3, <3>1
    <3>2. CASE j \notin 1 .. n
      <4>1. j - n \in 1 .. m /\ r[j - n] = q[j]
        <5>1. j - n \in 1 .. m /\ n + (j - n) = j
          BY <1>2, <3>2
        <5> QED BY <1>1, <5>1
      <4> QED BY <2>3, <4>1 DEF Queued, m
    <3> QED BY <3>1, <3>2
  <2> QED BY <1>1, <2>1, <2>2, <2>3 DEF Queued
<1> QED BY <1>5, <1>6 DEF GoodQueue, Rest, m

(* Nobody waits in an empty queue. *)
LEMMA EmptyQueue ==
  /\ <<>> \in Seq(Entries) /\ <<>> \o <<>> = <<>>
  /\ \A x : GoodQueue(<<>>, x)
  /\ \A k : ~Queued(<<>>, k)
<1>1. <<>> \in Seq(Entries) /\ Len(<<>>) = 0 /\ <<>> \o <<>> = <<>>
  BY EmptySeq, ConcatEmptySeq
<1>2. \A i \in 1 .. 0 : FALSE
  OBVIOUS
<1> QED BY <1>1, <1>2 DEF GoodQueue, Queued

(* The invariant holds in the beginning. *)
LEMMA InitInv == Init => Inv
<1> SUFFICES ASSUME Init PROVE Inv
  OBVIOUS
<1>1. /\ log = <<>> /\ disk = NoFile /\ memory = Nothing /\ last = Nothing
      /\ pending = <<>> /\ batch = <<>> /\ dropped = {}
  BY DEF Init
<1>2. Nothing \in [Places -> Value \cup {Absent}] /\ \A k \in Places : Nothing[k] = Absent
  BY DEF Nothing
<1>3. <<>> \in Seq([entry : Entries, frame : Bytes]) /\ Len(<<>>) = 0
  BY EmptySeq
<1>4. GoodLog(<<>>) /\ \A k : Of(<<>>, k) = {}
  BY <1>3 DEF GoodLog, Of
<1>5. \A k \in Places : RecoveredFrom(<<>>, NoFile)[k] = Absent /\ Stored(NoFile, k) = Absent
  BY <1>4 DEF RecoveredFrom, Stored
<1>6. Queue = <<>>
  BY <1>1, EmptyQueue DEF Queue
<1>7. \A k \in Places :
        GoodPlace(memory[k], RecoveredFrom(log, disk)[k], Stored(disk, k), last[k],
                  Queued(Queue, k), Queued(Queue, k) \/ k \in dropped)
  BY <1>1, <1>2, <1>5, <1>6, EmptyQueue DEF GoodPlace
<1> QED BY <1>1, <1>2, <1>4, <1>6, <1>7, EmptyQueue DEF Inv

(* A write. *)
LEMMA WriteInv ==
  ASSUME Inv, NEW e \in Entries, Write(e)
  PROVE  Inv'
<1> DEFINE p == Place(e)
           open(k) == Queued(Queue, k) \/ k \in dropped
<1>1. e \in Entry /\ p \in Places /\ e.value \in Value /\ Absent \notin Value
  BY EntriesAssumption, FormatsAssumption DEF Places, Entry
<1>2. /\ memory' = [memory EXCEPT ![p] = e.value] /\ last' = [last EXCEPT ![p] = e.value]
      /\ pending' = Append(pending, e) /\ UNCHANGED <<batch, log, disk, dropped>>
  BY DEF Write
<1>3. /\ memory \in [Places -> Value \cup {Absent}] /\ last \in [Places -> Value \cup {Absent}]
      /\ pending \in Seq(Entries) /\ batch \in Seq(Entries) /\ GoodQueue(Queue, last)
  BY DEF Inv
<1>4. pending' \in Seq(Entries) /\ Queue' = Append(Queue, e)
  BY <1>2, <1>3, AppendProperties, AppendRight DEF Queue
<1>5. /\ GoodQueue(Queue', last')
      /\ \A k : Queued(Queue', k) <=> Queued(Queue, k) \/ k = p
  BY <1>2, <1>3, <1>4, QueueAppend
<1> HIDE DEF p
<1>6. /\ memory' \in [Places -> Value \cup {Absent}] /\ last' \in [Places -> Value \cup {Absent}]
      /\ \A k \in Places : memory'[k] = IF k = p THEN e.value ELSE memory[k]
      /\ \A k \in Places : last'[k] = IF k = p THEN e.value ELSE last[k]
  BY <1>1, <1>2, <1>3
<1>7. ASSUME NEW k \in Places
      PROVE  GoodPlace(memory'[k], RecoveredFrom(log, disk)[k], Stored(disk, k), last'[k],
                       Queued(Queue', k), Queued(Queue', k) \/ k \in dropped)
  <2> DEFINE found == RecoveredFrom(log, disk)[k]
  <2>1. GoodPlace(memory[k], found, Stored(disk, k), last[k], Queued(Queue, k), open(k))
    BY DEF Inv
  <2> HIDE DEF found
  <2>2. CASE k = p
    <3>1. memory'[k] = e.value /\ last'[k] = e.value /\ e.value # Absent
      BY <1>1, <1>6, <2>2
    <3>2. Queued(Queue', k)
      BY <1>5, <2>2
    <3>3. found \in Loadable \cup {Absent}
      BY <2>1 DEF GoodPlace
    <3>4. e.value \in Forms(e.value)
      BY DEF Forms
    <3>5. GoodPlace(e.value, found, Stored(disk, k), e.value, Queued(Queue', k),
                    Queued(Queue', k) \/ k \in dropped)
      BY <3>1, <3>2, <3>3, <3>4, Zenon DEF GoodPlace
    <3> QED BY <3>1, <3>5, Zenon DEF found
  <2>3. CASE k # p
    <3>1. memory'[k] = memory[k] /\ last'[k] = last[k]
      BY <1>6, <2>3
    <3>2. Queued(Queue', k) <=> Queued(Queue, k)
      BY <1>5, <2>3
    <3>3. GoodPlace(memory[k], found, Stored(disk, k), last[k], Queued(Queue', k),
                    Queued(Queue', k) \/ k \in dropped)
      BY <2>1, <3>2, Zenon DEF GoodPlace
    <3> QED BY <3>1, <3>3, Zenon DEF found
  <2> QED BY <2>2, <2>3 DEF found
<1>8. /\ GoodLog(log) /\ dropped \subseteq Places
      /\ disk = NoFile \/ disk \in [Places -> Json \cup {Absent}]
  BY DEF Inv
<1> QED BY <1>2, <1>3, <1>4, <1>5, <1>6, <1>7, <1>8 DEF Inv

(* The queue while the flush takes, writes and gives up. *)
LEMMA QueueSteps ==
  ASSUME Inv
  PROVE  /\ FlushTakes => Rest(Queue, 0, Queue')
         /\ FlushWrites => Rest(Queue, 1, Queue') /\ Queue[1] = Head(batch)
         /\ FlushRaises => /\ Rest(Queue, Len(batch), Queue')
                           /\ \A i \in 1 .. Len(batch) : Queue[i] = batch[i]
<1>1. pending \in Seq(Entries) /\ batch \in Seq(Entries)
  BY DEF Inv
<1>2. /\ Len(Queue) = Len(batch) + Len(pending) /\ Len(batch) \in Nat /\ Len(pending) \in Nat
      /\ \A i \in 1 .. Len(batch) + Len(pending) :
           Queue[i] = IF i <= Len(batch) THEN batch[i] ELSE pending[i - Len(batch)]
  BY <1>1, ConcatProperties, LenProperties DEF Queue
<1>3. \A q \in Seq(Entries) : q \o <<>> = q /\ <<>> \o q = q /\ <<>> \in Seq(Entries)
  BY ConcatEmptySeq, EmptySeq
<1>4. ASSUME FlushTakes PROVE Rest(Queue, 0, Queue')
  <2>1. Queue = pending /\ Queue' = pending
    BY <1>1, <1>3, <1>4 DEF FlushTakes, Queue
  <2>2. \A i \in 1 .. Len(pending) : 0 + i = i
    BY <1>2
  <2> QED BY <1>1, <1>2, <2>1, <2>2 DEF Rest
<1>5. ASSUME FlushWrites PROVE Rest(Queue, 1, Queue') /\ Queue[1] = Head(batch)
  <2> DEFINE t == Tail(batch)
  <2>1. batch # <<>> /\ Queue' = t \o pending
    BY <1>5 DEF FlushWrites, Queue
  <2>2. /\ t \in Seq(Entries) /\ Len(t) = Len(batch) - 1 /\ Len(batch) > 0
        /\ \A i \in 1 .. Len(t) : t[i] = batch[i + 1]
        /\ Head(batch) = batch[1]
    BY <1>1, <2>1, HeadTailProperties, EmptySeq
  <2> HIDE DEF t
  <2>3. /\ Queue' \in Seq(Entries) /\ Len(Queue') = Len(t) + Len(pending) /\ Len(t) \in Nat
        /\ \A i \in 1 .. Len(t) + Len(pending) :
             Queue'[i] = IF i <= Len(t) THEN t[i] ELSE pending[i - Len(t)]
    BY <1>1, <2>1, <2>2, ConcatProperties, LenProperties
  <2>4. ASSUME NEW i \in 1 .. Len(Queue') PROVE Queue'[i] = Queue[1 + i]
    <3>1. i \in 1 .. Len(t) + Len(pending) /\ 1 + i \in 1 .. Len(batch) + Len(pending)
      BY <1>2, <2>2, <2>3
    <3>2. CASE i <= Len(t)
      <4>1. 1 + i <= Len(batch) /\ 1 + i = i + 1 /\ i \in 1 .. Len(t)
        BY <2>2, <2>3, <3>1, <3>2
      <4> QED BY <1>2, <2>2, <2>3, <3>1, <3>2, <4>1
    <3>3. CASE ~(i <= Len(t))
      <4>1. ~(1 + i <= Len(batch)) /\ 1 + i - Len(batch) = i - Len(t)
        BY <1>2, <2>2, <3>1, <3>3
      <4> QED BY <1>2, <2>3, <3>1, <3>3, <4>1
    <3> QED BY <3>2, <3>3
  <2>5. Len(Queue) = 1 + Len(Queue')
    BY <1>2, <2>2, <2>3
  <2>6. Queue[1] = batch[1]
    BY <1>2, <2>2
  <2> QED BY <2>2, <2>3, <2>4, <2>5, <2>6 DEF Rest
<1>6. ASSUME FlushRaises
      PROVE  Rest(Queue, Len(batch), Queue') /\ \A i \in 1 .. Len(batch) : Queue[i] = batch[i]
  <2>1. Queue' = pending
    BY <1>1, <1>3, <1>6 DEF FlushRaises, Queue
  <2>2. ASSUME NEW i \in 1 .. Len(pending) PROVE pending[i] = Queue[Len(batch) + i]
    <3>1. /\ Len(batch) + i \in 1 .. Len(batch) + Len(pending) /\ ~(Len(batch) + i <= Len(batch))
          /\ Len(batch) + i - Len(batch) = i
      BY <1>2
    <3> QED BY <1>2, <3>1
  <2>3. \A i \in 1 .. Len(batch) : Queue[i] = batch[i]
    BY <1>2
  <2> QED BY <1>1, <1>2, <2>1, <2>2, <2>3 DEF Rest
<1> QED BY <1>4, <1>5, <1>6

(* A flush takes what there is. *)
LEMMA TakesInv == ASSUME Inv, FlushTakes PROVE Inv'
<1>1. /\ batch' = pending /\ pending' = <<>> /\ UNCHANGED <<memory, log, disk, last, dropped>>
  BY DEF FlushTakes
<1>2. Rest(Queue, 0, Queue') /\ GoodQueue(Queue, last)
  BY QueueSteps DEF Inv
<1>3. /\ GoodQueue(Queue', last)
      /\ \A k : Queued(Queue, k) <=> Queued(Queue', k) \/ \E i \in 1 .. 0 : Place(Queue[i]) = k
  BY <1>2, QueueRest
<1>4. \A i \in 1 .. 0 : FALSE
  OBVIOUS
<1>5. \A k : Queued(Queue', k) <=> Queued(Queue, k)
  BY <1>3, <1>4
<1>6. \A k \in Places :
        GoodPlace(memory[k], RecoveredFrom(log, disk)[k], Stored(disk, k), last[k],
                  Queued(Queue', k), Queued(Queue', k) \/ k \in dropped)
  BY <1>5, Zenon DEF Inv, GoodPlace
<1> QED BY <1>1, <1>3, <1>6, EmptyQueue DEF Inv

(* A flush writes a frame. *)
LEMMA WritesInv == ASSUME Inv, FlushWrites PROVE Inv'
<1> DEFINE e == Head(batch)
           p == Place(e)
           w == Wire(e.value)
           before == RecoveredFrom(log, disk)
           after  == RecoveredFrom(log', disk)
<1>1. /\ batch # <<>> /\ Encodable(e) /\ batch' = Tail(batch) /\ dropped' = dropped \ {p}
      /\ log' = Append(log, [entry |-> e, frame |-> encode_wal_entry(e)])
      /\ UNCHANGED <<memory, pending, disk, last>>
  BY DEF FlushWrites
<1>2. batch \in Seq(Entries) /\ e \in Entries /\ Tail(batch) \in Seq(Entries)
  BY <1>1, HeadTailProperties DEF Inv
<1>3. serialize_value(e.value) # Raised /\ e.value \in Value /\ p \in Places
  BY <1>1, <1>2, EntriesAssumption DEF Encodable, encode_wal_entry, Entry, Places
<1>4. w \in Loadable /\ w \in Forms(e.value) /\ Absent \notin Loadable
  BY <1>3, ValueRead, LoadableValues, FormatsAssumption DEF Wire, Forms
<1>5. GoodLog(log') /\ after = [before EXCEPT ![p] = w]
  BY <1>1, <1>2, <1>3, FrameAppended DEF Inv
<1>6. before = [k \in Places |-> before[k]]
  BY DEF RecoveredFrom
<1>7. Rest(Queue, 1, Queue') /\ GoodQueue(Queue, last) /\ Queue[1] = e
  BY QueueSteps DEF Inv
<1> HIDE DEF e, p, w, before, after
<1>8. \A k \in Places : after[k] = IF k = p THEN w ELSE before[k]
  BY <1>5, <1>6
<1>9. /\ GoodQueue(Queue', last)
      /\ \A k : Queued(Queue, k) <=> Queued(Queue', k) \/ k = p
  <2>1. /\ GoodQueue(Queue', last)
        /\ \A k : Queued(Queue, k) <=> Queued(Queue', k) \/ \E i \in 1 .. 1 : Place(Queue[i]) = k
    BY <1>7, QueueRest
  <2>2. \A k : (\E i \in 1 .. 1 : Place(Queue[i]) = k) <=> k = p
    BY <1>7 DEF p
  <2> QED BY <2>1, <2>2
<1>10. ASSUME ~Queued(Queue', p) PROVE e.value = last[p]
  <2>1. Len(Queue) \in Nat /\ Len(Queue') \in Nat /\ Len(Queue) = 1 + Len(Queue')
    BY <1>7, LenProperties DEF Rest, GoodQueue
  <2>2. ASSUME NEW j \in 1 .. Len(Queue), j > 1 PROVE Place(Queue[j]) # Place(Queue[1])
    <3>1. j - 1 \in 1 .. Len(Queue') /\ 1 + (j - 1) = j
      BY <2>1, <2>2
    <3>2. Queue'[j - 1] = Queue[j]
      BY <1>7, <3>1 DEF Rest
    <3> QED BY <1>7, <1>10, <3>1, <3>2 DEF Queued, p
  <2>3. Final(Queue, 1) /\ 1 \in 1 .. Len(Queue)
    BY <2>1, <2>2 DEF Final
  <2> QED BY <1>7, <2>3 DEF GoodQueue, p
<1>11. ASSUME NEW k \in Places
       PROVE  GoodPlace(memory[k], after[k], Stored(disk, k), last[k],
                        Queued(Queue', k), Queued(Queue', k) \/ k \in dropped')
  <2>1. GoodPlace(memory[k], before[k], Stored(disk, k), last[k], Queued(Queue, k),
                  Queued(Queue, k) \/ k \in dropped)
    BY DEF Inv, before
  <2>2. CASE k = p
    <3>1. Queued(Queue, p)
      BY <1>9
    <3>2. last[p] # Absent
      BY <2>1, <2>2, <3>1 DEF GoodPlace
    <3>3. after[p] = w
      BY <1>3, <1>8
    <3> QED BY <1>4, <1>10, <2>1, <2>2, <3>2, <3>3 DEF GoodPlace
  <2>3. CASE k # p
    <3>1. /\ after[k] = before[k] /\ (Queued(Queue', k) <=> Queued(Queue, k))
          /\ (k \in dropped' <=> k \in dropped)
      BY <1>1, <1>8, <1>9, <2>3
    <3> QED BY <2>1, <3>1, Zenon DEF GoodPlace
  <2> QED BY <2>2, <2>3
<1>12. /\ memory \in [Places -> Value \cup {Absent}] /\ last \in [Places -> Value \cup {Absent}]
       /\ pending \in Seq(Entries) /\ dropped' \subseteq Places
       /\ disk = NoFile \/ disk \in [Places -> Json \cup {Absent}]
  BY <1>1 DEF Inv
<1> QED BY <1>1, <1>2, <1>5, <1>9, <1>11, <1>12 DEF Inv, after

(* A flush gives up. *)
LEMMA RaisesInv == ASSUME Inv, FlushRaises PROVE Inv'
<1> DEFINE n == Len(batch)
           lost == {Place(batch[i]) : i \in DOMAIN batch}
<1>1. /\ batch' = <<>> /\ dropped' = dropped \cup lost
      /\ UNCHANGED <<memory, pending, log, disk, last>>
  BY DEF FlushRaises
<1>2. batch \in Seq(Entries) /\ DOMAIN batch = 1 .. n
  BY LenProperties DEF Inv
<1>3. lost \subseteq Places
  <2>1. \A i \in DOMAIN batch : batch[i] \in Entries
    BY <1>2, ElementOfSeq
  <2> QED BY <2>1 DEF Places
<1>4. /\ Rest(Queue, n, Queue') /\ GoodQueue(Queue, last)
      /\ \A i \in 1 .. n : Queue[i] = batch[i]
  BY QueueSteps DEF Inv
<1>5. /\ GoodQueue(Queue', last)
      /\ \A k : Queued(Queue, k) <=> Queued(Queue', k) \/ \E i \in 1 .. n : Place(Queue[i]) = k
  BY <1>4, QueueRest
<1>6. \A k : (\E i \in 1 .. n : Place(Queue[i]) = k) <=> k \in lost
  BY <1>2, <1>4
<1> HIDE DEF n, lost
<1>7. ASSUME NEW k \in Places
      PROVE  GoodPlace(memory[k], RecoveredFrom(log, disk)[k], Stored(disk, k), last[k],
                       Queued(Queue', k), Queued(Queue', k) \/ k \in dropped')
  <2> DEFINE found == RecoveredFrom(log, disk)[k]
  <2>1. GoodPlace(memory[k], found, Stored(disk, k), last[k], Queued(Queue, k),
                  Queued(Queue, k) \/ k \in dropped)
    BY DEF Inv
  <2>2. /\ Queued(Queue', k) => Queued(Queue, k)
        /\ Queued(Queue, k) \/ k \in dropped => Queued(Queue', k) \/ k \in dropped'
    BY <1>1, <1>5, <1>6
  <2> HIDE DEF found
  <2>3. GoodPlace(memory[k], found, Stored(disk, k), last[k],
                  Queued(Queue', k), Queued(Queue', k) \/ k \in dropped')
    BY <2>1, <2>2, Zenon DEF GoodPlace
  <2> QED BY <2>3 DEF found
<1>8. /\ memory \in [Places -> Value \cup {Absent}] /\ last \in [Places -> Value \cup {Absent}]
      /\ pending \in Seq(Entries) /\ dropped' \subseteq Places /\ GoodLog(log)
      /\ disk = NoFile \/ disk \in [Places -> Json \cup {Absent}]
  BY <1>1, <1>3 DEF Inv
<1> QED BY <1>1, <1>5, <1>7, <1>8, EmptyQueue DEF Inv

(* A save of data, found with a log. *)
LEMMA SavedForms ==
  ASSUME NEW data \in [Places -> Value \cup {Absent}], CanSave(data), NEW l, NEW k \in Places
  PROVE  LET d == Document(data)
         IN  /\ d # NoFile /\ d \in [Places -> Json \cup {Absent}] /\ Stored(d, k) = d[k]
             /\ d[k] \in Loadable \cup {Absent}
             /\ data[k] = Absent => d[k] = Absent
             /\ \A x \in Value : data[k] \in Forms(x) => d[k] \in Forms(x)
             /\ Of(l, k) = {} => RecoveredFrom(l, d)[k] = d[k]
             /\ Of(l, k) # {} => \A c : RecoveredFrom(l, d)[k] = RecoveredFrom(l, c)[k]
<1> DEFINE d == Document(data)
<1>1. /\ d \in [Places -> Json \cup {Absent}] /\ d # NoFile
      /\ data[k] = Absent => d[k] = Absent
      /\ data[k] # Absent => d[k] = Normalize[data[k]]
  BY DocumentOf
<1> HIDE DEF d
<1>2. d[k] \in Loadable \cup {Absent}
  BY <1>1, LoadableValues DEF Loadable
<1>3. ASSUME NEW x \in Value, data[k] \in Forms(x) PROVE d[k] \in Forms(x)
  <2>1. data[k] # Absent /\ data[k] \in Value
    BY <1>3, FormsPresent
  <2> QED BY <1>1, <1>3, <2>1, FormsStay
<1>4. /\ Of(l, k) = {} => RecoveredFrom(l, d)[k] = d[k]
      /\ Of(l, k) # {} => \A c : RecoveredFrom(l, d)[k] = RecoveredFrom(l, c)[k]
  BY <1>1 DEF RecoveredFrom
<1>5. Stored(d, k) = d[k]
  BY <1>1 DEF Stored
<1> QED BY <1>1, <1>2, <1>3, <1>4, <1>5 DEF d

(* A save. *)
LEMMA SaveInv == ASSUME Inv, Save PROVE Inv'
<1> DEFINE d == Document(memory)
           before == RecoveredFrom(log, disk)
           after  == RecoveredFrom(log, d)
<1>1. /\ CanSave(memory) /\ disk' = d /\ dropped' = {k \in dropped : Replayed(k) # {}}
      /\ UNCHANGED <<memory, pending, batch, log, last>>
  BY DEF Save
<1>2. /\ memory \in [Places -> Value \cup {Absent}] /\ last \in [Places -> Value \cup {Absent}]
      /\ GoodLog(log) /\ dropped \subseteq Places
  BY DEF Inv
<1>3. \A k \in Places : Replayed(k) = Of(log, k)
  BY <1>2, RecoveredIs
<1>4. d \in [Places -> Json \cup {Absent}]
  BY <1>1, <1>2, DocumentOf
<1>5. Queue' = Queue
  BY <1>1 DEF Queue
<1>6. ASSUME NEW k \in Places
      PROVE  GoodPlace(memory[k], after[k], Stored(d, k), last[k], Queued(Queue, k),
                       Queued(Queue, k) \/ k \in dropped')
  <2>1. GoodPlace(memory[k], before[k], Stored(disk, k), last[k], Queued(Queue, k),
                  Queued(Queue, k) \/ k \in dropped)
    BY DEF Inv
  <2>2. /\ Stored(d, k) = d[k] /\ d[k] \in Loadable \cup {Absent}
        /\ memory[k] = Absent => d[k] = Absent
        /\ \A x \in Value : memory[k] \in Forms(x) => d[k] \in Forms(x)
        /\ Of(log, k) = {} => after[k] = d[k]
        /\ Of(log, k) # {} => after[k] = before[k]
    <3>1. /\ Stored(d, k) = d[k] /\ d[k] \in Loadable \cup {Absent}
          /\ memory[k] = Absent => d[k] = Absent
          /\ \A x \in Value : memory[k] \in Forms(x) => d[k] \in Forms(x)
          /\ Of(log, k) = {} => after[k] = d[k]
          /\ Of(log, k) # {} => \A c : after[k] = RecoveredFrom(log, c)[k]
      BY <1>1, <1>2, SavedForms
    <3> HIDE DEF d, after
    <3> QED BY <3>1 DEF before
  <2>3. last[k] # Absent => last[k] \in Value
    BY <1>2
  <2>4. Of(log, k) # {} /\ k \in dropped => k \in dropped'
    BY <1>1, <1>3
  <2> HIDE DEF d, before, after
  <2>5. CASE Of(log, k) = {}
    BY <2>1, <2>2, <2>3, <2>5 DEF GoodPlace
  <2>6. CASE Of(log, k) # {}
    BY <2>1, <2>2, <2>4, <2>6 DEF GoodPlace
  <2> QED BY <2>5, <2>6
<1>7. GoodQueue(Queue, last) /\ pending \in Seq(Entries) /\ batch \in Seq(Entries)
  BY DEF Inv
<1> HIDE DEF d
<1> QED BY <1>1, <1>2, <1>4, <1>5, <1>6, <1>7 DEF Inv

(* What a start-up recovers can be saved. *)
LEMMA RestartRecovers ==
  ASSUME Inv, Restart
  PROVE  LET found == RecoveredFrom(log, disk)
         IN  /\ memory' = found /\ found \in [Places -> Value \cup {Absent}]
             /\ CanSave(found)
             /\ \/ disk' = Document(found) /\ log' = <<>>
                \/ disk' = disk /\ log' = log /\ log = <<>>
<1> DEFINE found == RecoveredFrom(log, disk)
<1>1. memory' = found /\ (Readable = {} <=> log = <<>>)
  BY RecoveredIs DEF Restart, Inv
<1>2. \A k \in Places : found[k] \in Loadable \cup {Absent}
  BY DEF Inv, GoodPlace
<1>3. found = [k \in Places |-> found[k]]
  BY DEF RecoveredFrom
<1> HIDE DEF found
<1>4. found \in [Places -> Value \cup {Absent}]
  BY <1>2, <1>3, LoadableValues
<1>5. CanSave(found)
  BY <1>2, <1>4, DocumentOf
<1>6. \/ disk' = Document(found) /\ log' = <<>>
      \/ disk' = disk /\ log' = log /\ log = <<>>
  BY <1>1, <1>5 DEF Restart
<1> QED BY <1>1, <1>4, <1>5, <1>6 DEF found

(* A start-up. *)
LEMMA RestartInv == ASSUME Inv, Restart PROVE Inv'
<1> DEFINE found == RecoveredFrom(log, disk)
           after == RecoveredFrom(log', disk')
<1>1. /\ memory' = found /\ found \in [Places -> Value \cup {Absent}] /\ CanSave(found)
      /\ \/ disk' = Document(found) /\ log' = <<>>
         \/ disk' = disk /\ log' = log /\ log = <<>>
  BY RestartRecovers
<1>2. /\ pending = <<>> /\ batch = <<>> /\ UNCHANGED <<pending, batch>> /\ dropped' = {}
      /\ last' = [k \in Places |-> IF k \in dropped THEN found[k] ELSE last[k]]
  BY <1>1 DEF Restart
<1>3. Queue = <<>> /\ Queue' = <<>>
  BY <1>2, EmptyQueue DEF Queue
<1>4. ASSUME NEW k \in Places
      PROVE  GoodPlace(memory[k], found[k], Stored(disk, k), last[k], FALSE, k \in dropped)
  BY <1>3, EmptyQueue, Zenon DEF Inv, GoodPlace
<1>5. last \in [Places -> Value \cup {Absent}] /\ GoodLog(log)
      /\ (disk = NoFile \/ disk \in [Places -> Json \cup {Absent}])
  BY DEF Inv
<1>6. /\ GoodLog(log') /\ (disk' = NoFile \/ disk' \in [Places -> Json \cup {Absent}])
  <2>1. GoodLog(<<>>)
    BY EmptySeq DEF GoodLog
  <2>2. disk' = Document(found) => disk' \in [Places -> Json \cup {Absent}]
    BY <1>1, DocumentOf
  <2> QED BY <1>1, <1>5, <2>1, <2>2
<1>7. \A k : Of(<<>>, k) = {}
  BY EmptySeq DEF Of
<1>8. ASSUME NEW k \in Places
      PROVE  /\ after[k] \in Loadable \cup {Absent}
             /\ found[k] = Absent => after[k] = Absent /\ Stored(disk', k) = Absent
             /\ \A x \in Value : found[k] \in Forms(x) => after[k] \in Forms(x)
  <2>1. CASE disk' = Document(found) /\ log' = <<>>
    <3>1. /\ Stored(disk', k) = disk'[k] /\ disk'[k] \in Loadable \cup {Absent}
          /\ found[k] = Absent => disk'[k] = Absent
          /\ \A x \in Value : found[k] \in Forms(x) => disk'[k] \in Forms(x)
          /\ after[k] = disk'[k]
      BY <1>1, <1>7, <2>1, SavedForms
    <3> QED BY <3>1
  <2>2. CASE disk' = disk /\ log' = log /\ log = <<>>
    <3>1. after[k] = found[k] /\ found[k] = Stored(disk, k)
      BY <1>7, <2>2 DEF RecoveredFrom, Stored
    <3> QED BY <1>4, <2>2, <3>1 DEF GoodPlace
  <2> QED BY <1>1, <2>1, <2>2
<1> HIDE DEF found, after
<1>9. ASSUME NEW k \in Places
      PROVE  GoodPlace(found[k], after[k], Stored(disk', k), last'[k], FALSE, FALSE)
  <2>1. last'[k] = IF k \in dropped THEN found[k] ELSE last[k]
    BY <1>2
  <2>2. last[k] \in Value \cup {Absent} /\ found[k] \in Value \cup {Absent}
    BY <1>1, <1>5
  <2>3. CASE k \in dropped
    <3>1. last'[k] = found[k] /\ found[k] \in Forms(found[k])
      BY <2>1, <2>3 DEF Forms
    <3> QED BY <1>8, <2>2, <3>1 DEF GoodPlace
  <2>4. CASE k \notin dropped
    <3>1. /\ last'[k] = last[k] /\ (last[k] = Absent => found[k] = Absent)
          /\ last[k] # Absent => found[k] \in Forms(last[k])
      BY <1>4, <2>1, <2>4 DEF GoodPlace
    <3> QED BY <1>8, <2>2, <3>1 DEF GoodPlace
  <2> QED BY <2>3, <2>4
<1>10. last' \in [Places -> Value \cup {Absent}]
  BY <1>1, <1>2, <1>5
<1>11. ASSUME NEW k \in Places
       PROVE  GoodPlace(memory'[k], after[k], Stored(disk', k), last'[k], Queued(Queue', k),
                        Queued(Queue', k) \/ k \in dropped')
  BY <1>1, <1>2, <1>3, <1>9, EmptyQueue, Zenon DEF GoodPlace
<1> QED BY <1>1, <1>2, <1>3, <1>6, <1>10, <1>11, EmptyQueue DEF Inv, after

(* The invariant holds always. *)
THEOREM Invariance == Spec => []Inv
<1>1. ASSUME Inv, [Next]_vars PROVE Inv'
  <2>1. CASE UNCHANGED vars
    BY <1>1, <2>1 DEF vars, Inv, Queue
  <2>2. ASSUME NEW e \in Entries, Write(e) PROVE Inv'
    BY <1>1, <2>2, WriteInv
  <2>3. CASE FlushTakes \/ FlushWrites \/ FlushRaises
    BY <1>1, <2>3, TakesInv, WritesInv, RaisesInv
  <2>4. CASE Save
    BY <1>1, <2>4, SaveInv
  <2>5. CASE Restart
    BY <1>1, <2>5, RestartInv
  <2> QED BY <1>1, <2>1, <2>2, <2>3, <2>4, <2>5 DEF Next
<1> QED BY <1>1, InitInv, PTL DEF Spec

(* TypeOK: nothing but JSON gets into state.rdb. *)
THEOREM TypeCorrect == Spec => []TypeOK
<1>1. ASSUME Inv PROVE TypeOK
  <2>1. \A i \in 1 .. Len(log) : log[i].entry \in Entries
    BY <1>1, FramesDecoded DEF Inv
  <2>2. \A k \in Places : last[k] = Absent => memory[k] = Absent /\ Stored(disk, k) = Absent
    BY <1>1, Zenon DEF Inv, GoodPlace
  <2> QED BY <1>1, <2>1, <2>2 DEF TypeOK, Inv, Stored
<1> QED BY <1>1, Invariance, PTL

(* EntrySurvives: every frame of the log decodes to its entry. *)
THEOREM EntriesSurvive == Spec => []EntrySurvives
<1>1. ASSUME Inv PROVE EntrySurvives
  BY <1>1, FramesDecoded DEF EntrySurvives, Decoded, Inv
<1> QED BY <1>1, Invariance, PTL

(* UnknownFields: varints and length-delimited fields of a later version change
   nothing, and a field of another wire type makes the entry undecodable. *)
THEOREM UnknownFieldsRead == Spec => []UnknownFields
<1>1. ASSUME Inv, NEW i \in 1 .. Len(log)
      PROVE  /\ log[i].entry \in Entries /\ serialize_value(log[i].entry.value) # Raised
             /\ log[i].frame = encode_wal_entry(log[i].entry)
  <2>1. log[i].entry \in Entries
    BY <1>1, FramesDecoded DEF Inv
  <2> QED BY <1>1, <2>1 DEF Inv, GoodLog
<1>2. ASSUME Inv, NEW i \in 1 .. Len(log), NEW u \in Unknown
      PROVE  /\ decode_wal_entry(encode_field(u) \o log[i].frame) = Decoded(i)
             /\ decode_wal_entry(log[i].frame \o encode_field(u)) = Decoded(i)
  BY <1>1, <1>2, UnknownAround DEF Decoded
<1>3. ASSUME Inv, NEW i \in 1 .. Len(log), NEW u \in Foreign
      PROVE  /\ decode_wal_entry(encode_foreign(u) \o log[i].frame) = Raised
             /\ decode_wal_entry(log[i].frame \o encode_foreign(u)) = Raised
  BY <1>1, <1>3, ForeignAround
<1>4. ASSUME Inv PROVE UnknownFields
  BY <1>2, <1>3, <1>4 DEF UnknownFields
<1> QED BY <1>4, Invariance, PTL

(* NeverReencoded: a value changes its form once at most. *)
THEOREM OnceReencoded == Spec => []NeverReencoded
<1>1. ASSUME Inv PROVE NeverReencoded
  BY <1>1, Zenon DEF NeverReencoded, Inv, GoodPlace, Forms
<1> QED BY <1>1, Invariance, PTL

(* PlainKept: JSON values come back as they were. *)
THEOREM PlainStays == Spec => []PlainKept
<1>1. ASSUME Inv PROVE PlainKept
  <2> SUFFICES ASSUME NEW k \in Places, last[k] # Absent, last[k] \in Json
               PROVE  memory[k] = last[k]
    BY DEF PlainKept
  <2>1. memory[k] \in Forms(last[k])
    BY <1>1, Zenon DEF Inv, GoodPlace
  <2>2. Forms(last[k]) = {last[k]}
    BY DumpsProperties, NormalizeProperties DEF Forms
  <2> QED BY <2>1, <2>2
<1> QED BY <1>1, Invariance, PTL

(* RestartSaves: whatever was written, what a start-up recovers can be saved. *)
THEOREM RecoveredCanBeSaved == Spec => RestartSaves
<1>1. ASSUME Inv, Restart PROVE CanSave(memory')
  BY <1>1, RestartRecovers
<1>2. ASSUME Inv, [Next]_vars PROVE [Restart => CanSave(memory')]_vars
  BY <1>1, <1>2
<1> QED BY <1>2, Invariance, PTL DEF Spec, RestartSaves

============================================================================
