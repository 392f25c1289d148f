-------------------------- MODULE Recursion_proofs --------------------------
(***************************************************************************)
(* Induction for sets of numbers, and what it says of functions that are   *)
(* defined recursively.                                                    *)
(***************************************************************************)
EXTENDS Integers, Sequences, SequencesExt, WellFoundedInduction, SequenceTheorems, TLAPS

\* Induction, for sets of numbers.
LEMMA Induction ==
    ASSUME NEW S, 0 \in S, \A k \in Nat : k \in S => k + 1 \in S
    PROVE  Nat \subseteq S
<1> SUFFICES ASSUME Nat \ S # {} PROVE FALSE
    OBVIOUS
<1>1. PICK m \in Nat \ S : \A y \in Nat \ S : ~(<<y, m>> \in OpToRel(<, Nat))
    BY NatLessThanWellFounded, WFMin
<1> DEFINE j == m - 1
<1>2. m \in Nat /\ m \notin S /\ m # 0
    OBVIOUS
<1>3. j \in Nat /\ j < m
    BY <1>2
<1>4. <<j, m>> \in OpToRel(<, Nat)
    BY <1>2, <1>3 DEF OpToRel
<1>5. j \in S
    BY <1>1, <1>3, <1>4
<1>6. j + 1 = m
    BY <1>2
<1> QED BY <1>2, <1>3, <1>5, <1>6

\* The same up to a bound.
LEMMA BoundedInduction ==
    ASSUME NEW n \in Nat, NEW S, 0 \in S, \A k \in 0 .. n - 1 : k \in S => k + 1 \in S
    PROVE  0 .. n \subseteq S
<1> DEFINE T == {k \in Nat : k <= n => k \in S}
<1>1. 0 \in T
    OBVIOUS
<1>2. \A k \in Nat : k \in T => k + 1 \in T
    OBVIOUS
<1>3. Nat \subseteq T
  <2> HIDE DEF T
  <2> QED BY <1>1, <1>2, Induction
<1> QED BY <1>3

-----------------------------------------------------------------------------
(* Recursive functions.                                                    *)

\* There is a sequence of n values after b, the k-th of them F[k] of the one
\* before it.
Unfolds(n, D, b, F) ==
    \E g \in [0 .. n -> D] : g[0] = b /\ \A k \in 1 .. n : g[k] = F[k][g[k - 1]]
\* The functions of a list can be applied in turn.
LEMMA Recursion ==
    ASSUME NEW n \in Nat, NEW D, NEW b \in D, NEW F \in [1 .. n -> [D -> D]]
    PROVE  Unfolds(n, D, b, F)
<1> DEFINE At(m) == \E g \in [0 .. m -> D] :
                        g[0] = b /\ \A k \in 1 .. m : g[k] = F[k][g[k - 1]]
           Q == {m \in 0 .. n : At(m)}
<1>1. 0 \in Q
  <2> DEFINE g == [k \in 0 .. 0 |-> b]
  <2>1. g \in [0 .. 0 -> D] /\ g[0] = b /\ 0 \in 0 .. n
      OBVIOUS
  <2> HIDE DEF g
  <2> QED BY <2>1
<1>2. ASSUME NEW m \in 0 .. n - 1, m \in Q PROVE m + 1 \in Q
  <2>1. PICK g \in [0 .. m -> D] : g[0] = b /\ \A k \in 1 .. m : g[k] = F[k][g[k - 1]]
      BY <1>2
  <2> DEFINE h == [k \in 0 .. m + 1 |-> IF k = m + 1 THEN F[m + 1][g[m]] ELSE g[k]]
  <2>2. m + 1 \in 1 .. n /\ m \in 0 .. m /\ m + 1 \in 0 .. n
      OBVIOUS
  <2>3. F[m + 1][g[m]] \in D
      BY <2>2
  <2>4. h \in [0 .. m + 1 -> D]
      BY <2>3
  <2>5. h[0] = b
      BY <2>1
  <2>6. ASSUME NEW k \in 1 .. m + 1 PROVE h[k] = F[k][h[k - 1]]
    <3>1. k - 1 \in 0 .. m + 1 /\ k - 1 # m + 1 /\ h[k - 1] = g[k - 1]
        OBVIOUS
    <3>2. CASE k = m + 1
        BY <3>1, <3>2
    <3>3. CASE k # m + 1
      <4>1. k \in 1 .. m /\ h[k] = g[k]
          BY <3>3
      <4> QED BY <2>1, <3>1, <4>1
    <3> QED BY <3>2, <3>3
  <2> HIDE DEF h
  <2> QED BY <2>2, <2>4, <2>5, <2>6
<1>3. 0 .. n \subseteq Q
  <2> HIDE DEF Q
  <2> QED BY <1>1, <1>2, BoundedInduction
<1>4. n \in 0 .. n
    OBVIOUS
<1> QED BY <1>3, <1>4 DEF Unfolds

-----------------------------------------------------------------------------
(* Concatenations.                                                         *)

\* The beginnings of the concatenation of a sequence of sequences.
Flattening(seqs) ==
    CHOOSE flatten : flatten = [i \in 1 .. Len(seqs) |->
                                   IF i = 1 THEN seqs[i] ELSE flatten[i - 1] \o seqs[i]]
\* It is what FlattenSeq computes.
LEMMA FlattenExists ==
    ASSUME NEW U, NEW s \in Seq(Seq(U)), Len(s) # 0
    PROVE  /\ Flattening(s) \in [1 .. Len(s) -> Seq(U)]
           /\ Flattening(s)[1] = s[1]
           /\ \A k \in 2 .. Len(s) : Flattening(s)[k] = Flattening(s)[k - 1] \o s[k]
           /\ FlattenSeq(s) = Flattening(s)[Len(s)]
<1> DEFINE D == Seq(U)
           n == Len(s)
           m == n - 1
           F == [k \in 1 .. m |-> [x \in D |-> x \o s[k + 1]]]
           Flat(f) == f = [i \in 1 .. n |-> IF i = 1 THEN s[i] ELSE f[i - 1] \o s[i]]
           flat == Flattening(s)
<1>1. n \in Nat /\ m \in Nat /\ m + 1 = n /\ \A k \in 1 .. n : s[k] \in D
    OBVIOUS
<1>2. \A x \in D, y \in D : x \o y \in D
    OBVIOUS
<1> HIDE DEF D, n
<1>3. F \in [1 .. m -> [D -> D]] /\ s[1] \in D
  <2>1. \A k \in 1 .. m : k + 1 \in 1 .. n
      BY <1>1
  <2>2. 1 \in 1 .. n
      BY <1>1
  <2>3. s[1] \in D
      BY <1>1, <2>2
  <2>4. \A k \in 1 .. m : s[k + 1] \in D
      BY <1>1, <2>1
  <2> QED BY <1>2, <2>3, <2>4
<1>4. Unfolds(m, D, s[1], F)
  <2> HIDE DEF F, m
  <2> QED BY <1>1, <1>3, Recursion
<1>5. PICK g \in [0 .. m -> D] : g[0] = s[1] /\ \A k \in 1 .. m : g[k] = F[k][g[k - 1]]
  <2> HIDE DEF F, m
  <2> QED BY <1>4 DEF Unfolds
<1>6. \A k \in 1 .. m : g[k] = g[k - 1] \o s[k + 1]
  <2>1. \A k \in 1 .. m : k - 1 \in 0 .. m
      BY <1>1
  <2>2. \A k \in 1 .. m : \A x \in D : F[k][x] = x \o s[k + 1]
      OBVIOUS
  <2> HIDE DEF F, m
  <2> QED BY <1>5, <2>1, <2>2
<1> DEFINE f == [i \in 1 .. n |-> g[i - 1]]
<1>7. Flat(f)
  <2>1. ASSUME NEW i \in 1 .. n PROVE f[i] = IF i = 1 THEN s[i] ELSE f[i - 1] \o s[i]
    <3>1. CASE i = 1
        BY <1>5, <3>1
    <3>2. CASE i # 1
      <4>1. i - 1 \in 1 .. m /\ i - 1 \in 1 .. n /\ (i - 1) + 1 = i
          BY <1>1, <3>2
      <4>2. g[i - 1] = g[(i - 1) - 1] \o s[(i - 1) + 1]
          BY <1>6, <4>1
      <4>3. f[i] = g[i - 1] /\ f[i - 1] = g[(i - 1) - 1]
          BY <4>1
      <4> QED BY <3>2, <4>1, <4>2, <4>3
    <3> QED BY <3>1, <3>2
  <2>2. f = [i \in 1 .. n |-> f[i]]
      OBVIOUS
  <2> HIDE DEF f
  <2> QED BY <2>1, <2>2
<1>8. Flat(flat)
    BY <1>7 DEF Flattening, n
<1>9. FlattenSeq(s) = flat[n]
    BY <1>1 DEF FlattenSeq, Flattening, n
<1> HIDE DEF flat
<1>10. flat[1] = s[1] /\ \A k \in 2 .. n : flat[k] = flat[k - 1] \o s[k]
  <2>1. 1 \in 1 .. n /\ \A k \in 2 .. n : k \in 1 .. n /\ k # 1
      BY <1>1
  <2> QED BY <1>8, <2>1
<1> DEFINE Q == {k \in 0 .. m : flat[k + 1] \in D}
<1>11. 0 \in Q
    BY <1>1, <1>3, <1>10
<1>12. ASSUME NEW k \in 0 .. m - 1, k \in Q PROVE k + 1 \in Q
  <2>1. k + 2 \in 2 .. n /\ (k + 2) - 1 = k + 1 /\ k + 1 \in 0 .. m /\ (k + 1) + 1 = k + 2
      BY <1>1
  <2>2. flat[k + 2] = flat[k + 1] \o s[k + 2]
      BY <1>10, <2>1
  <2>3. s[k + 2] \in D
    <3>1. k + 2 \in 1 .. n
        BY <1>1, <2>1
    <3> QED BY <1>1, <3>1
  <2>4. flat[k + 2] \in D
      BY <1>2, <1>12, <2>2, <2>3
  <2> QED BY <2>1, <2>4
<1>13. 0 .. m \subseteq Q
  <2> HIDE DEF Q, m
  <2> QED BY <1>1, <1>11, <1>12, BoundedInduction
<1>14. flat \in [1 .. n -> D]
  <2>1. flat = [k \in 1 .. n |-> flat[k]]
      BY <1>8
  <2>2. ASSUME NEW k \in 1 .. n PROVE flat[k] \in D
    <3>1. k - 1 \in 0 .. m /\ (k - 1) + 1 = k
        BY <1>1
    <3>2. k - 1 \in Q
        BY <1>13, <3>1
    <3> QED BY <3>1, <3>2
  <2> HIDE DEF D
  <2> QED BY <2>1, <2>2
<1> QED BY <1>9, <1>10, <1>14 DEF flat, D, n

\* Sequences that are not empty have a concatenation that is not.
LEMMA FlattenNotEmpty ==
    ASSUME NEW U, NEW s \in Seq(Seq(U)), s # <<>>, \A k \in 1 .. Len(s) : s[k] # <<>>
    PROVE  FlattenSeq(s) \in Seq(U) /\ FlattenSeq(s) # <<>>
<1> DEFINE n == Len(s)
           flat == Flattening(s)
<1>1. n \in Nat /\ n # 0 /\ \A k \in 1 .. n : s[k] \in Seq(U) /\ Len(s[k]) # 0
    OBVIOUS
<1>2. /\ flat \in [1 .. n -> Seq(U)] /\ flat[1] = s[1] /\ FlattenSeq(s) = flat[n]
      /\ \A k \in 2 .. n : flat[k] = flat[k - 1] \o s[k]
    BY <1>1, FlattenExists
<1> HIDE DEF n, flat
<1>3. CASE n = 1
    BY <1>1, <1>2, <1>3
<1>4. CASE n # 1
  <2>1. n \in 2 .. n /\ n - 1 \in 1 .. n /\ n \in 1 .. n
      BY <1>1, <1>4
  <2>2. flat[n - 1] \in Seq(U) /\ s[n] \in Seq(U) /\ Len(s[n]) # 0 /\ flat[n] = flat[n - 1] \o s[n]
      BY <1>1, <1>2, <2>1
  <2>3. Len(flat[n]) = Len(flat[n - 1]) + Len(s[n]) /\ flat[n] \in Seq(U)
      BY <2>2
  <2>4. \A x, y \in Nat : y # 0 => x + y # 0
      OBVIOUS
  <2>5. Len(flat[n]) # 0
    <3>1. Len(flat[n - 1]) \in Nat /\ Len(s[n]) \in Nat
        BY <2>2
    <3> QED BY <2>2, <2>3, <2>4, <3>1
  <2>6. flat[n] # <<>>
      BY <2>5
  <2> QED BY <1>2, <2>3, <2>6
<1> QED BY <1>3, <1>4

\* Sequences of one are strung together in order.
LEMMA FlattenSingles ==
    ASSUME NEW U, NEW t \in Seq(U)
    PROVE  FlattenSeq([k \in 1 .. Len(t) |-> <<t[k]>>]) = t
<1> DEFINE n == Len(t)
           s == [k \in 1 .. n |-> <<t[k]>>]
           flat == Flattening(s)
<1>1. n \in Nat /\ s \in Seq(Seq(U)) /\ Len(s) = n /\ \A k \in 1 .. n : t[k] \in U /\ s[k] = <<t[k]>>
    OBVIOUS
<1>2. CASE n = 0
  <2>1. s = <<>> /\ t = <<>>
      BY <1>2
  <2> QED BY <1>1, <1>2, <2>1 DEF FlattenSeq
<1>3. CASE n # 0
  <2>1. /\ flat[1] = s[1] /\ FlattenSeq(s) = flat[n]
        /\ \A k \in 2 .. n : flat[k] = flat[k - 1] \o s[k]
    <3> HIDE DEF s, n
    <3> QED BY <1>1, <1>3, FlattenExists
  <2> HIDE DEF s, n, flat
  <2> DEFINE m == n - 1
             Q == {k \in 0 .. m : flat[k + 1] = [i \in 1 .. k + 1 |-> t[i]]}
  <2>2. m \in Nat /\ m + 1 = n
      BY <1>1, <1>3
  <2>3. 0 \in Q
    <3>1. <<t[1]>> = [i \in 1 .. 1 |-> t[i]]
        OBVIOUS
    <3>2. flat[0 + 1] = <<t[1]>> /\ 1 \in 1 .. n
        BY <1>1, <1>3, <2>1
    <3> QED BY <2>2, <3>1, <3>2
  <2>4. ASSUME NEW k \in 0 .. m - 1, k \in Q PROVE k + 1 \in Q
    <3> DEFINE j == k + 1
               f == [i \in 1 .. j |-> t[i]]
    <3>1. j \in Nat /\ j + 1 \in 2 .. n /\ (j + 1) - 1 = j /\ j + 1 \in 1 .. n /\ j \in 0 .. m
        BY <2>2
    <3>2. flat[j] = f /\ s[j + 1] = <<t[j + 1]>> /\ flat[j + 1] = f \o <<t[j + 1]>>
      <4>1. flat[j] = f
          BY <2>4
      <4>2. s[j + 1] = <<t[j + 1]>>
          BY <1>1, <3>1
      <4>3. flat[j + 1] = flat[j] \o s[j + 1]
          BY <2>1, <3>1
      <4> QED BY <4>1, <4>2, <4>3
    <3>3. \A i \in 1 .. j + 1 : t[i] \in U
      <4>1. \A i \in 1 .. j + 1 : i \in 1 .. n
          BY <1>1, <3>1
      <4> QED BY <1>1, <4>1
    <3> HIDE DEF j
    <3>4. f \in Seq(U) /\ Len(f) = j
        BY <3>1, <3>3
    <3>5. f \o <<t[j + 1]>> = [i \in 1 .. j + 1 |-> t[i]]
      <4> DEFINE a == f \o <<t[j + 1]>>
                 b == [i \in 1 .. j + 1 |-> t[i]]
      <4>1. <<t[j + 1]>> \in Seq(U) /\ Len(<<t[j + 1]>>) = 1
          BY <3>1, <3>3
      <4>2. a \in Seq(U) /\ Len(a) = j + 1
        <5>1. \A x, y \in Seq(U) : x \o y \in Seq(U) /\ Len(x \o y) = Len(x) + Len(y)
            OBVIOUS
        <5> HIDE DEF f
        <5> QED BY <3>4, <4>1, <5>1
      <4>3. b \in Seq(U) /\ Len(b) = j + 1
          BY <3>1, <3>3
      <4>4. \A i \in 1 .. j + 1 : a[i] = b[i]
          BY <3>1, <3>4, <4>1
      <4> HIDE DEF a, b
      <4>5. a = b
          BY <4>2, <4>3, <4>4, SeqEqual
      <4> QED BY <4>5 DEF a, b
    <3> QED BY <3>1, <3>2, <3>5 DEF j
  <2>5. 0 .. m \subseteq Q
    <3> HIDE DEF Q, m
    <3> QED BY <2>2, <2>3, <2>4, BoundedInduction
  <2>6. m \in Q
      BY <2>2, <2>5
  <2>7. flat[n] = [i \in 1 .. n |-> t[i]]
      BY <2>2, <2>6
  <2>8. t = [i \in 1 .. n |-> t[i]]
      BY DEF n
  <2> QED BY <2>1, <2>7, <2>8 DEF s, n
<1> QED BY <1>1, <1>2, <1>3
=============================================================================
