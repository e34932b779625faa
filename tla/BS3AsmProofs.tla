----------------------------- MODULE BS3AsmProofs -----------------------------
(***************************************************************************)
(* Proofs about the assembler and the loader, for any source, any number   *)
(* of lines, files, macros and embedded files: a program that assembles is *)
(* loaded as it was written, and every reference reaches its label.        *)
(*                                                                         *)
(* The module goes from the data to the steps: induction over sets and     *)
(* sequences; the file a code map is written to, cut into the segments of  *)
(* its blocks; the loader, which has read up to some segment; the table of *)
(* lines and the map of their bytes; pass 1, pass 2 and the whole.         *)
(***************************************************************************)
EXTENDS BS3Asm, SequenceTheorems, FiniteSetTheorems, WellFoundedInduction, TLAPS

-------------------------------------------------------------------------------
(* Induction over the natural numbers, on sets instead of predicates.      *)
LEMMA LeastNat ==
  ASSUME NEW T \in SUBSET Nat, T # {}
  PROVE  \E n \in T : \A m \in T : n <= m
  <1>1. IsWellFoundedOn(OpToRel(<, Nat), Nat)
    BY NatLessThanWellFounded
  <1>2. PICK n \in T : \A m \in T : ~(<<m, n>> \in OpToRel(<, Nat))
    BY <1>1, WFMin
  <1>3. \A m \in T : n <= m
    <2> TAKE m \in T
    <2>1. <<m, n>> \in Nat \X Nat
      OBVIOUS
    <2>2. ~(m < n)
      BY <1>2, <2>1 DEF OpToRel
    <2> QED BY <2>2
  <1> QED BY <1>3

LEMMA SetInduction ==
  ASSUME NEW T \in SUBSET Nat, 0 \in T, \A n \in T : n + 1 \in T
  PROVE  T = Nat
  <1> SUFFICES ASSUME Nat \ T # {} PROVE FALSE
    OBVIOUS
  <1>1. PICK n \in Nat \ T : \A m \in Nat \ T : n <= m
    BY LeastNat
  <1>2. n - 1 \in T
    BY <1>1
  <1> QED BY <1>1, <1>2

-------------------------------------------------------------------------------
(* FlattenSeq: the partial concatenations it is defined by exist, ...      *)
Flattens(f, s, n) == f = [i \in 1..n |-> IF i = 1 THEN s[i] ELSE f[i - 1] \o s[i]]

LEMMA FlattensExists ==
  ASSUME NEW s, NEW n \in Nat
  PROVE  \E f : Flattens(f, s, n)
  <1> DEFINE Good == {m \in Nat : \E f : Flattens(f, s, m)}
  <1>1. 0 \in Good
    <2>1. Flattens([i \in 1..0 |-> 0], s, 0)
      BY DEF Flattens
    <2> QED BY <2>1
  <1>2. ASSUME NEW m \in Good PROVE m + 1 \in Good
    <2>1. m \in Nat /\ \E f : Flattens(f, s, m)
      BY <1>2
    <2>2. PICK f : Flattens(f, s, m)
      BY <2>1
    <2> DEFINE g == [i \in 1..m + 1 |-> IF i = m + 1 THEN IF i = 1 THEN s[i] ELSE f[m] \o s[i]
                                        ELSE f[i]]
    <2>3. \A i \in 1..m + 1 : g[i] = IF i = 1 THEN s[i] ELSE g[i - 1] \o s[i]
      <3> TAKE i \in 1..m + 1
      <3>1. CASE i = 1
        BY <2>1, <2>2, <3>1 DEF Flattens
      <3>2. CASE i # 1 /\ i = m + 1
        <4>1. i - 1 = m /\ m \in 1..m + 1 /\ m # m + 1
          BY <2>1, <3>2
        <4>2. g[i - 1] = f[m] /\ g[i] = f[m] \o s[i]
          BY <3>2, <4>1
        <4> QED BY <3>2, <4>2
      <3>3. CASE i # 1 /\ i # m + 1
        <4>1. i \in 1..m /\ i - 1 \in 1..m + 1 /\ i - 1 # m + 1
          BY <2>1, <3>3
        <4>2. g[i - 1] = f[i - 1] /\ g[i] = f[i]
          BY <3>3, <4>1
        <4>3. f[i] = f[i - 1] \o s[i]
          BY <2>2, <3>3, <4>1 DEF Flattens
        <4> QED BY <3>3, <4>2, <4>3
      <3> QED BY <3>1, <3>2, <3>3
    <2>4. Flattens(g, s, m + 1)
      <3>1. g = [i \in 1..m + 1 |-> g[i]]
        OBVIOUS
      <3> HIDE DEF g
      <3> QED BY <2>3, <3>1 DEF Flattens
    <2>5. \E h : Flattens(h, s, m + 1)
      <3> HIDE DEF g
      <3> QED BY <2>4
    <2> QED BY <2>1, <2>5
  <1>3. Good = Nat
    <2>1. Good \in SUBSET Nat
      OBVIOUS
    <2> HIDE DEF Good
    <2> QED BY <1>1, <1>2, <2>1, SetInduction
  <1> QED BY <1>3

(* ... what they are for some first elements is so for more, ...           *)
LEMMA FlattensLonger ==
  ASSUME NEW n \in Nat, NEW m \in Nat, NEW s, NEW t, NEW f, NEW g,
         Flattens(f, s, n), Flattens(g, t, m), n <= m, \A i \in 1..n : s[i] = t[i]
  PROVE  \A i \in 1..n : f[i] = g[i]
  <1> DEFINE Good == {k \in Nat : k \in 1..n => f[k] = g[k]}
  <1>1. 0 \in Good
    OBVIOUS
  <1>2. ASSUME NEW k \in Good PROVE k + 1 \in Good
    <2>1. k \in Nat /\ (k \in 1..n => f[k] = g[k])
      BY <1>2
    <2>2. ASSUME k + 1 \in 1..n PROVE f[k + 1] = g[k + 1]
      <3>1. CASE k = 0
        BY <2>2, <3>1 DEF Flattens
      <3>2. CASE k > 0
        <4>1. f[k] = g[k] /\ s[k + 1] = t[k + 1]
          BY <2>1, <2>2, <3>2
        <4>2. k + 1 # 1 /\ (k + 1) - 1 = k /\ k + 1 \in 1..n /\ k + 1 \in 1..m
          BY <2>1, <2>2, <3>2
        <4>3. f[k + 1] = f[k] \o s[k + 1] /\ g[k + 1] = g[k] \o t[k + 1]
          <5>1. \A i \in 1..n : f[i] = IF i = 1 THEN s[i] ELSE f[i - 1] \o s[i]
            BY DEF Flattens
          <5>2. \A i \in 1..m : g[i] = IF i = 1 THEN t[i] ELSE g[i - 1] \o t[i]
            BY DEF Flattens
          <5> QED BY <4>2, <5>1, <5>2
        <4> QED BY <4>1, <4>3
      <3> QED BY <2>1, <3>1, <3>2
    <2> QED BY <2>1, <2>2
  <1>3. Good = Nat
    <2>1. Good \in SUBSET Nat
      OBVIOUS
    <2> HIDE DEF Good
    <2> QED BY <1>1, <1>2, <2>1, SetInduction
  <1>4. \A k \in Nat : k \in 1..n => f[k] = g[k]
    BY <1>3
  <1> QED BY <1>4

LEMMA FlattenIsLast ==
  ASSUME NEW X, NEW s \in Seq(X), Len(s) > 0
  PROVE  \E f : Flattens(f, s, Len(s)) /\ FlattenSeq(s) = f[Len(s)]
  <1> DEFINE flatten == CHOOSE f : Flattens(f, s, Len(s))
  <1>1. \E f : Flattens(f, s, Len(s))
    <2>1. Len(s) \in Nat
      OBVIOUS
    <2> QED BY <2>1, FlattensExists
  <1>2. Flattens(flatten, s, Len(s))
    <2> HIDE DEF Flattens
    <2> QED BY <1>1
  <1>3. FlattenSeq(s) = flatten[Len(s)]
    BY DEF FlattenSeq, Flattens
  <1> HIDE DEF flatten
  <1> QED BY <1>2, <1>3

(* ... so that they grow by one element at a time.                         *)
LEMMA FlattenEmpty == FlattenSeq(<<>>) = <<>>
  BY DEF FlattenSeq

LEMMA FlattenAppend ==
  ASSUME NEW X, NEW s \in Seq(Seq(X)), NEW x \in Seq(X)
  PROVE  FlattenSeq(Append(s, x)) = FlattenSeq(s) \o x
  <1>1. PICK t, n : t = Append(s, x) /\ n = Len(s)
    OBVIOUS
  <1>2. /\ n \in Nat /\ t \in Seq(Seq(X)) /\ Len(t) = n + 1 /\ t[n + 1] = x
        /\ \A i \in 1..n : s[i] = t[i]
    BY <1>1
  <1>3. PICK g : Flattens(g, t, n + 1) /\ FlattenSeq(t) = g[n + 1]
    <2>1. Len(t) > 0
      BY <1>2
    <2> QED BY <1>2, <2>1, FlattenIsLast
  <1>4. CASE n = 0
    <2>1. s = <<>>
      BY <1>1, <1>4, EmptySeq
    <2>2. FlattenSeq(s) = <<>>
      BY <2>1, FlattenEmpty
    <2>3. g[n + 1] = x
      BY <1>2, <1>3, <1>4 DEF Flattens
    <2>4. <<>> \o x = x
      OBVIOUS
    <2> QED BY <1>1, <1>3, <2>2, <2>3, <2>4
  <1>5. CASE n > 0
    <2>1. PICK f : Flattens(f, s, n) /\ FlattenSeq(s) = f[n]
      <3>1. Len(s) > 0
        BY <1>1, <1>5
      <3> QED BY <1>1, <3>1, FlattenIsLast
    <2>2. \A i \in 1..n : f[i] = g[i]
      <3>1. n + 1 \in Nat /\ n <= n + 1
        BY <1>2
      <3>2. n \in Nat /\ \A i \in 1..n : s[i] = t[i]
        BY <1>2
      <3>3. Flattens(f, s, n) /\ Flattens(g, t, n + 1)
        BY <1>3, <2>1
      <3> QED BY <3>1, <3>2, <3>3, FlattensLonger
    <2>3. f[n] = g[n]
      <3>1. n \in 1..n
        BY <1>2, <1>5
      <3> QED BY <2>2, <3>1
    <2>4. n + 1 \in 1..n + 1 /\ n + 1 # 1 /\ (n + 1) - 1 = n
      BY <1>2, <1>5
    <2>5. g[n + 1] = g[n] \o t[n + 1]
      BY <1>3, <2>4 DEF Flattens
    <2> QED BY <1>1, <1>2, <1>3, <2>1, <2>3, <2>5
  <1> QED BY <1>2, <1>4, <1>5

(* Every sequence but the empty one is a sequence and one more element.    *)
LEMMA OneMore ==
  ASSUME NEW X, NEW n \in Nat, NEW s \in Seq(X), Len(s) = n + 1
  PROVE  \E r \in Seq(X), x \in X : s = Append(r, x) /\ Len(r) = n
  <1> DEFINE r == [i \in 1..n |-> s[i]]
  <1>1. r \in Seq(X) /\ Len(r) = n
    OBVIOUS
  <1>2. s[n + 1] \in X
    OBVIOUS
  <1>3. s = Append(r, s[n + 1])
    OBVIOUS
  <1> QED BY <1>1, <1>2, <1>3

LEMMA FlattenType ==
  ASSUME NEW X, NEW s \in Seq(Seq(X))
  PROVE  FlattenSeq(s) \in Seq(X)
  <1> DEFINE Good == {n \in Nat : \A t \in Seq(Seq(X)) : Len(t) = n => FlattenSeq(t) \in Seq(X)}
  <1>1. 0 \in Good
    <2> SUFFICES ASSUME NEW t \in Seq(Seq(X)), Len(t) = 0 PROVE FlattenSeq(t) \in Seq(X)
      OBVIOUS
    <2>1. t = <<>>
      BY EmptySeq
    <2>2. <<>> \in Seq(X)
      OBVIOUS
    <2> QED BY <2>1, <2>2, FlattenEmpty
  <1>2. ASSUME NEW n \in Good PROVE n + 1 \in Good
    <2>1. n \in Nat /\ \A t \in Seq(Seq(X)) : Len(t) = n => FlattenSeq(t) \in Seq(X)
      BY <1>2
    <2>2. ASSUME NEW t \in Seq(Seq(X)), Len(t) = n + 1 PROVE FlattenSeq(t) \in Seq(X)
      <3>1. PICK r \in Seq(Seq(X)), x \in Seq(X) : t = Append(r, x) /\ Len(r) = n
        BY <2>1, <2>2, OneMore
      <3>2. FlattenSeq(t) = FlattenSeq(r) \o x
        BY <3>1, FlattenAppend
      <3> QED BY <2>1, <3>1, <3>2
    <2> QED BY <2>1, <2>2
  <1>3. Good = Nat
    <2>1. Good \in SUBSET Nat
      OBVIOUS
    <2> HIDE DEF Good
    <2> QED BY <1>1, <1>2, <2>1, SetInduction
  <1>4. Len(s) \in Good
    BY <1>3
  <1> QED BY <1>4

LEMMA FlattenConcat ==
  ASSUME NEW X, NEW s \in Seq(Seq(X)), NEW u \in Seq(Seq(X))
  PROVE  FlattenSeq(s \o u) = FlattenSeq(s) \o FlattenSeq(u)
  <1> DEFINE Good == {n \in Nat : \A t \in Seq(Seq(X)) : Len(t) = n =>
                                     FlattenSeq(s \o t) = FlattenSeq(s) \o FlattenSeq(t)}
  <1>1. 0 \in Good
    <2> SUFFICES ASSUME NEW t \in Seq(Seq(X)), Len(t) = 0
                 PROVE FlattenSeq(s \o t) = FlattenSeq(s) \o FlattenSeq(t)
      OBVIOUS
    <2>1. t = <<>>
      BY EmptySeq
    <2>2. FlattenSeq(t) = <<>>
      BY <2>1, FlattenEmpty
    <2>3. s \o t = s
      BY <2>1
    <2>4. FlattenSeq(s) \o <<>> = FlattenSeq(s)
      BY FlattenType
    <2> QED BY <2>2, <2>3, <2>4
  <1>2. ASSUME NEW n \in Good PROVE n + 1 \in Good
    <2>1. n \in Nat /\ \A t \in Seq(Seq(X)) : Len(t) = n =>
                          FlattenSeq(s \o t) = FlattenSeq(s) \o FlattenSeq(t)
      BY <1>2
    <2>2. ASSUME NEW t \in Seq(Seq(X)), Len(t) = n + 1
          PROVE  FlattenSeq(s \o t) = FlattenSeq(s) \o FlattenSeq(t)
      <3>1. PICK r \in Seq(Seq(X)), x \in Seq(X) : t = Append(r, x) /\ Len(r) = n
        BY <2>1, <2>2, OneMore
      <3>2. s \o t = Append(s \o r, x) /\ s \o r \in Seq(Seq(X))
        BY <3>1
      <3>3. FlattenSeq(s \o t) = FlattenSeq(s \o r) \o x
        BY <3>2, FlattenAppend
      <3>4. FlattenSeq(t) = FlattenSeq(r) \o x
        BY <3>1, FlattenAppend
      <3>5. FlattenSeq(s \o r) = FlattenSeq(s) \o FlattenSeq(r)
        BY <2>1, <3>1
      <3>6. FlattenSeq(s) \in Seq(X) /\ FlattenSeq(r) \in Seq(X)
        BY FlattenType
      <3>7. (FlattenSeq(s) \o FlattenSeq(r)) \o x = FlattenSeq(s) \o (FlattenSeq(r) \o x)
        <4>1. PICK a, c : a = FlattenSeq(s) /\ c = FlattenSeq(r)
          OBVIOUS
        <4>2. a \in Seq(X) /\ c \in Seq(X) /\ x \in Seq(X)
          BY <3>6, <4>1
        <4>3. (a \o c) \o x = a \o (c \o x)
          BY SMTT(30), <4>2, ConcatAssociative
        <4> QED BY <4>1, <4>3
      <3> QED BY <3>3, <3>4, <3>5, <3>7
    <2> QED BY <2>1, <2>2
  <1>3. Good = Nat
    <2>1. Good \in SUBSET Nat
      OBVIOUS
    <2> HIDE DEF Good
    <2> QED BY <1>1, <1>2, <2>1, SetInduction
  <1>4. Len(u) \in Good
    BY <1>3
  <1> QED BY <1>4

(* Where each part begins in the whole.                                    *)
Offsets(s, off) ==
  /\ off \in [1..Len(s) + 1 -> Nat]
  /\ off[1] = 0
  /\ \A k \in 1..Len(s) : off[k + 1] = off[k] + Len(s[k]) /\ off[k + 1] <= off[Len(s) + 1]

PartsFound(s, off) ==
  /\ Len(FlattenSeq(s)) = off[Len(s) + 1]
  /\ \A k \in 1..Len(s) : \A j \in 1..Len(s[k]) : FlattenSeq(s)[off[k] + j] = s[k][j]

LEMMA FlattenParts ==
  ASSUME NEW X, NEW s \in Seq(Seq(X))
  PROVE  \E off : Offsets(s, off) /\ PartsFound(s, off)
  <1> DEFINE Found(t) == \E off : Offsets(t, off) /\ PartsFound(t, off)
             Good == {n \in Nat : \A t \in Seq(Seq(X)) : Len(t) = n => Found(t)}
  <1>1. 0 \in Good
    <2> SUFFICES ASSUME NEW t \in Seq(Seq(X)), Len(t) = 0 PROVE Found(t)
      OBVIOUS
    <2>1. t = <<>>
      BY EmptySeq
    <2>2. FlattenSeq(t) = <<>>
      BY <2>1, FlattenEmpty
    <2> DEFINE off == [i \in 1..1 |-> 0]
    <2>3. Offsets(t, off) /\ PartsFound(t, off)
      BY <2>1, <2>2 DEF Offsets, PartsFound
    <2> HIDE DEF off
    <2> QED BY <2>3
  <1>2. ASSUME NEW n \in Good PROVE n + 1 \in Good
    <2>1. n \in Nat /\ \A t \in Seq(Seq(X)) : Len(t) = n => Found(t)
      BY <1>2
    <2>2. ASSUME NEW t \in Seq(Seq(X)), Len(t) = n + 1 PROVE Found(t)
      <3>1. PICK r \in Seq(Seq(X)), x \in Seq(X) : t = Append(r, x) /\ Len(r) = n
        BY <2>1, <2>2, OneMore
      <3>2. PICK off : Offsets(r, off) /\ PartsFound(r, off)
        BY <2>1, <3>1
      <3>3. /\ n \in Nat /\ off \in [1..n + 1 -> Nat] /\ off[1] = 0 /\ Len(FlattenSeq(r)) = off[n + 1]
            /\ \A k \in 1..n : off[k + 1] = off[k] + Len(r[k]) /\ off[k + 1] <= off[n + 1]
            /\ \A k \in 1..n : \A j \in 1..Len(r[k]) : FlattenSeq(r)[off[k] + j] = r[k][j]
        BY <2>1, <3>1, <3>2 DEF Offsets, PartsFound
      <3>4. FlattenSeq(t) = FlattenSeq(r) \o x /\ FlattenSeq(r) \in Seq(X) /\ Len(x) \in Nat
        BY <3>1, FlattenAppend, FlattenType
      <3>5. /\ \A k \in 1..n : t[k] = r[k] /\ r[k] \in Seq(X) /\ Len(r[k]) \in Nat
            /\ t[n + 1] = x
        BY <3>1, <2>1
      <3> DEFINE more == [i \in 1..n + 2 |-> IF i = n + 2 THEN off[n + 1] + Len(x) ELSE off[i]]
      <3>6. more \in [1..n + 2 -> Nat] /\ more[n + 2] = off[n + 1] + Len(x)
        <4>1. off[n + 1] + Len(x) \in Nat
          BY <3>3, <3>4
        <4>2. \A i \in 1..n + 2 : i # n + 2 => off[i] \in Nat
          BY <3>3
        <4> QED BY <3>3, <4>1, <4>2
      <3>7. \A i \in 1..n + 1 : more[i] = off[i]
        BY <3>3
      <3> HIDE DEF more
      <3>8. Offsets(t, more)
        <4>1. more[1] = 0
          BY <3>3, <3>7
        <4>2. ASSUME NEW k \in 1..n + 1 PROVE more[k + 1] = more[k] + Len(t[k]) /\ more[k + 1] <= more[n + 2]
          <5>1. CASE k = n + 1
            <6>1. k + 1 = n + 2 /\ n + 1 \in 1..n + 1 /\ t[k] = x
              BY <3>3, <3>5, <5>1
            <6>2. more[k] = off[n + 1] /\ off[n + 1] \in Nat
              BY <3>3, <3>7, <5>1, <6>1
            <6> QED BY SMTT(30), <3>4, <3>6, <6>1, <6>2
          <5>2. CASE k # n + 1
            <6>1. k \in 1..n /\ k + 1 \in 1..n + 1 /\ n + 1 \in 1..n + 1
              BY <3>3, <5>2
            <6>2. more[k + 1] = off[k + 1] /\ more[k] = off[k] /\ t[k] = r[k]
              BY <3>5, <3>7, <6>1
            <6>3. off[k + 1] = off[k] + Len(r[k]) /\ off[k + 1] <= off[n + 1]
              BY <3>3, <6>1
            <6>4. off[k + 1] \in Nat /\ off[n + 1] \in Nat
              BY <3>3, <6>1
            <6> QED BY SMTT(30), <3>4, <3>6, <6>2, <6>3, <6>4
          <5> QED BY <5>1, <5>2
        <4>3. Len(t) = n + 1 /\ Len(t) + 1 = n + 2
          BY <2>2, <3>3
        <4> QED BY <3>6, <4>1, <4>2, <4>3 DEF Offsets
      <3>9. PartsFound(t, more)
        <4>1. Len(FlattenSeq(t)) = more[n + 2]
          <5>1. PICK c : c = FlattenSeq(r)
            OBVIOUS
          <5>2. c \in Seq(X) /\ x \in Seq(X)
            BY <3>4, <5>1
          <5>3. Len(c \o x) = Len(c) + Len(x)
            BY <5>2
          <5> QED BY <3>3, <3>4, <3>6, <5>1, <5>3
        <4>2. ASSUME NEW k \in 1..n + 1, NEW j \in 1..Len(t[k])
              PROVE  FlattenSeq(t)[more[k] + j] = t[k][j]
          <5>1. CASE k = n + 1
            <6>1. more[k] = Len(FlattenSeq(r)) /\ t[k] = x
              BY <3>3, <3>5, <3>7, <5>1
            <6> QED BY <3>4, <6>1
          <5>2. CASE k # n + 1
            <6>1. k \in 1..n /\ k \in 1..n + 1
              BY <3>3, <5>2
            <6>2. more[k] = off[k] /\ t[k] = r[k] /\ off[k] \in Nat /\ off[k + 1] \in Nat
              BY <3>3, <3>5, <3>7, <6>1
            <6>3. off[k + 1] = off[k] + Len(r[k]) /\ off[k + 1] <= Len(FlattenSeq(r))
              BY <3>3, <6>1
            <6>4. FlattenSeq(r)[off[k] + j] = r[k][j]
              BY <3>3, <6>1, <6>2
            <6>5. off[k] + j \in 1..Len(FlattenSeq(r))
              <7>1. PICK d, e : d = Len(r[k]) /\ e = Len(FlattenSeq(r))
                OBVIOUS
              <7>2. d \in Nat
                BY <3>5, <6>1, <7>1
              <7>3. e \in Nat
                BY <3>4, <7>1
              <7>4. j \in 1..d
                BY <6>2, <7>1
              <7>5. off[k] \in Nat /\ off[k] + d <= e
                BY <6>2, <6>3, <7>1
              <7>6. off[k] + j \in 1..e
                BY SMTT(30), <7>2, <7>3, <7>4, <7>5
              <7> QED BY <7>1, <7>6
            <6> QED BY <3>4, <6>2, <6>4, <6>5
          <5> QED BY <5>1, <5>2
        <4>3. Len(t) + 1 = n + 2
          BY <2>2, <3>3
        <4> QED BY <2>2, <4>1, <4>2, <4>3 DEF PartsFound
      <3> QED BY <3>8, <3>9
    <2> QED BY <2>1, <2>2
  <1>3. Good = Nat
    <2>1. Good \in SUBSET Nat
      OBVIOUS
    <2> HIDE DEF Good
    <2> QED BY <1>1, <1>2, <2>1, SetInduction
  <1>4. Len(s) \in Good
    BY <1>3
  <1> QED BY <1>4

(* A sequence element by element, and the concatenation of such sequences. *)
MapOf(G, s) == [k \in 1..Len(s) |-> G[s[k]]]
PartsOf(G, s) == [k \in 1..Len(s) |-> FlattenSeq(MapOf(G, s[k]))]

LEMMA MapOfType ==
  ASSUME NEW X, NEW Y, NEW G, NEW s \in Seq(X), \A x \in X : G[x] \in Y
  PROVE  MapOf(G, s) \in Seq(Y) /\ Len(MapOf(G, s)) = Len(s)
  <1>1. Len(s) \in Nat /\ \A k \in 1..Len(s) : s[k] \in X
    OBVIOUS
  <1>2. \A k \in 1..Len(s) : G[s[k]] \in Y
    BY <1>1
  <1> QED BY <1>1, <1>2 DEF MapOf

LEMMA MapOfConcat ==
  ASSUME NEW X, NEW G, NEW s \in Seq(X), NEW t \in Seq(X)
  PROVE  MapOf(G, s \o t) = MapOf(G, s) \o MapOf(G, t)
  <1> DEFINE both == MapOf(G, s \o t)
             apart == MapOf(G, s) \o MapOf(G, t)
  <1>0. PICK Y : \A x \in X : G[x] \in Y
    <2>1. \A x \in X : G[x] \in {G[z] : z \in X}
      OBVIOUS
    <2> QED BY <2>1
  <1>1. PICK n, m : n = Len(s) /\ m = Len(t)
    OBVIOUS
  <1>2. /\ n \in Nat /\ m \in Nat /\ s \o t \in Seq(X) /\ Len(s \o t) = n + m
        /\ \A k \in 1..n + m : (s \o t)[k] = IF k <= n THEN s[k] ELSE t[k - n]
    BY <1>1
  <1>3. /\ MapOf(G, s) \in Seq(Y) /\ Len(MapOf(G, s)) = n
        /\ MapOf(G, t) \in Seq(Y) /\ Len(MapOf(G, t)) = m
        /\ both \in Seq(Y) /\ Len(both) = n + m
    <2>1. MapOf(G, s) \in Seq(Y) /\ Len(MapOf(G, s)) = Len(s)
      BY <1>0, MapOfType
    <2>2. MapOf(G, t) \in Seq(Y) /\ Len(MapOf(G, t)) = Len(t)
      BY <1>0, MapOfType
    <2>3. PICK u : u = s \o t
      OBVIOUS
    <2>4. MapOf(G, u) \in Seq(Y) /\ Len(MapOf(G, u)) = Len(u)
      <3>1. u \in Seq(X)
        BY <1>2, <2>3
      <3> QED BY <1>0, <3>1, MapOfType
    <2> QED BY <1>1, <1>2, <2>1, <2>2, <2>3, <2>4
  <1>4. /\ apart \in Seq(Y) /\ Len(apart) = n + m
        /\ \A k \in 1..n + m : apart[k] = IF k <= n THEN MapOf(G, s)[k] ELSE MapOf(G, t)[k - n]
    <2>1. PICK a, b : a = MapOf(G, s) /\ b = MapOf(G, t)
      OBVIOUS
    <2>2. a \in Seq(Y) /\ b \in Seq(Y) /\ Len(a) = n /\ Len(b) = m
      BY <1>3, <2>1
    <2>3. /\ a \o b \in Seq(Y) /\ Len(a \o b) = n + m
          /\ \A k \in 1..n + m : (a \o b)[k] = IF k <= n THEN a[k] ELSE b[k - n]
      <3>1. a \in Seq(Y) /\ b \in Seq(Y)
        BY <2>2
      <3>2. /\ a \o b \in Seq(Y) /\ Len(a \o b) = Len(a) + Len(b)
            /\ \A k \in 1..Len(a) + Len(b) : (a \o b)[k] = IF k <= Len(a) THEN a[k] ELSE b[k - Len(a)]
        BY <3>1, ConcatProperties, Zenon
      <3> QED BY <2>2, <3>2
    <2> QED BY <2>1, <2>3
  <1>5. ASSUME NEW k \in 1..n + m PROVE both[k] = apart[k]
    <2>1. both[k] = G[(s \o t)[k]]
      BY <1>2 DEF MapOf
    <2>2. CASE k <= n
      <3>1. k \in 1..Len(s)
        BY <1>1, <1>2, <2>2
      <3>2. MapOf(G, s)[k] = G[s[k]]
        BY <3>1 DEF MapOf
      <3> QED BY <1>2, <1>4, <2>1, <2>2, <3>2
    <2>3. CASE ~(k <= n)
      <3>1. k - n \in 1..Len(t)
        BY <1>1, <1>2, <2>3
      <3>2. MapOf(G, t)[k - n] = G[t[k - n]]
        BY <3>1 DEF MapOf
      <3> QED BY <1>2, <1>4, <2>1, <2>3, <3>2
    <2> QED BY <2>2, <2>3
  <1> HIDE DEF both, apart
  <1>6. both = apart
    BY <1>2, <1>3, <1>4, <1>5, SeqEqual
  <1> QED BY <1>6 DEF both, apart

LEMMA FlattenSingle ==
  ASSUME NEW X, NEW x \in Seq(X)
  PROVE  FlattenSeq(<<x>>) = x
  <1>1. <<x>> = Append(<<>>, x) /\ <<>> \in Seq(Seq(X))
    OBVIOUS
  <1>2. FlattenSeq(Append(<<>>, x)) = FlattenSeq(<<>>) \o x
    BY <1>1, FlattenAppend
  <1>3. <<>> \o x = x
    OBVIOUS
  <1> QED BY <1>1, <1>2, <1>3, FlattenEmpty

LEMMA FlattenMap ==
  ASSUME NEW X, NEW Y, NEW G, NEW s \in Seq(Seq(X)),
         \A x \in X : G[x] \in Seq(Y)
  PROVE  FlattenSeq(MapOf(G, FlattenSeq(s))) = FlattenSeq(PartsOf(G, s))
  <1> DEFINE Same(t) == FlattenSeq(MapOf(G, FlattenSeq(t))) = FlattenSeq(PartsOf(G, t))
             Good == {n \in Nat : \A t \in Seq(Seq(X)) : Len(t) = n => Same(t)}
  <1>1. 0 \in Good
    <2> SUFFICES ASSUME NEW t \in Seq(Seq(X)), Len(t) = 0 PROVE Same(t)
      OBVIOUS
    <2>1. t = <<>>
      BY EmptySeq
    <2>2. FlattenSeq(t) = <<>>
      BY <2>1, FlattenEmpty
    <2>3. MapOf(G, <<>>) = <<>> /\ PartsOf(G, <<>>) = <<>>
      BY DEF MapOf, PartsOf
    <2> QED BY <2>1, <2>2, <2>3
  <1>2. ASSUME NEW n \in Good PROVE n + 1 \in Good
    <2>1. n \in Nat /\ \A t \in Seq(Seq(X)) : Len(t) = n => Same(t)
      BY <1>2
    <2>2. ASSUME NEW t \in Seq(Seq(X)), Len(t) = n + 1 PROVE Same(t)
      <3>1. PICK r \in Seq(Seq(X)), x \in Seq(X) : t = Append(r, x) /\ Len(r) = n
        BY <2>1, <2>2, OneMore
      <3>2. FlattenSeq(t) = FlattenSeq(r) \o x /\ FlattenSeq(r) \in Seq(X)
        BY <3>1, FlattenAppend, FlattenType
      <3>3. MapOf(G, FlattenSeq(t)) = MapOf(G, FlattenSeq(r)) \o MapOf(G, x)
        <4>1. PICK f : f = FlattenSeq(r)
          OBVIOUS
        <4>2. f \in Seq(X)
          BY <3>2, <4>1
        <4>3. MapOf(G, f \o x) = MapOf(G, f) \o MapOf(G, x)
          BY <4>2, MapOfConcat
        <4> QED BY <3>2, <4>1, <4>3
      <3>4. MapOf(G, FlattenSeq(r)) \in Seq(Seq(Y)) /\ MapOf(G, x) \in Seq(Seq(Y))
        BY <3>2, MapOfType
      <3>5. FlattenSeq(MapOf(G, FlattenSeq(t)))
              = FlattenSeq(MapOf(G, FlattenSeq(r))) \o FlattenSeq(MapOf(G, x))
        BY <3>3, <3>4, FlattenConcat
      <3>6. PartsOf(G, t) = Append(PartsOf(G, r), FlattenSeq(MapOf(G, x)))
        <4>1. \A k \in 1..n : t[k] = r[k]
          BY <2>1, <3>1
        <4>2. t[n + 1] = x /\ Len(PartsOf(G, r)) = n
          BY <2>1, <3>1 DEF PartsOf
        <4>3. \A k \in 1..n : PartsOf(G, r)[k] = FlattenSeq(MapOf(G, t[k]))
          BY <3>1, <4>1 DEF PartsOf
        <4>4. PICK p, z : p = PartsOf(G, r) /\ z = FlattenSeq(MapOf(G, x))
          OBVIOUS
        <4>5. Append(p, z) = [k \in 1..n + 1 |-> IF k = n + 1 THEN z ELSE p[k]]
          BY <2>1, <4>2, <4>4, <3>1 DEF PartsOf
        <4>6. \A k \in 1..n + 1 : FlattenSeq(MapOf(G, t[k])) = IF k = n + 1 THEN z ELSE p[k]
          BY <2>1, <4>2, <4>3, <4>4
        <4>7. PartsOf(G, t) = [k \in 1..n + 1 |-> IF k = n + 1 THEN z ELSE p[k]]
          BY <2>2, <4>6 DEF PartsOf
        <4> QED BY <4>4, <4>5, <4>7
      <3>7. PartsOf(G, r) \in Seq(Seq(Y)) /\ FlattenSeq(MapOf(G, x)) \in Seq(Y)
        <4>1. FlattenSeq(MapOf(G, x)) \in Seq(Y)
          BY <3>4, FlattenType
        <4>2. ASSUME NEW k \in 1..n PROVE FlattenSeq(MapOf(G, r[k])) \in Seq(Y)
          <5>1. r[k] \in Seq(X)
            BY <2>1, <3>1, <4>2
          <5>2. MapOf(G, r[k]) \in Seq(Seq(Y))
            BY <5>1, MapOfType
          <5> QED BY <5>2, FlattenType
        <4>3. PartsOf(G, r) = [k \in 1..n |-> FlattenSeq(MapOf(G, r[k]))]
          BY <3>1 DEF PartsOf
        <4> QED BY <2>1, <4>1, <4>2, <4>3
      <3>8. FlattenSeq(PartsOf(G, t)) = FlattenSeq(PartsOf(G, r)) \o FlattenSeq(MapOf(G, x))
        BY <3>6, <3>7, FlattenAppend
      <3>9. Same(r)
        BY <2>1, <3>1
      <3> QED BY <3>5, <3>8, <3>9
    <2> QED BY <2>1, <2>2
  <1>3. Good = Nat
    <2>1. Good \in SUBSET Nat
      OBVIOUS
    <2> HIDE DEF Good
    <2> QED BY <1>1, <1>2, <2>1, SetInduction
  <1>4. Len(s) \in Good
    BY <1>3
  <1> QED BY <1>4

-------------------------------------------------------------------------------
(* The runs of a code: increasing, apart, and all of it.                   *)
IsCode(code) == DOMAIN code \subseteq 0..(META - 1) /\ code \in [DOMAIN code -> Byte]

Increasing(s, n) == \A i, j \in 1..n : i < j => s[i] < s[j]

LEMMA AscendingExists ==
  ASSUME NEW n \in Nat, NEW S \in SUBSET (0..n - 1)
  PROVE  \E s \in [1..Cardinality(S) -> S] : Increasing(s, Cardinality(S))
  <1> DEFINE Has(T) == \E s \in [1..Cardinality(T) -> T] : Increasing(s, Cardinality(T))
             Good == {m \in Nat : \A T \in SUBSET (0..m - 1) : Has(T)}
  <1>1. 0 \in Good
    <2> SUFFICES ASSUME NEW T \in SUBSET (0..0 - 1) PROVE Has(T)
      OBVIOUS
    <2>1. T = {}
      OBVIOUS
    <2>2. Cardinality(T) = 0
      BY <2>1, FS_EmptySet
    <2> DEFINE s == [i \in 1..0 |-> 0]
    <2>3. s \in [1..0 -> T] /\ Increasing(s, 0)
      BY DEF Increasing
    <2> QED BY <2>2, <2>3
  <1>2. ASSUME NEW m \in Good PROVE m + 1 \in Good
    <2>1. m \in Nat /\ \A T \in SUBSET (0..m - 1) : Has(T)
      BY <1>2
    <2>2. ASSUME NEW T \in SUBSET (0..(m + 1) - 1) PROVE Has(T)
      <3>1. CASE m \notin T
        <4>1. T \in SUBSET (0..m - 1)
          BY <2>1, <3>1
        <4> QED BY <2>1, <4>1
      <3>2. CASE m \in T
        <4>1. PICK r : r = T \ {m}
          OBVIOUS
        <4>2. r \in SUBSET (0..m - 1) /\ T = r \cup {m} /\ m \notin r
          BY <2>1, <3>2, <4>1
        <4>3. IsFiniteSet(r)
          <5>1. IsFiniteSet(0..m - 1)
            BY <2>1, FS_Interval
          <5> QED BY <4>2, <5>1, FS_Subset
        <4>4. PICK c : c = Cardinality(r)
          OBVIOUS
        <4>5. c \in Nat /\ Cardinality(T) = c + 1
          BY <4>2, <4>3, <4>4, FS_CardinalityType, FS_AddElement
        <4>6. PICK s \in [1..c -> r] : Increasing(s, c)
          BY <2>1, <4>2, <4>4
        <4> DEFINE t == [i \in 1..c + 1 |-> IF i = c + 1 THEN m ELSE s[i]]
        <4>7. t \in [1..c + 1 -> T]
          <5>1. \A i \in 1..c + 1 : i # c + 1 => i \in 1..c
            BY <4>5
          <5> QED BY <4>2, <4>6, <5>1
        <4>8. Increasing(t, c + 1)
          <5> SUFFICES ASSUME NEW i \in 1..c + 1, NEW j \in 1..c + 1, i < j PROVE t[i] < t[j]
            BY DEF Increasing
          <5>1. i \in 1..c /\ t[i] = s[i] /\ s[i] \in r
            BY <4>5, <4>6
          <5>2. CASE j = c + 1
            <6>1. s[i] < m
              <7>1. \A x \in r : x < m
                BY <2>1, <4>2
              <7> QED BY <5>1, <7>1
            <6> QED BY <5>1, <5>2, <6>1
          <5>3. CASE j # c + 1
            <6>1. j \in 1..c /\ t[j] = s[j]
              BY <4>5, <5>3
            <6> QED BY <4>6, <5>1, <6>1 DEF Increasing
          <5> QED BY <5>2, <5>3
        <4> HIDE DEF t
        <4> QED BY <4>5, <4>7, <4>8
      <3> QED BY <3>1, <3>2
    <2> QED BY <2>1, <2>2
  <1>3. Good = Nat
    <2>1. Good \in SUBSET Nat
      OBVIOUS
    <2> HIDE DEF Good
    <2> QED BY <1>1, <1>2, <2>1, SetInduction
  <1> QED BY <1>3

LEMMA AscendingProperties ==
  ASSUME NEW n \in Nat, NEW S \in SUBSET (0..n - 1)
  PROVE  /\ Cardinality(S) \in Nat
         /\ Ascending(S) \in [1..Cardinality(S) -> S]
         /\ Increasing(Ascending(S), Cardinality(S))
         /\ \A x \in S : \E i \in 1..Cardinality(S) : Ascending(S)[i] = x
  <1>1. IsFiniteSet(S)
    <2>1. IsFiniteSet(0..n - 1)
      BY FS_Interval
    <2> QED BY <2>1, FS_Subset
  <1>2. PICK c, s : c = Cardinality(S) /\ s = Ascending(S)
    OBVIOUS
  <1>3. c \in Nat
    BY <1>1, <1>2, FS_CardinalityType
  <1>4. s \in [1..c -> S] /\ Increasing(s, c)
    <2>1. \E t \in [1..c -> S] : Increasing(t, c)
      BY <1>2, AscendingExists
    <2> QED BY <1>2, <2>1 DEF Ascending, Increasing
  <1>5. s \in Injection(1..c, S)
    <2>0. \A x \in S : x \in Int
      OBVIOUS
    <2>1. \A i \in 1..c : s[i] \in Int
      BY <1>4, <2>0
    <2>2. ASSUME NEW i \in 1..c, NEW j \in 1..c, s[i] = s[j] PROVE i = j
      <3>1. ~(i < j) /\ ~(j < i)
        BY <1>4, <2>1, <2>2 DEF Increasing
      <3> QED BY <3>1
    <2>3. s \in [1..c -> S]
      BY <1>4
    <2>4. \A i, j \in 1..c : s[i] = s[j] => i = j
      BY <2>2
    <2> QED BY <2>3, <2>4 DEF Injection, IsInjective
  <1>6. s \in Surjection(1..c, S)
    <2>1. Cardinality(1..c) = c
      BY <1>3, FS_Interval
    <2> QED BY <1>1, <1>2, <1>5, <2>1, FS_Injection
  <1>7. \A x \in S : \E i \in 1..c : s[i] = x
    BY <1>6 DEF Surjection
  <1> QED BY <1>2, <1>3, <1>4, <1>7

LEMMA MetaType == META \in Nat
  BY DEF META

LEMMA EndProperties ==
  ASSUME NEW code, NEW a \in DOMAIN code, DOMAIN code \subseteq 0..(META - 1)
  PROVE  /\ End(code, a) \in 1..META /\ a < End(code, a) /\ End(code, a) \notin DOMAIN code
         /\ \A b \in a..(End(code, a) - 1) : b \in DOMAIN code
  <1> DEFINE After == {e \in Nat : e > a /\ e \notin DOMAIN code}
  <1>1. a \in 0..(META - 1) /\ META \in Nat
    BY MetaType
  <1>2. META \in After
    BY <1>1, MetaType
  <1>3. PICK e \in After : \A m \in After : e <= m
    <2>1. After \in SUBSET Nat /\ After # {}
      BY <1>2
    <2> HIDE DEF After
    <2> QED BY <2>1, LeastNat
  <1>4. \A b \in a..e - 1 : b \in DOMAIN code
    <2> SUFFICES ASSUME NEW b \in a..e - 1, b \notin DOMAIN code PROVE FALSE
      OBVIOUS
    <2>1. b \in Nat /\ b # a /\ b < e
      BY <1>1, <1>3
    <2>2. b \in After
      BY <1>1, <2>1
    <2> QED BY <1>3, <2>1, <2>2
  <1>5. e \in {b + 1 : b \in DOMAIN code}
    <2>1. e - 1 \in a..e - 1 /\ e = (e - 1) + 1
      BY <1>1, <1>3
    <2>2. e - 1 \in DOMAIN code
      BY <1>4, <2>1
    <2> QED BY <2>1, <2>2
  <1>6. /\ End(code, a) \in {b + 1 : b \in DOMAIN code}
        /\ a < End(code, a) /\ End(code, a) \notin DOMAIN code
        /\ \A b \in a..(End(code, a) - 1) : b \in DOMAIN code
    <2>1. e > a /\ e \notin DOMAIN code /\ \A b \in a..(e - 1) : b \in DOMAIN code
      BY <1>3, <1>4
    <2>2. \E x \in {b + 1 : b \in DOMAIN code} :
            x > a /\ x \notin DOMAIN code /\ \A b \in a..(x - 1) : b \in DOMAIN code
      BY <1>5, <2>1
    <2>3. /\ End(code, a) \in {b + 1 : b \in DOMAIN code}
          /\ End(code, a) > a /\ End(code, a) \notin DOMAIN code
          /\ \A b \in a..(End(code, a) - 1) : b \in DOMAIN code
      BY <2>2 DEF End
    <2>4. \A x \in {b + 1 : b \in DOMAIN code} : x \in Int
      OBVIOUS
    <2> QED BY <1>1, <2>3, <2>4
  <1>7. \A x \in {b + 1 : b \in DOMAIN code} : x \in 1..META
    BY MetaType
  <1> QED BY <1>6, <1>7

(* A code as its runs: r.start and r.end are increasing, the end of a run  *)
(* being out of it and before the next.                                    *)
RunsOf(code, r) ==
  /\ r.n \in Nat
  /\ r.start \in [1..r.n -> 0..(META - 1)]
  /\ r.end \in [1..r.n -> 1..META]
  /\ \A j \in 1..r.n : r.start[j] < r.end[j] /\ \A b \in r.start[j]..r.end[j] - 1 : b \in DOMAIN code
  /\ \A i, j \in 1..r.n : i < j => r.end[i] < r.start[j]
  /\ \A b \in DOMAIN code : \E j \in 1..r.n : r.start[j] <= b /\ b < r.end[j]

RunsFrom(code) ==
  LET starts == Ascending(Starts(code))
      n == Cardinality(Starts(code))
  IN [n |-> n, start |-> starts, end |-> [j \in 1..n |-> End(code, starts[j])]]

LEMMA InRun ==
  ASSUME NEW code, DOMAIN code \subseteq 0..(META - 1), NEW b \in DOMAIN code
  PROVE  \E a \in Starts(code) : a <= b /\ b < End(code, a)
  <1> DEFINE From == {m \in Nat : m <= b /\ \A c \in m..b : c \in DOMAIN code}
  <1>1. b \in Nat
    BY MetaType
  <1>2. b \in From
    BY <1>1
  <1>3. PICK a \in From : \A m \in From : a <= m
    <2>1. From \in SUBSET Nat /\ From # {}
      BY <1>2
    <2> HIDE DEF From
    <2> QED BY <2>1, LeastNat
  <1>4. a \in DOMAIN code /\ a \in Nat /\ a <= b
    BY <1>1, <1>3
  <1>5. a - 1 \notin DOMAIN code
    <2> SUFFICES ASSUME a - 1 \in DOMAIN code PROVE FALSE
      OBVIOUS
    <2>1. a - 1 \in Nat
      BY MetaType
    <2>2. \A c \in a - 1..b : c = a - 1 \/ c \in a..b
      BY <1>1, <1>4
    <2>3. a - 1 \in From
      BY <1>1, <1>3, <1>4, <2>1, <2>2
    <2> QED BY <1>3, <1>4, <2>3
  <1>6. a \in Starts(code)
    BY <1>4, <1>5 DEF Starts
  <1>7. /\ End(code, a) \in 1..META /\ a < End(code, a) /\ End(code, a) \notin DOMAIN code
    BY <1>4, EndProperties
  <1>8. b < End(code, a)
    <2> SUFFICES ASSUME ~(b < End(code, a)) PROVE FALSE
      OBVIOUS
    <2>1. End(code, a) \in a..b
      BY <1>1, <1>4, <1>7, MetaType
    <2> QED BY <1>3, <1>7, <2>1
  <1> QED BY <1>4, <1>6, <1>8

LEMMA RunsFromCode ==
  ASSUME NEW code, DOMAIN code \subseteq 0..(META - 1)
  PROVE  RunsOf(code, RunsFrom(code))
  <1> DEFINE S == Starts(code)
  <1>1. PICK n, s : n = Cardinality(S) /\ s = Ascending(S)
    OBVIOUS
  <1>2. S \in SUBSET (0..META - 1) /\ S \subseteq DOMAIN code
    BY DEF Starts
  <1>3. n \in Nat /\ s \in [1..n -> S] /\ Increasing(s, n) /\ \A x \in S : \E i \in 1..n : s[i] = x
    <2> HIDE DEF S
    <2> QED BY <1>1, <1>2, MetaType, AscendingProperties
  <1> DEFINE e == [j \in 1..n |-> End(code, s[j])]
             r == [n |-> n, start |-> s, end |-> e]
  <1>4. RunsFrom(code) = r
    BY <1>1 DEF RunsFrom
  <1>5. \A j \in 1..n : s[j] \in DOMAIN code /\ s[j] - 1 \notin DOMAIN code /\ s[j] \in 0..(META - 1)
    BY <1>2, <1>3 DEF Starts
  <1>6. \A j \in 1..n : /\ e[j] = End(code, s[j]) /\ e[j] \in 1..META /\ s[j] < e[j]
                        /\ \A b \in s[j]..e[j] - 1 : b \in DOMAIN code
    <2> TAKE j \in 1..n
    <2>1. s[j] \in DOMAIN code
      BY <1>5
    <2>2. /\ End(code, s[j]) \in 1..META /\ s[j] < End(code, s[j])
          /\ \A b \in s[j]..(End(code, s[j]) - 1) : b \in DOMAIN code
      BY <2>1, EndProperties
    <2> QED BY <2>2
  <1>7. e \in [1..n -> 1..META]
    BY <1>6
  <1> HIDE DEF e
  <1>8. ASSUME NEW i \in 1..n, NEW j \in 1..n, i < j PROVE e[i] < s[j]
    <2>1. s[i] < s[j]
      BY <1>3, <1>8 DEF Increasing
    <2>2. s[j] - 1 \notin s[i]..e[i] - 1
      BY <1>5, <1>6
    <2>3. s[i] \in Int /\ s[j] \in Int /\ e[i] \in Int
      BY <1>5, <1>6, MetaType
    <2> QED BY <2>1, <2>2, <2>3
  <1>9. ASSUME NEW b \in DOMAIN code PROVE \E j \in 1..n : s[j] <= b /\ b < e[j]
    <2>1. PICK a \in Starts(code) : a <= b /\ b < End(code, a)
      BY InRun
    <2>2. PICK j \in 1..n : s[j] = a
      BY <1>3
    <2> QED BY <1>6, <2>1, <2>2
  <1>10. r.n = n /\ r.start = s /\ r.end = e
    OBVIOUS
  <1>11. s \in [1..n -> 0..(META - 1)]
    BY <1>3, <1>5
  <1> HIDE DEF r, S
  <1>12. RunsOf(code, r)
    BY <1>3, <1>6, <1>7, <1>8, <1>9, <1>10, <1>11 DEF RunsOf
  <1> QED BY <1>4, <1>12

(* A run in the file: its address, its length, its bytes.                  *)
Run(code, a, e) == <<a, e - a>> \o [k \in 1..(e - a) |-> code[a + k - 1]]
RunsAsWritten(code, r) == [j \in 1..r.n |-> Run(code, r.start[j], r.end[j])]

LEMMA IsWord ==
  ASSUME NEW n \in Nat, n <= META
  PROVE  n % 65536 = n
  BY DEF META

LEMMA SaveRuns ==
  ASSUME NEW code, DOMAIN code \subseteq 0..(META - 1)
  PROVE  Save(code) = <<SIGNATURE>> \o FlattenSeq(RunsAsWritten(code, RunsFrom(code))) \o <<0, 0>>
  <1>1. PICK n, s : n = Cardinality(Starts(code)) /\ s = Ascending(Starts(code))
    OBVIOUS
  <1>2. PICK r : r = RunsFrom(code)
    OBVIOUS
  <1>3. RunsOf(code, r) /\ r.n = n /\ r.start = s
    BY <1>1, <1>2, RunsFromCode DEF RunsFrom
  <1>4. \A j \in 1..n : r.end[j] = End(code, s[j])
    BY <1>1, <1>2 DEF RunsFrom
  <1>5. ASSUME NEW j \in 1..n PROVE Block(code, s[j]) = Run(code, r.start[j], r.end[j])
    <2>1. s[j] \in Nat /\ r.end[j] \in Nat /\ s[j] < r.end[j] /\ r.end[j] <= META
      BY <1>3, MetaType DEF RunsOf
    <2>2. (r.end[j] - s[j]) % 65536 = r.end[j] - s[j]
      <3>1. r.end[j] - s[j] \in Nat /\ r.end[j] - s[j] <= META
        BY <2>1, MetaType
      <3> QED BY <3>1, IsWord
    <2>3. PICK a, e : a = s[j] /\ e = r.end[j]
      OBVIOUS
    <2>4. End(code, a) = e /\ (e - a) % 65536 = e - a /\ r.start[j] = a
      BY <1>3, <1>4, <2>2, <2>3
    <2>5. Block(code, a) = Run(code, a, e)
      <3> DEFINE At(x, length) == <<a, length>> \o [k \in 1..(x - a) |-> code[a + k - 1]]
      <3>1. Block(code, a) = At(End(code, a), (End(code, a) - a) % 65536)
        BY DEF Block
      <3>2. Run(code, a, e) = At(e, e - a)
        BY DEF Run
      <3> HIDE DEF At
      <3> QED BY <2>4, <3>1, <3>2
    <2> QED BY <2>3, <2>4, <2>5
  <1>6. Blocks(code) = RunsAsWritten(code, r)
    BY <1>1, <1>3, <1>5 DEF Blocks, RunsAsWritten
  <1> QED BY <1>2, <1>6 DEF Save

-------------------------------------------------------------------------------
(* x is in F from p on.                                                    *)
Placed(F, p, x) == p + Len(x) <= Len(F) + 1 /\ \A i \in 1..Len(x) : F[p + i - 1] = x[i]

LEMMA PlacedConcat ==
  ASSUME NEW X, NEW x \in Seq(X), NEW y \in Seq(X), NEW F \in Seq(X), NEW p \in Nat,
         Placed(F, p, x \o y)
  PROVE  Placed(F, p, x) /\ Placed(F, p + Len(x), y)
  <1>1. PICK n, m, l : n = Len(x) /\ m = Len(y) /\ l = Len(F)
    OBVIOUS
  <1>2. /\ n \in Nat /\ m \in Nat /\ l \in Nat /\ Len(x \o y) = n + m
        /\ \A i \in 1..n + m : (x \o y)[i] = IF i <= n THEN x[i] ELSE y[i - n]
    BY <1>1, ConcatProperties, LenProperties
  <1>3. p + (n + m) <= l + 1 /\ \A i \in 1..n + m : F[p + i - 1] = (x \o y)[i]
    BY <1>1, <1>2 DEF Placed
  <1>4. ASSUME NEW i \in 1..n PROVE F[p + i - 1] = x[i]
    <2>1. i \in 1..n + m /\ i <= n
      BY <1>2
    <2> QED BY <1>2, <1>3, <2>1
  <1>5. ASSUME NEW i \in 1..m PROVE F[(p + n) + i - 1] = y[i]
    <2>1. n + i \in 1..n + m /\ ~(n + i <= n) /\ (n + i) - n = i /\ p + (n + i) - 1 = (p + n) + i - 1
      BY <1>2
    <2>2. (x \o y)[n + i] = y[i] /\ F[p + (n + i) - 1] = (x \o y)[n + i]
      BY <1>2, <1>3, <2>1
    <2> QED BY <2>1, <2>2
  <1>6. p + n <= l + 1 /\ (p + n) + m <= l + 1
    BY <1>2, <1>3
  <1> QED BY <1>1, <1>4, <1>5, <1>6 DEF Placed

LEMMA PlacedParts ==
  ASSUME NEW X, NEW s \in Seq(Seq(X)), NEW F \in Seq(X), NEW p \in Nat,
         Placed(F, p, FlattenSeq(s))
  PROVE  \E off : /\ Offsets(s, off)
                  /\ Len(FlattenSeq(s)) = off[Len(s) + 1]
                  /\ \A k \in 1..Len(s) : Placed(F, p + off[k], s[k])
  <1>1. PICK off : Offsets(s, off) /\ PartsFound(s, off)
    BY FlattenParts
  <1>2. PICK n, w, l : n = Len(s) /\ w = FlattenSeq(s) /\ l = Len(F)
    OBVIOUS
  <1>3. n \in Nat /\ l \in Nat
    BY <1>2, LenProperties
  <1>4. /\ off \in [1..n + 1 -> Nat] /\ off[1] = 0 /\ Len(w) = off[n + 1]
        /\ \A k \in 1..n : off[k + 1] = off[k] + Len(s[k]) /\ off[k + 1] <= off[n + 1]
        /\ \A k \in 1..n : \A j \in 1..Len(s[k]) : w[off[k] + j] = s[k][j]
    BY <1>1, <1>2 DEF Offsets, PartsFound
  <1>5. p + Len(w) <= l + 1 /\ \A i \in 1..Len(w) : F[p + i - 1] = w[i]
    BY <1>2 DEF Placed
  <1>6. ASSUME NEW k \in 1..n PROVE Placed(F, p + off[k], s[k])
    <2>1. PICK a, m, t : a = off[k] /\ m = Len(s[k]) /\ t = s[k]
      OBVIOUS
    <2>2. a \in Nat /\ m \in Nat /\ a + m <= Len(w) /\ Len(w) \in Nat
      <3>1. s[k] \in Seq(X)
        BY <1>2
      <3>2. k \in 1..n + 1 /\ n + 1 \in 1..n + 1
        BY <1>3
      <3>3. m \in Nat
        BY <2>1, <3>1, LenProperties
      <3>4. off[k] \in Nat /\ off[n + 1] \in Nat
        BY <1>4, <3>2
      <3>5. off[k + 1] = off[k] + Len(s[k]) /\ off[k + 1] <= off[n + 1]
        BY <1>4
      <3> QED BY <1>4, <2>1, <3>3, <3>4, <3>5
    <2>3. \A j \in 1..m : w[a + j] = t[j]
      BY <1>4, <2>1
    <2>4. ASSUME NEW j \in 1..m PROVE F[(p + a) + j - 1] = t[j]
      <3>1. a + j \in 1..Len(w) /\ p + (a + j) - 1 = (p + a) + j - 1
        BY <2>2
      <3>2. F[p + (a + j) - 1] = w[a + j]
        BY <1>5, <3>1
      <3> QED BY <2>3, <3>1, <3>2
    <2>5. (p + a) + m <= l + 1
      BY <1>3, <1>5, <2>2
    <2> QED BY <1>2, <2>1, <2>4, <2>5 DEF Placed
  <1> QED BY <1>1, <1>2, <1>4, <1>6

LEMMA RunType ==
  ASSUME NEW code, IsCode(code), NEW a \in Nat, NEW e \in Nat, a < e,
         \A b \in a..e - 1 : b \in DOMAIN code
  PROVE  /\ Run(code, a, e) \in Seq(Int) /\ Len(Run(code, a, e)) = 2 + (e - a)
         /\ Run(code, a, e)[1] = a /\ Run(code, a, e)[2] = e - a
         /\ \A i \in 1..e - a : Run(code, a, e)[2 + i] = code[a + i - 1]
  <1> DEFINE head == <<a, e - a>>
             bytes == [k \in 1..(e - a) |-> code[a + k - 1]]
  <1>1. head \in Seq(Int) /\ Len(head) = 2 /\ head[1] = a /\ head[2] = e - a
    OBVIOUS
  <1>2. \A k \in 1..e - a : code[a + k - 1] \in Int
    <2>1. \A x \in Byte : x \in Int
      BY DEF Byte
    <2>2. \A k \in 1..e - a : a + k - 1 \in a..e - 1
      OBVIOUS
    <2>3. \A b \in DOMAIN code : code[b] \in Byte
      BY DEF IsCode
    <2> QED BY <2>1, <2>2, <2>3
  <1>3. bytes \in Seq(Int) /\ Len(bytes) = e - a /\ \A i \in 1..e - a : bytes[i] = code[a + i - 1]
    <2>1. e - a \in Nat
      OBVIOUS
    <2> QED BY <1>2, <2>1
  <1> HIDE DEF head, bytes
  <1>4. /\ head \o bytes \in Seq(Int) /\ Len(head \o bytes) = 2 + (e - a)
        /\ \A i \in 1..2 + (e - a) : (head \o bytes)[i] = IF i <= 2 THEN head[i] ELSE bytes[i - 2]
    <2>1. head \in Seq(Int) /\ bytes \in Seq(Int)
      BY <1>1, <1>3
    <2>2. /\ head \o bytes \in Seq(Int) /\ Len(head \o bytes) = Len(head) + Len(bytes)
          /\ \A i \in 1..Len(head) + Len(bytes) :
               (head \o bytes)[i] = IF i <= Len(head) THEN head[i] ELSE bytes[i - Len(head)]
      BY <2>1, ConcatProperties, Zenon
    <2> QED BY <1>1, <1>3, <2>2
  <1>5. (head \o bytes)[1] = a /\ (head \o bytes)[2] = e - a
    BY SMTT(30), <1>1, <1>4
  <1>6. ASSUME NEW i \in 1..e - a PROVE (head \o bytes)[2 + i] = code[a + i - 1]
    <2>1. 2 + i \in 1..2 + (e - a) /\ ~(2 + i <= 2) /\ (2 + i) - 2 = i
      OBVIOUS
    <2> QED BY <1>3, <1>4, <2>1
  <1>7. Run(code, a, e) = head \o bytes
    BY DEF Run, head, bytes
  <1> QED BY <1>4, <1>5, <1>6, <1>7

LEMMA RunsType ==
  ASSUME NEW code, IsCode(code), NEW r, RunsOf(code, r)
  PROVE  /\ RunsAsWritten(code, r) \in Seq(Seq(Int)) /\ Len(RunsAsWritten(code, r)) = r.n
         /\ \A j \in 1..r.n :
              /\ RunsAsWritten(code, r)[j] = Run(code, r.start[j], r.end[j])
              /\ Len(RunsAsWritten(code, r)[j]) = 2 + (r.end[j] - r.start[j])
  <1>1. r.n \in Nat
    BY DEF RunsOf
  <1>2. ASSUME NEW j \in 1..r.n
        PROVE  /\ Run(code, r.start[j], r.end[j]) \in Seq(Int)
               /\ Len(Run(code, r.start[j], r.end[j])) = 2 + (r.end[j] - r.start[j])
    <2>1. PICK a, e : a = r.start[j] /\ e = r.end[j]
      OBVIOUS
    <2>2. a \in Nat /\ e \in Nat /\ a < e /\ \A b \in a..e - 1 : b \in DOMAIN code
      BY <2>1, MetaType DEF RunsOf
    <2>3. Run(code, a, e) \in Seq(Int) /\ Len(Run(code, a, e)) = 2 + (e - a)
      BY <2>2, RunType
    <2> QED BY <2>1, <2>3
  <1>3. PICK n, t : n = r.n /\ t = RunsAsWritten(code, r)
    OBVIOUS
  <1>4. t = [j \in 1..n |-> Run(code, r.start[j], r.end[j])]
    BY <1>3 DEF RunsAsWritten
  <1>5. /\ n \in Nat /\ \A j \in 1..n : /\ Run(code, r.start[j], r.end[j]) \in Seq(Int)
                                        /\ Len(Run(code, r.start[j], r.end[j])) = 2 + (r.end[j] - r.start[j])
    BY <1>1, <1>2, <1>3
  <1>6. t \in Seq(Seq(Int)) /\ Len(t) = n
    BY <1>4, <1>5
  <1>7. \A j \in 1..n : t[j] = Run(code, r.start[j], r.end[j])
    BY <1>4
  <1> QED BY <1>3, <1>5, <1>6, <1>7

LEMMA SaveType ==
  ASSUME NEW code, IsCode(code)
  PROVE  /\ FlattenSeq(RunsAsWritten(code, RunsFrom(code))) \in Seq(Int)
         /\ Save(code) \in Seq(Int)
  <1>1. DOMAIN code \subseteq 0..(META - 1)
    BY DEF IsCode
  <1>2. RunsAsWritten(code, RunsFrom(code)) \in Seq(Seq(Int))
    <2>1. RunsOf(code, RunsFrom(code))
      BY <1>1, RunsFromCode
    <2> QED BY <2>1, RunsType
  <1>3. PICK w : w = FlattenSeq(RunsAsWritten(code, RunsFrom(code)))
    OBVIOUS
  <1>4. w \in Seq(Int)
    BY <1>2, <1>3, FlattenType
  <1>5. <<SIGNATURE>> \in Seq(Int) /\ <<0, 0>> \in Seq(Int)
    BY DEF SIGNATURE
  <1>6. <<SIGNATURE>> \o w \o <<0, 0>> \in Seq(Int)
    BY <1>4, <1>5
  <1> QED BY <1>1, <1>3, <1>4, <1>6, SaveRuns

(* Where the runs of a saved code are, b[j] for the j-th.                  *)
SavedAt(code, r, F, s, b) ==
  /\ b \in [1..r.n + 1 -> Nat] /\ b[1] = s + 1 /\ b[r.n + 1] + 1 <= Len(F)
  /\ F[s] = SIGNATURE
  /\ \A j \in 1..r.n :
       /\ b[j + 1] = b[j] + 2 + (r.end[j] - r.start[j]) /\ b[j + 1] <= b[r.n + 1]
       /\ F[b[j]] = r.start[j] /\ F[b[j] + 1] = r.end[j] - r.start[j]
       /\ \A i \in 1..r.end[j] - r.start[j] : F[b[j] + 1 + i] = code[r.start[j] + i - 1]
  /\ F[b[r.n + 1]] = 0 /\ F[b[r.n + 1] + 1] = 0

LEMMA SavePlaced ==
  ASSUME NEW code, IsCode(code), NEW F \in Seq(Int), NEW s \in Nat, Placed(F, s, Save(code))
  PROVE  \E b : /\ SavedAt(code, RunsFrom(code), F, s, b)
                /\ b[RunsFrom(code).n + 1] + 2 = s + Len(Save(code))
  <1>1. PICK r : r = RunsFrom(code)
    OBVIOUS
  <1>2. PICK t, w : t = RunsAsWritten(code, r) /\ w = FlattenSeq(t)
    OBVIOUS
  <1>3. PICK n, l : n = r.n /\ l = Len(F)
    OBVIOUS
  <1>4. DOMAIN code \subseteq 0..(META - 1)
    BY DEF IsCode
  <1>5. RunsOf(code, r) /\ Save(code) = <<SIGNATURE>> \o w \o <<0, 0>>
    BY <1>1, <1>2, <1>4, RunsFromCode, SaveRuns
  <1>6. /\ t \in Seq(Seq(Int)) /\ w \in Seq(Int) /\ Len(t) = n
        /\ \A j \in 1..n : t[j] = Run(code, r.start[j], r.end[j]) /\ Len(t[j]) = 2 + (r.end[j] - r.start[j])
    BY <1>2, <1>3, <1>5, RunsType, FlattenType
  <1>7. <<SIGNATURE>> \in Seq(Int) /\ Len(<<SIGNATURE>>) = 1 /\ <<SIGNATURE>> \o w \in Seq(Int)
        /\ <<0, 0>> \in Seq(Int) /\ Len(<<SIGNATURE>> \o w) = 1 + Len(w) /\ Len(w) \in Nat /\ l \in Nat
    BY <1>3, <1>6 DEF SIGNATURE
  <1>8. Placed(F, s, <<SIGNATURE>> \o w) /\ Placed(F, s + (1 + Len(w)), <<0, 0>>)
    <2>1. PICK x, y : x = <<SIGNATURE>> \o w /\ y = <<0, 0>>
      OBVIOUS
    <2>2. x \in Seq(Int) /\ y \in Seq(Int) /\ Placed(F, s, x \o y)
      BY <1>5, <1>7, <2>1
    <2>3. Placed(F, s, x) /\ Placed(F, s + Len(x), y)
      BY <2>2, PlacedConcat
    <2> QED BY <1>7, <2>1, <2>3
  <1>9. Placed(F, s, <<SIGNATURE>>) /\ Placed(F, s + 1, w)
    <2>1. PICK x : x = <<SIGNATURE>>
      OBVIOUS
    <2>2. x \in Seq(Int) /\ Placed(F, s, x \o w)
      BY <1>7, <1>8, <2>1
    <2>3. Placed(F, s, x) /\ Placed(F, s + Len(x), w)
      BY <1>6, <2>2, PlacedConcat
    <2> QED BY <1>7, <2>1, <2>3
  <1>10. PICK off : /\ Offsets(t, off) /\ Len(w) = off[n + 1]
                    /\ \A j \in 1..n : Placed(F, (s + 1) + off[j], t[j])
    <2>1. s + 1 \in Nat /\ Placed(F, s + 1, FlattenSeq(t))
      BY <1>2, <1>9
    <2>2. \E off : /\ Offsets(t, off) /\ Len(FlattenSeq(t)) = off[Len(t) + 1]
                   /\ \A k \in 1..Len(t) : Placed(F, (s + 1) + off[k], t[k])
      BY <1>6, <2>1, PlacedParts
    <2> QED BY <1>2, <1>6, <2>2
  <1>11. /\ off \in [1..n + 1 -> Nat] /\ off[1] = 0
         /\ \A j \in 1..n : off[j + 1] = off[j] + Len(t[j]) /\ off[j + 1] <= off[n + 1]
    BY <1>6, <1>10 DEF Offsets
  <1>12. n \in Nat /\ \A j \in 1..n : /\ r.start[j] \in Nat /\ r.end[j] \in Nat /\ r.start[j] < r.end[j]
                                      /\ \A b \in r.start[j]..r.end[j] - 1 : b \in DOMAIN code
    <2>1. /\ r.n \in Nat /\ r.start \in [1..r.n -> 0..(META - 1)] /\ r.end \in [1..r.n -> 1..META]
          /\ \A j \in 1..r.n : r.start[j] < r.end[j] /\ \A b \in r.start[j]..r.end[j] - 1 : b \in DOMAIN code
      BY <1>5 DEF RunsOf
    <2>2. \A x \in 0..(META - 1) : x \in Nat
      BY MetaType
    <2>3. \A x \in 1..META : x \in Nat
      BY MetaType
    <2>4. \A j \in 1..n : r.start[j] \in Nat /\ r.end[j] \in Nat
      BY <1>3, <2>1, <2>2, <2>3
    <2> QED BY <1>3, <2>1, <2>4
  <1> DEFINE b == [j \in 1..n + 1 |-> (s + 1) + off[j]]
  <1>13. b \in [1..n + 1 -> Nat] /\ \A j \in 1..n + 1 : b[j] = (s + 1) + off[j] /\ off[j] \in Nat
    BY <1>11
  <1> HIDE DEF b
  <1>14. ASSUME NEW j \in 1..n
         PROVE  /\ b[j + 1] = b[j] + 2 + (r.end[j] - r.start[j]) /\ b[j + 1] <= b[n + 1]
                /\ F[b[j]] = r.start[j] /\ F[b[j] + 1] = r.end[j] - r.start[j]
                /\ \A i \in 1..r.end[j] - r.start[j] : F[b[j] + 1 + i] = code[r.start[j] + i - 1]
    <2>1. PICK a, e, p, q : a = r.start[j] /\ e = r.end[j] /\ p = b[j] /\ q = b[j + 1]
      OBVIOUS
    <2>2. /\ j \in 1..n + 1 /\ j + 1 \in 1..n + 1 /\ n + 1 \in 1..n + 1
      BY <1>12
    <2>3. a \in Nat /\ e \in Nat /\ a < e /\ \A i \in a..e - 1 : i \in DOMAIN code
      BY <1>12, <2>1
    <2>4. /\ Len(Run(code, a, e)) = 2 + (e - a) /\ Run(code, a, e)[1] = a /\ Run(code, a, e)[2] = e - a
          /\ \A i \in 1..e - a : Run(code, a, e)[2 + i] = code[a + i - 1]
      BY <2>3, RunType
    <2>5. q = p + 2 + (e - a) /\ q <= b[n + 1] /\ p \in Nat
      <3>1. off[j + 1] = off[j] + (2 + (e - a)) /\ off[j + 1] <= off[n + 1]
        BY <1>6, <1>11, <2>1
      <3>2. p = (s + 1) + off[j] /\ q = (s + 1) + off[j + 1] /\ b[n + 1] = (s + 1) + off[n + 1]
        BY <1>13, <2>1, <2>2
      <3>3. off[j] \in Nat /\ off[j + 1] \in Nat /\ off[n + 1] \in Nat
        BY <1>13, <2>2
      <3>4. q = p + 2 + (e - a)
        <4>1. PICK x, y : x = off[j] /\ y = off[j + 1]
          OBVIOUS
        <4>2. x \in Nat /\ y \in Nat /\ y = x + (2 + (e - a)) /\ p = (s + 1) + x /\ q = (s + 1) + y
          BY <3>1, <3>2, <3>3, <4>1
        <4> QED BY <2>3, <4>2
      <3>5. q <= b[n + 1] /\ p \in Nat
        BY SMTT(30), <3>1, <3>2, <3>3
      <3> QED BY <3>4, <3>5
    <2>6. \A i \in 1..2 + (e - a) : F[p + i - 1] = Run(code, a, e)[i]
      <3>1. Placed(F, p, Run(code, a, e))
        BY <1>6, <1>10, <1>13, <2>1, <2>2
      <3> QED BY <2>4, <3>1 DEF Placed
    <2>7. F[p] = a /\ F[p + 1] = e - a
      <3>1. 1 \in 1..2 + (e - a) /\ 2 \in 1..2 + (e - a) /\ p + 1 - 1 = p /\ p + 2 - 1 = p + 1
        BY <2>3, <2>5
      <3> QED BY <2>4, <2>6, <3>1
    <2>8. ASSUME NEW i \in 1..e - a PROVE F[p + 1 + i] = code[a + i - 1]
      <3>1. 2 + i \in 1..2 + (e - a) /\ p + (2 + i) - 1 = p + 1 + i
        BY <2>3, <2>5
      <3> QED BY <2>4, <2>6, <3>1
    <2> QED BY <2>1, <2>5, <2>7, <2>8
  <1>15. b[1] = s + 1 /\ F[s] = SIGNATURE
    <2>1. 1 \in 1..n + 1 /\ 1 \in 1..1 /\ s + 1 - 1 = s
      BY <1>12
    <2>2. <<SIGNATURE>>[1] = SIGNATURE
      OBVIOUS
    <2> QED BY <1>7, <1>9, <1>11, <1>13, <2>1, <2>2 DEF Placed
  <1>16. F[b[n + 1]] = 0 /\ F[b[n + 1] + 1] = 0 /\ b[n + 1] + 1 <= l /\ b[n + 1] = s + 1 + Len(w)
    <2>1. PICK p : p = s + 1 + Len(w)
      OBVIOUS
    <2>2. p = b[n + 1] /\ p \in Nat
      BY <1>7, <1>10, <1>12, <1>13, <2>1
    <2>3. p + 2 <= l + 1 /\ \A i \in 1..2 : F[p + i - 1] = <<0, 0>>[i]
      <3>1. Placed(F, p, <<0, 0>>)
        BY <1>7, <1>8, <2>1
      <3> QED BY <1>3, <3>1 DEF Placed
    <2>4. F[p] = 0 /\ F[p + 1] = 0
      <3>1. p + 1 - 1 = p /\ p + 2 - 1 = p + 1 /\ 1 \in 1..2 /\ 2 \in 1..2
        BY <2>2
      <3> QED BY <2>3, <3>1
    <2> QED BY <1>7, <2>1, <2>2, <2>3, <2>4
  <1>17. SavedAt(code, r, F, s, b)
    BY <1>3, <1>13, <1>14, <1>15, <1>16 DEF SavedAt
  <1>18. b[r.n + 1] + 2 = s + Len(Save(code))
    <2>1. Len(Save(code)) = 1 + Len(w) + 2
      <3>1. PICK x, y : x = <<SIGNATURE>> \o w /\ y = <<0, 0>>
        OBVIOUS
      <3>2. x \in Seq(Int) /\ y \in Seq(Int) /\ Len(x) = 1 + Len(w) /\ Len(y) = 2
        BY <1>7, <3>1
      <3>3. Len(x \o y) = Len(x) + Len(y)
        BY <3>2, ConcatProperties
      <3> QED BY <1>5, <3>1, <3>2, <3>3
    <2> QED BY <1>3, <1>7, <1>16, <2>1
  <1> HIDE DEF b
  <1> QED BY <1>1, <1>17, <1>18

-------------------------------------------------------------------------------
(* The file of a chain of maps: where the part of each map begins, its     *)
(* runs and where they are.                                                *)
IsMaps(C) ==
  /\ Len(C) \in Nat \ {0}
  /\ \A k \in 1..Len(C) :
       /\ IsCode(C[k].code) /\ C[k].rombank \in Int /\ C[k].rambank \in Int
       /\ C[k] = [code |-> C[k].code, rombank |-> C[k].rombank, rambank |-> C[k].rambank]

Announced(m, F, p) ==
  /\ F[p] = SIGNATURE /\ F[p + 1] = META /\ F[p + 2] = 3 /\ F[p + 3] = 0
  /\ F[p + 4] = m.rombank /\ F[p + 5] = m.rambank /\ F[p + 6] = 0 /\ F[p + 7] = 0

SignedAt(a, k) == IF k = 1 THEN a[k] ELSE a[k] + 8

Laid(C, F, a, r, b) ==
  /\ F \in Seq(Int) /\ a \in [1..Len(C) + 1 -> Nat] /\ a[1] = 1 /\ a[Len(C) + 1] = Len(F) + 1
  /\ \A k \in 1..Len(C) :
       /\ RunsOf(C[k].code, r[k])
       /\ SavedAt(C[k].code, r[k], F, SignedAt(a, k), b[k])
       /\ b[k][r[k].n + 1] + 2 = a[k + 1]
       /\ k # 1 => Announced(C[k], F, a[k])

LEMMA ChainedType ==
  ASSUME NEW m, IsCode(m.code), m.rombank \in Int, m.rambank \in Int
  PROVE  /\ Chained(m) \in Seq(Int) /\ Len(Chained(m)) = 8 + Len(Save(m.code))
         /\ \A F \in Seq(Int), p \in Nat : Placed(F, p, Chained(m)) =>
              Announced(m, F, p) /\ Placed(F, p + 8, Save(m.code))
  <1> DEFINE mark == <<SIGNATURE, META, 3, 0, m.rombank, m.rambank, 0, 0>>
  <1>1. /\ mark \in Seq(Int) /\ Len(mark) = 8 /\ mark[1] = SIGNATURE /\ mark[2] = META /\ mark[3] = 3
        /\ mark[4] = 0 /\ mark[5] = m.rombank /\ mark[6] = m.rambank /\ mark[7] = 0 /\ mark[8] = 0
    BY MetaType DEF SIGNATURE
  <1>2. PICK w : w = Save(m.code)
    OBVIOUS
  <1>3. w \in Seq(Int)
    BY <1>2, SaveType
  <1>4. Chained(m) = mark \o w
    BY <1>2 DEF Chained, Embed
  <1> HIDE DEF mark
  <1>5. mark \o w \in Seq(Int) /\ Len(mark \o w) = 8 + Len(w)
    <2>1. mark \in Seq(Int) /\ w \in Seq(Int)
      BY <1>1, <1>3
    <2>2. mark \o w \in Seq(Int) /\ Len(mark \o w) = Len(mark) + Len(w)
      BY <2>1, ConcatProperties, Zenon
    <2> QED BY <1>1, <2>2
  <1>6. ASSUME NEW F \in Seq(Int), NEW p \in Nat, Placed(F, p, mark \o w)
        PROVE  Announced(m, F, p) /\ Placed(F, p + 8, w)
    <2>1. Placed(F, p, mark) /\ Placed(F, p + Len(mark), w)
      BY <1>1, <1>3, <1>6, PlacedConcat
    <2>2. \A i \in 1..8 : F[p + i - 1] = mark[i]
      BY <1>1, <2>1 DEF Placed
    <2>3. /\ p + 1 - 1 = p /\ p + 2 - 1 = p + 1 /\ p + 3 - 1 = p + 2 /\ p + 4 - 1 = p + 3
          /\ p + 5 - 1 = p + 4 /\ p + 6 - 1 = p + 5 /\ p + 7 - 1 = p + 6 /\ p + 8 - 1 = p + 7
      OBVIOUS
    <2>4. 1 \in 1..8 /\ 2 \in 1..8 /\ 3 \in 1..8 /\ 4 \in 1..8 /\ 5 \in 1..8 /\ 6 \in 1..8 /\ 7 \in 1..8 /\ 8 \in 1..8
      OBVIOUS
    <2>5. /\ F[p] = mark[1] /\ F[p + 1] = mark[2] /\ F[p + 2] = mark[3] /\ F[p + 3] = mark[4]
          /\ F[p + 4] = mark[5] /\ F[p + 5] = mark[6] /\ F[p + 6] = mark[7] /\ F[p + 7] = mark[8]
      BY <2>2, <2>3, <2>4
    <2>6. Announced(m, F, p)
      BY <1>1, <2>5 DEF Announced
    <2> QED BY <1>1, <2>1, <2>6
  <1> QED BY <1>2, <1>4, <1>5, <1>6

LEMMA FileLaid ==
  ASSUME NEW C, IsMaps(C)
  PROVE  FileOf(C) \in Seq(Int) /\ \E a, r, b : Laid(C, FileOf(C), a, r, b)
  <1>1. PICK n : n = Len(C)
    OBVIOUS
  <1>2. /\ n \in Nat \ {0}
        /\ \A k \in 1..n : IsCode(C[k].code) /\ C[k].rombank \in Int /\ C[k].rambank \in Int
    BY <1>1 DEF IsMaps
  <1>3. PICK t, u, w, F : /\ t = [k \in 1..(n - 1) |-> Chained(C[k + 1])] /\ u = Save(C[1].code)
                          /\ w = FlattenSeq(t) /\ F = FileOf(C)
    OBVIOUS
  <1>4. F = u \o w
    BY <1>1, <1>3 DEF FileOf
  <1>5. /\ t \in Seq(Seq(Int)) /\ Len(t) = n - 1
        /\ \A k \in 1..n - 1 : t[k] = Chained(C[k + 1]) /\ Len(t[k]) = 8 + Len(Save(C[k + 1].code))
    <2>1. ASSUME NEW k \in 1..n - 1
          PROVE Chained(C[k + 1]) \in Seq(Int) /\ Len(Chained(C[k + 1])) = 8 + Len(Save(C[k + 1].code))
      <3>1. k + 1 \in 1..n
        BY <1>2
      <3>2. PICK m : m = C[k + 1]
        OBVIOUS
      <3>3. IsCode(m.code) /\ m.rombank \in Int /\ m.rambank \in Int
        BY <1>2, <3>1, <3>2
      <3>4. Chained(m) \in Seq(Int) /\ Len(Chained(m)) = 8 + Len(Save(m.code))
        BY <3>3, ChainedType
      <3> QED BY <3>2, <3>4
    <2>2. n - 1 \in Nat
      BY <1>2
    <2>3. t \in Seq(Seq(Int)) /\ Len(t) = n - 1
      BY <1>3, <2>1, <2>2
    <2>4. \A k \in 1..n - 1 : t[k] = Chained(C[k + 1])
      BY <1>3
    <2> QED BY <2>1, <2>3, <2>4
  <1>6. u \in Seq(Int) /\ w \in Seq(Int) /\ F \in Seq(Int) /\ Len(F) = Len(u) + Len(w)
        /\ Len(u) \in Nat /\ Len(w) \in Nat
    <2>1. 1 \in 1..n
      BY <1>2
    <2>2. IsCode(C[1].code)
      BY <1>2, <2>1
    <2>3. u \in Seq(Int)
      BY <1>3, <2>2, SaveType
    <2>4. w \in Seq(Int)
      BY <1>3, <1>5, FlattenType
    <2>5. u \o w \in Seq(Int) /\ Len(u \o w) = Len(u) + Len(w)
      BY <2>3, <2>4, ConcatProperties
    <2> QED BY <1>4, <2>3, <2>4, <2>5, LenProperties
  <1>7. Placed(F, 1, u) /\ Placed(F, 1 + Len(u), w)
    <2>1. Placed(F, 1, F)
      <3>1. \A i \in 1..Len(F) : 1 + i - 1 = i
        BY <1>6
      <3>2. 1 + Len(F) <= Len(F) + 1
        BY <1>6
      <3> QED BY <3>1, <3>2 DEF Placed
    <2>2. Placed(F, 1, u \o w)
      BY <1>4, <2>1
    <2> QED BY <1>6, <2>2, PlacedConcat
  <1>8. PICK off : /\ Offsets(t, off) /\ Len(w) = off[Len(t) + 1]
                   /\ \A k \in 1..n - 1 : Placed(F, (1 + Len(u)) + off[k], t[k])
    <2>1. 1 + Len(u) \in Nat /\ Placed(F, 1 + Len(u), FlattenSeq(t))
      BY <1>3, <1>6, <1>7
    <2>2. \E off : /\ Offsets(t, off) /\ Len(FlattenSeq(t)) = off[Len(t) + 1]
                   /\ \A k \in 1..Len(t) : Placed(F, (1 + Len(u)) + off[k], t[k])
      BY <1>5, <1>6, <2>1, PlacedParts
    <2> QED BY <1>3, <1>5, <2>2
  <1>9. /\ off \in [1..n -> Nat] /\ off[1] = 0 /\ Len(w) = off[n]
        /\ \A k \in 1..n - 1 : off[k + 1] = off[k] + Len(t[k])
    <2>1. Len(t) + 1 = n
      BY <1>2, <1>5
    <2> QED BY <1>5, <1>8, <2>1 DEF Offsets
  <1> DEFINE a == [k \in 1..n + 1 |-> IF k = 1 THEN 1 ELSE (1 + Len(u)) + off[k - 1]]
             r == [k \in 1..n |-> RunsFrom(C[k].code)]
             Right(k, x) == SavedAt(C[k].code, r[k], F, SignedAt(a, k), x) /\ x[r[k].n + 1] + 2 = a[k + 1]
             b == [k \in 1..n |-> CHOOSE x : Right(k, x)]
  <1>10. a \in [1..n + 1 -> Nat] /\ a[1] = 1 /\ \A k \in 1..n : a[k + 1] = (1 + Len(u)) + off[k]
    <2>1. \A k \in 1..n + 1 : k # 1 => k - 1 \in 1..n
      BY <1>2
    <2>2. \A k \in 1..n : k + 1 \in 1..n + 1 /\ k + 1 # 1 /\ (k + 1) - 1 = k
      BY <1>2
    <2>3. \A k \in 1..n : (1 + Len(u)) + off[k] \in Nat
      BY <1>6, <1>9
    <2>4. 1 \in 1..n + 1
      BY <1>2
    <2> QED BY <2>1, <2>2, <2>3, <2>4
  <1>11. \A k \in 1..n : r[k] = RunsFrom(C[k].code)
    OBVIOUS
  <1> HIDE DEF a, r
  <1>12. ASSUME NEW k \in 1..n
         PROVE  /\ RunsOf(C[k].code, r[k]) /\ \E x : Right(k, x)
                /\ k # 1 => Announced(C[k], F, a[k])
    <2>1. PICK m, s : m = C[k] /\ s = SignedAt(a, k)
      OBVIOUS
    <2>2. IsCode(m.code) /\ m.rombank \in Int /\ m.rambank \in Int
      BY <1>2, <2>1
    <2>3. RunsOf(m.code, RunsFrom(m.code))
      BY <2>2, RunsFromCode DEF IsCode
    <2>4. /\ Placed(F, s, Save(m.code)) /\ s \in Nat /\ s + Len(Save(m.code)) = a[k + 1]
          /\ k # 1 => Announced(C[k], F, a[k])
      <3>1. CASE k = 1
        <4>1. s = 1 /\ m.code = C[1].code /\ a[2] = 1 + Len(u) /\ k + 1 = 2
          <5>1. a[1 + 1] = (1 + Len(u)) + off[1]
            BY <1>10, <3>1
          <5> QED BY <1>6, <1>9, <1>10, <2>1, <3>1, <5>1 DEF SignedAt
        <4> QED BY <1>3, <1>7, <3>1, <4>1
      <3>2. CASE k # 1
        <4>1. PICK i : i = k - 1
          OBVIOUS
        <4>2. i \in 1..n - 1 /\ k = i + 1 /\ i \in 1..n /\ k \in 1..n + 1
          BY <1>2, <3>2, <4>1
        <4>3. a[k] = (1 + Len(u)) + off[i] /\ s = a[k] + 8 /\ a[k + 1] = (1 + Len(u)) + off[k] /\ a[k] \in Nat
          BY <1>10, <2>1, <3>2, <4>2 DEF SignedAt
        <4>4. t[i] = Chained(m) /\ Len(t[i]) = 8 + Len(Save(m.code)) /\ off[k] = off[i] + Len(t[i])
          BY <1>5, <1>9, <2>1, <4>2
        <4>5. Placed(F, a[k], Chained(m))
          BY <1>8, <4>2, <4>3, <4>4
        <4>6. Announced(m, F, a[k]) /\ Placed(F, a[k] + 8, Save(m.code))
          BY <1>6, <2>2, <4>3, <4>5, ChainedType
        <4>7. s + Len(Save(m.code)) = a[k + 1] /\ s \in Nat
          <5>1. PICK x, y, l : x = off[i] /\ y = off[k] /\ l = Len(Save(m.code))
            OBVIOUS
          <5>2. Save(m.code) \in Seq(Int)
            BY <2>2, SaveType
          <5>3. l \in Nat /\ x \in Nat /\ y \in Nat /\ y = x + (8 + l)
            BY <1>9, <4>2, <4>4, <5>1, <5>2, LenProperties
          <5>4. a[k] = (1 + Len(u)) + x /\ a[k + 1] = (1 + Len(u)) + y
            BY <4>3, <5>1
          <5>5. PICK v : v = Len(u)
            OBVIOUS
          <5>6. v \in Nat /\ s = ((1 + v) + x) + 8 /\ a[k + 1] = (1 + v) + (x + (8 + l))
            BY <1>6, <4>3, <5>3, <5>4, <5>5
          <5>7. s + l = a[k + 1] /\ s \in Nat
            BY <5>3, <5>6
          <5> QED BY <5>1, <5>7
        <4> QED BY <2>1, <4>3, <4>6, <4>7
      <3> QED BY <3>1, <3>2
    <2>5. \E x : SavedAt(m.code, RunsFrom(m.code), F, s, x)
                 /\ x[RunsFrom(m.code).n + 1] + 2 = s + Len(Save(m.code))
      BY <1>6, <2>2, <2>4, SavePlaced
    <2> QED BY <1>11, <2>1, <2>3, <2>4, <2>5
  <1>13. \A k \in 1..n : Right(k, b[k])
    <2> TAKE k \in 1..n
    <2>1. \E x : Right(k, x)
      BY <1>12
    <2>2. b[k] = CHOOSE x : Right(k, x)
      OBVIOUS
    <2> HIDE DEF Right, b
    <2> QED BY <2>1, <2>2
  <1> HIDE DEF b
  <1>14. a[n + 1] = Len(F) + 1
    <2>1. n \in 1..n
      BY <1>2
    <2>2. a[n + 1] = (1 + Len(u)) + Len(w)
      BY <1>9, <1>10, <2>1
    <2> QED BY <1>6, <2>2
  <1>15. Laid(C, F, a, r, b)
    BY <1>1, <1>6, <1>10, <1>12, <1>13, <1>14 DEF Laid
  <1> QED BY <1>3, <1>6, <1>15

-------------------------------------------------------------------------------
(* A code as far as the j-th run.                                          *)
Limit(r, j) == IF j <= r.n THEN r.start[j] ELSE META
Upto(code, lim) == [x \in {y \in DOMAIN code : y < lim} |-> code[x]]

Code == UNION {[D -> Byte] : D \in SUBSET (0..(META - 1))}
Map == [code : Code, rombank : Int, rambank : Int]

LEMMA CodeIs == \A c : IsCode(c) <=> c \in Code
  <1>1. ASSUME NEW c, IsCode(c) PROVE c \in Code
    BY <1>1 DEF IsCode, Code
  <1>2. ASSUME NEW c, c \in Code PROVE IsCode(c)
    <2>1. PICK D \in SUBSET (0..(META - 1)) : c \in [D -> Byte]
      BY <1>2 DEF Code
    <2> QED BY <2>1 DEF IsCode
  <1> QED BY <1>1, <1>2

LEMMA RunsOfNumbers ==
  ASSUME NEW code, NEW r, RunsOf(code, r)
  PROVE  /\ r.n \in Nat
         /\ \A j \in 1..r.n : /\ r.start[j] \in Nat /\ r.end[j] \in Nat /\ r.start[j] < META
                              /\ r.start[j] < r.end[j] /\ r.end[j] <= META
                              /\ \A x \in r.start[j]..r.end[j] - 1 : x \in DOMAIN code
  <1>1. /\ r.n \in Nat /\ r.start \in [1..r.n -> 0..(META - 1)] /\ r.end \in [1..r.n -> 1..META]
        /\ \A j \in 1..r.n : r.start[j] < r.end[j] /\ \A x \in r.start[j]..r.end[j] - 1 : x \in DOMAIN code
    BY DEF RunsOf
  <1>2. \A x \in 0..(META - 1) : x \in Nat /\ x < META
    BY MetaType
  <1>3. \A x \in 1..META : x \in Nat /\ x <= META
    BY MetaType
  <1> QED BY <1>1, <1>2, <1>3

LEMMA UptoFirst ==
  ASSUME NEW code, IsCode(code), NEW r, RunsOf(code, r)
  PROVE  Upto(code, Limit(r, 1)) = <<>>
  <1>1. \A y \in DOMAIN code : y \in Nat /\ y < META
    BY MetaType DEF IsCode
  <1>2. ASSUME NEW y \in DOMAIN code PROVE ~(y < Limit(r, 1))
    <2>1. PICK j \in 1..r.n : r.start[j] <= y /\ y < r.end[j]
      BY DEF RunsOf
    <2>2. r.n \in Nat /\ r.start[j] \in Nat /\ 1 \in 1..r.n
      BY <2>1, RunsOfNumbers
    <2>3. r.start[1] \in Nat /\ r.end[1] \in Nat /\ r.start[1] < r.end[1]
      BY <2>2, RunsOfNumbers
    <2>4. 1 < j => r.end[1] < r.start[j]
      BY <2>2 DEF RunsOf
    <2>5. r.start[1] <= y
      BY <1>1, <2>1, <2>2, <2>3, <2>4
    <2>6. Limit(r, 1) = r.start[1]
      BY <2>2 DEF Limit
    <2> QED BY <1>1, <2>3, <2>5, <2>6
  <1>3. {y \in DOMAIN code : y < Limit(r, 1)} = {}
    BY <1>2
  <1>4. Upto(code, Limit(r, 1)) = [x \in {} |-> code[x]]
    BY <1>3 DEF Upto
  <1>5. [x \in {} |-> code[x]] = <<>>
    OBVIOUS
  <1> QED BY <1>4, <1>5

LEMMA UptoLast ==
  ASSUME NEW code, IsCode(code), NEW r, RunsOf(code, r)
  PROVE  Upto(code, Limit(r, r.n + 1)) = code
  <1>1. \A y \in DOMAIN code : y \in Nat /\ y < META
    BY MetaType DEF IsCode
  <1>2. Limit(r, r.n + 1) = META
    BY RunsOfNumbers DEF Limit
  <1>3. {y \in DOMAIN code : y < META} = DOMAIN code
    BY <1>1
  <1>4. code = [x \in DOMAIN code |-> code[x]]
    BY DEF IsCode
  <1> QED BY <1>2, <1>3, <1>4 DEF Upto

LEMMA UptoNext ==
  ASSUME NEW code, NEW r, NEW j \in 1..r.n, NEW bytes,
         IsCode(code), RunsOf(code, r),
         bytes = [x \in r.start[j]..r.end[j] - 1 |-> code[x]]
  PROVE  Over(bytes, Upto(code, Limit(r, j))) = Upto(code, Limit(r, j + 1))
  <1>1. \A y \in DOMAIN code : y \in Nat /\ y < META
    BY MetaType DEF IsCode
  <1>2. PICK s, e, lim : s = r.start[j] /\ e = r.end[j] /\ lim = Limit(r, j + 1)
    OBVIOUS
  <1>3. /\ r.n \in Nat /\ s \in Nat /\ e \in Nat /\ s < e /\ e <= META /\ s < META
        /\ \A x \in s..e - 1 : x \in DOMAIN code
    BY <1>2, RunsOfNumbers
  <1>4. Limit(r, j) = s
    BY <1>2, <1>3 DEF Limit
  <1>5. e <= lim /\ lim \in Nat
    <2>1. CASE j + 1 <= r.n
      <3>1. j + 1 \in 1..r.n /\ j < j + 1
        BY <1>3, <2>1
      <3>2. r.end[j] < r.start[j + 1]
        BY <3>1 DEF RunsOf
      <3>3. r.start[j + 1] \in Nat
        BY <3>1, RunsOfNumbers
      <3> QED BY <1>2, <1>3, <2>1, <3>2, <3>3 DEF Limit
    <2>2. CASE ~(j + 1 <= r.n)
      BY <1>2, <1>3, <2>2, MetaType DEF Limit
    <2> QED BY <2>1, <2>2
  <1>6. ASSUME NEW y \in DOMAIN code, y < lim, ~(y < s) PROVE y < e
    <2>1. PICK i \in 1..r.n : r.start[i] <= y /\ y < r.end[i]
      BY DEF RunsOf
    <2>2. r.start[i] \in Nat /\ r.end[i] \in Nat
      BY <2>1, RunsOfNumbers
    <2>3. CASE i < j
      <3>1. r.end[i] < s
        BY <1>2, <2>3 DEF RunsOf
      <3> QED BY <1>1, <1>3, <1>6, <2>1, <2>2, <3>1
    <2>4. CASE i = j
      BY <1>2, <2>1, <2>4
    <2>5. CASE i > j
      <3>1. j + 1 \in 1..r.n
        BY <1>3, <2>5
      <3>2. lim = r.start[j + 1] /\ r.start[j + 1] \in Nat /\ r.end[j + 1] \in Nat /\ r.start[j + 1] < r.end[j + 1]
        BY <1>2, <1>3, <3>1, RunsOfNumbers DEF Limit
      <3>3. i = j + 1 \/ r.end[j + 1] < r.start[i]
        <4>1. i = j + 1 \/ j + 1 < i
          BY <2>5
        <4> QED BY <3>1, <4>1 DEF RunsOf
      <3>4. lim <= r.start[i]
        BY <2>2, <3>2, <3>3
      <3> QED BY <1>1, <1>5, <1>6, <2>1, <2>2, <3>4
    <2> QED BY <2>3, <2>4, <2>5
  <1>7. {y \in DOMAIN code : y < lim} = s..e - 1 \cup {y \in DOMAIN code : y < s}
    <2>1. ASSUME NEW y \in DOMAIN code, y < lim PROVE y \in s..e - 1 \/ y < s
      BY <1>1, <1>3, <1>6, <2>1
    <2>2. ASSUME NEW y \in s..e - 1 PROVE y \in DOMAIN code /\ y < lim
      BY <1>3, <1>5
    <2>3. ASSUME NEW y \in DOMAIN code, y < s PROVE y < lim
      BY <1>1, <1>3, <1>5, <2>3
    <2> QED BY <2>1, <2>2, <2>3
  <1>8. bytes = [x \in s..e - 1 |-> code[x]]
    BY <1>2
  <1>9. Over(bytes, Upto(code, s)) = [x \in s..e - 1 \cup {y \in DOMAIN code : y < s} |-> code[x]]
    <2>1. PICK A, B : A = s..e - 1 /\ B = {y \in DOMAIN code : y < s}
      OBVIOUS
    <2>2. bytes = [x \in A |-> code[x]] /\ Upto(code, s) = [x \in B |-> code[x]]
      BY <1>8, <2>1 DEF Upto
    <2>3. Over([x \in A |-> code[x]], [x \in B |-> code[x]]) = [x \in A \cup B |-> code[x]]
      BY DEF Over
    <2> QED BY <2>1, <2>2, <2>3
  <1>10. Upto(code, lim) = [x \in s..e - 1 \cup {y \in DOMAIN code : y < s} |-> code[x]]
    BY <1>7 DEF Upto
  <1> QED BY <1>2, <1>4, <1>9, <1>10

-------------------------------------------------------------------------------
(* The loader on the file of a chain, or on the beginning of that file.    *)
LoaderState ==
  {"SEARCH", "BLOCK", "OK", "LOADBADFILE", "UNEXPECTEDEOF", "LOADOVERLAP", "BADMETABLOCK"}
LoaderType ==
  [file : Seq(Int), format : {"BINARY", "HEXA"}, at : Nat, maps : Seq(Map), current : Nat,
   rombank : Int, rambank : Int, found : BOOLEAN, state : LoaderState]

Reads(C, F, whole, ld) ==
  /\ ld \in LoaderType
  /\ Len(ld.file) <= Len(F) /\ (whole => Len(ld.file) = Len(F))
  /\ \A i \in 1..Len(ld.file) : ld.file[i] = F[i]
  /\ ld.current \in 1..Len(C) /\ Len(ld.maps) = ld.current
  /\ \A i \in 1..ld.current - 1 : ld.maps[i] = C[i]
  /\ ld.rombank = C[ld.current].rombank /\ ld.rambank = C[ld.current].rambank
  /\ ld.found => ld.at > 1

(* Where it can be: before the file, after the part of a map, before the   *)
(* banks of the next, before the empty block that ends the announcement,   *)
(* before the map itself, before one of its blocks or after them, at the   *)
(* end of a file cut short, stopped.                                       *)
AtFile(ld) ==
  ld.current = 1 /\ ld.state = "SEARCH" /\ ld.at = 1 /\ ~ld.found /\ ld.maps[1] = NewMap
AtPart(C, a, ld) ==
  /\ ld.state = "SEARCH" /\ ld.found /\ ld.at = a[ld.current + 1]
  /\ ld.maps[ld.current] = C[ld.current]
AtBanks(C, a, ld) ==
  /\ ld.state = "BLOCK" /\ ld.found /\ ld.at = a[ld.current + 1] + 1 /\ ld.current < Len(C)
  /\ ld.maps[ld.current] = C[ld.current]
AtNull(a, ld) ==
  /\ ld.state = "BLOCK" /\ ld.found /\ ld.current # 1 /\ ld.at = a[ld.current] + 6
  /\ ld.maps[ld.current].code = <<>>
AtOwn(a, ld) ==
  /\ ld.state = "SEARCH" /\ ld.found /\ ld.current # 1 /\ ld.at = a[ld.current] + 8
  /\ ld.maps[ld.current].code = <<>>
AtRun(C, r, b, ld) ==
  /\ ld.state = "BLOCK" /\ ld.found
  /\ \E j \in 1..r[ld.current].n + 1 :
       /\ ld.at = b[ld.current][j]
       /\ ld.maps[ld.current].code = Upto(C[ld.current].code, Limit(r[ld.current], j))
AtCut(C, whole, ld) ==
  /\ ld.state = "SEARCH" /\ ld.found /\ ld.format = "BINARY" /\ ~whole /\ ld.at > Len(ld.file)
  /\ PartOf(ld.maps[ld.current], C[ld.current])
Stopped(C, whole, ld) ==
  /\ ld.state \notin {"SEARCH", "BLOCK"}
  /\ PartOf(ld.maps[ld.current], C[ld.current])
  /\ whole => ld.state = "OK" /\ ld.current = Len(C) /\ ld.maps[ld.current] = C[ld.current]
  /\ ld.state = "OK" /\ ld.format = "HEXA" => ld.maps[ld.current].code \in {<<>>, C[ld.current].code}

LoaderInv(C, F, a, r, b, whole, ld) ==
  /\ Reads(C, F, whole, ld)
  /\ \/ AtFile(ld) \/ AtPart(C, a, ld) \/ AtBanks(C, a, ld) \/ AtNull(a, ld) \/ AtOwn(a, ld)
     \/ AtRun(C, r, b, ld) \/ AtCut(C, whole, ld) \/ Stopped(C, whole, ld)

LEMMA LaidBounds ==
  ASSUME NEW C, NEW F, NEW a, NEW r, NEW b, NEW k \in 1..Len(C), IsMaps(C), Laid(C, F, a, r, b)
  PROVE  /\ a[k] \in Nat /\ a[k + 1] \in Nat /\ r[k].n \in Nat /\ Len(F) \in Nat
         /\ a[k + 1] = b[k][r[k].n + 1] + 2
         /\ b[k][1] = SignedAt(a, k) + 1
         /\ \A j \in 1..r[k].n + 1 : b[k][j] \in Nat /\ b[k][j] + 1 <= Len(F)
  <1>1. PICK q, n, c : q = b[k] /\ n = r[k].n /\ c = Len(C)
    OBVIOUS
  <1>2. c \in Nat /\ k \in 1..c
    BY <1>1 DEF IsMaps
  <1>3. /\ F \in Seq(Int) /\ a \in [1..c + 1 -> Nat]
        /\ RunsOf(C[k].code, r[k]) /\ SavedAt(C[k].code, r[k], F, SignedAt(a, k), q)
        /\ q[n + 1] + 2 = a[k + 1]
    BY <1>1, <1>2 DEF Laid
  <1>4. a[k] \in Nat /\ a[k + 1] \in Nat /\ Len(F) \in Nat
    BY <1>2, <1>3, LenProperties
  <1>5. n \in Nat /\ \A j \in 1..n : r[k].start[j] \in Nat /\ r[k].end[j] \in Nat /\ r[k].start[j] < r[k].end[j]
    BY <1>1, <1>3, RunsOfNumbers
  <1>6. /\ q \in [1..n + 1 -> Nat] /\ q[1] = SignedAt(a, k) + 1 /\ q[n + 1] + 1 <= Len(F)
        /\ \A j \in 1..n : q[j + 1] = q[j] + 2 + (r[k].end[j] - r[k].start[j]) /\ q[j + 1] <= q[n + 1]
    BY <1>1, <1>3 DEF SavedAt
  <1>7. ASSUME NEW j \in 1..n + 1 PROVE q[j] \in Nat /\ q[j] + 1 <= Len(F)
    <2>1. q[j] \in Nat /\ q[n + 1] \in Nat
      <3>1. n + 1 \in 1..n + 1
        BY <1>5
      <3> QED BY <1>6, <3>1
    <2>2. CASE j = n + 1
      BY <1>6, <2>1, <2>2
    <2>3. CASE j # n + 1
      <3>1. j \in 1..n /\ j + 1 \in 1..n + 1
        BY <1>5, <2>3
      <3>2. PICK l : l = r[k].end[j] - r[k].start[j]
        OBVIOUS
      <3>3. l \in Nat
        BY <1>5, <3>1, <3>2
      <3>4. q[j + 1] = q[j] + 2 + l /\ q[j + 1] <= q[n + 1]
        BY <1>6, <3>1, <3>2
      <3>5. q[j] <= q[n + 1]
        BY <2>1, <3>3, <3>4
      <3> QED BY <1>4, <1>6, <2>1, <3>5
    <2> QED BY <2>2, <2>3
  <1> QED BY <1>1, <1>3, <1>4, <1>5, <1>6, <1>7

LEMMA LaidStart ==
  ASSUME NEW C, NEW F, NEW a, NEW r, NEW b, NEW k \in 1..Len(C), IsMaps(C), Laid(C, F, a, r, b)
  PROVE  /\ a[k] \in Nat /\ r[k].n \in Nat /\ Len(F) \in Nat
         /\ b[k][1] \in Nat /\ b[k][1] + 1 <= Len(F)
  <1>1. a[k] \in Nat /\ r[k].n \in Nat /\ Len(F) \in Nat
    BY LaidBounds
  <1>2. 1 \in 1..r[k].n + 1
    BY <1>1
  <1>3. b[k][1] \in Nat /\ b[k][1] + 1 <= Len(F)
    BY <1>2, LaidBounds
  <1> QED BY <1>1, <1>3

LEMMA LaidRoom ==
  ASSUME NEW C, NEW F, NEW a, NEW r, NEW b, IsMaps(C), Laid(C, F, a, r, b)
  PROVE  \A k \in 1..Len(C) : k # 1 => a[k] \in Nat /\ a[k] + 10 <= Len(F)
  <1>1. ASSUME NEW k \in 1..Len(C), k # 1 PROVE a[k] \in Nat /\ a[k] + 10 <= Len(F)
    <2>1. a[k] \in Nat /\ Len(F) \in Nat /\ b[k][1] \in Nat /\ b[k][1] + 1 <= Len(F)
      BY <1>1, LaidStart
    <2>2. SignedAt(a, k) = a[k] + 8
      BY <1>1 DEF SignedAt
    <2>3. b[k][1] = SignedAt(a, k) + 1
      BY <1>1 DEF Laid, SavedAt
    <2> QED BY <2>1, <2>2, <2>3
  <1> QED BY <1>1

LEMMA StopReads ==
  ASSUME NEW C, NEW F, NEW whole \in BOOLEAN, NEW ld, NEW s \in LoaderState, Reads(C, F, whole, ld)
  PROVE  /\ Reads(C, F, whole, Stop(ld, s))
         /\ Stop(ld, s).file = ld.file /\ Stop(ld, s).format = ld.format /\ Stop(ld, s).at = ld.at
         /\ Stop(ld, s).maps = ld.maps /\ Stop(ld, s).current = ld.current
         /\ Stop(ld, s).found = ld.found /\ Stop(ld, s).state = s
  <1>1. PICK d : d = Stop(ld, s)
    OBVIOUS
  <1>2. ld \in LoaderType
    BY DEF Reads
  <1>3. /\ d \in LoaderType /\ d.file = ld.file /\ d.format = ld.format /\ d.at = ld.at /\ d.maps = ld.maps
        /\ d.current = ld.current /\ d.found = ld.found /\ d.rombank = ld.rombank
        /\ d.rambank = ld.rambank /\ d.state = s
    BY <1>1, <1>2 DEF Stop, LoaderType
  <1> QED BY <1>1, <1>3 DEF Reads

LEMMA BankedReads ==
  ASSUME NEW C, NEW F, NEW whole \in BOOLEAN, NEW ld, Reads(C, F, whole, ld)
  PROVE  \E d : /\ d = Banked(ld) /\ Reads(C, F, whole, d)
                /\ d.file = ld.file /\ d.format = ld.format /\ d.at = ld.at
                /\ d.current = ld.current /\ d.found = ld.found /\ d.state = ld.state
                /\ d.maps[ld.current] \in Map /\ d.maps[ld.current].code = ld.maps[ld.current].code
                /\ d.maps[ld.current].rombank = C[ld.current].rombank
                /\ d.maps[ld.current].rambank = C[ld.current].rambank
  <1>1. PICK d, k : d = Banked(ld) /\ k = ld.current
    OBVIOUS
  <1>2. ld \in LoaderType /\ k \in 1..Len(ld.maps) /\ ld.maps \in Seq(Map) /\ ld.rombank \in Int /\ ld.rambank \in Int
    BY <1>1 DEF Reads, LoaderType
  <1>3. ld.maps[k] \in Map
    BY <1>2
  <1>4. PICK m : m = [code |-> ld.maps[k].code, rombank |-> ld.rombank, rambank |-> ld.rambank]
    OBVIOUS
  <1>5. m \in Map
    BY <1>2, <1>3, <1>4 DEF Map
  <1>6. d = [ld EXCEPT !.maps = [@ EXCEPT ![k] = m]]
    BY <1>1, <1>2, <1>4 DEF Banked, LoaderType
  <1>7. /\ [ld.maps EXCEPT ![k] = m] \in Seq(Map) /\ Len([ld.maps EXCEPT ![k] = m]) = Len(ld.maps)
        /\ [ld.maps EXCEPT ![k] = m][k] = m
        /\ \A i \in 1..Len(ld.maps) : i # k => [ld.maps EXCEPT ![k] = m][i] = ld.maps[i]
    BY <1>2, <1>5, ExceptSeq
  <1>8. /\ d \in LoaderType /\ d.file = ld.file /\ d.format = ld.format /\ d.at = ld.at
        /\ d.current = ld.current /\ d.found = ld.found /\ d.rombank = ld.rombank
        /\ d.rambank = ld.rambank /\ d.state = ld.state /\ d.maps = [ld.maps EXCEPT ![k] = m]
    BY <1>2, <1>6, <1>7 DEF LoaderType
  <1>9. \A i \in 1..k - 1 : d.maps[i] = ld.maps[i]
    <2>1. Len(ld.maps) \in Nat
      BY <1>2, LenProperties
    <2>2. \A i \in 1..k - 1 : i \in 1..Len(ld.maps) /\ i # k
      BY <1>2, <2>1
    <2> QED BY <1>7, <1>8, <2>2
  <1>10. Reads(C, F, whole, d)
    BY <1>1, <1>7, <1>8, <1>9 DEF Reads
  <1>11. ld.rombank = C[k].rombank /\ ld.rambank = C[k].rambank
    BY <1>1 DEF Reads
  <1>12. d.maps[k] = m
    BY <1>7, <1>8
  <1>13. /\ m.code = ld.maps[k].code /\ m.rombank = C[k].rombank /\ m.rambank = C[k].rambank
    BY <1>4, <1>11
  <1> QED BY <1>1, <1>5, <1>8, <1>10, <1>12, <1>13

LEMMA SearchFinds ==
  ASSUME NEW ld \in LoaderType, ld.at \in 1..Len(ld.file), ld.file[ld.at] = SIGNATURE
  PROVE  SearchSignature(ld) = [ld EXCEPT !.at = ld.at + 1, !.found = TRUE, !.state = "BLOCK"]
  <1>1. PICK marks : marks = {k \in ld.at..Len(ld.file) : ld.file[k] = SIGNATURE}
    OBVIOUS
  <1>2. ld.at \in Nat /\ Len(ld.file) \in Nat
    BY LenProperties DEF LoaderType
  <1>3. ld.at \in marks /\ \A j \in marks : j \in Nat /\ ld.at <= j
    BY <1>1, <1>2
  <1>4. (CHOOSE k \in marks : \A j \in marks : k <= j) = ld.at
    <2>1. PICK m : m = CHOOSE k \in marks : \A j \in marks : k <= j
      OBVIOUS
    <2>2. m \in marks /\ \A j \in marks : m <= j
      BY <1>3, <2>1
    <2>3. m = ld.at
      BY <1>2, <1>3, <2>2
    <2> QED BY <2>1, <2>3
  <1>5. marks # {}
    BY <1>3
  <1>6. SearchSignature(ld) =
          IF marks = {} THEN Stop(ld, IF ld.found THEN "OK" ELSE "LOADBADFILE")
          ELSE [ld EXCEPT !.at = (CHOOSE k \in marks : \A j \in marks : k <= j) + 1,
                          !.found = TRUE, !.state = "BLOCK"]
    BY <1>1 DEF SearchSignature
  <1> QED BY <1>4, <1>5, <1>6

LEMMA SearchEnds ==
  ASSUME NEW ld \in LoaderType, ld.at > Len(ld.file)
  PROVE  SearchSignature(ld) = Stop(ld, IF ld.found THEN "OK" ELSE "LOADBADFILE")
  <1>1. ld.at \in Nat /\ Len(ld.file) \in Nat
    BY LenProperties DEF LoaderType
  <1>2. {k \in ld.at..Len(ld.file) : ld.file[k] = SIGNATURE} = {}
    BY <1>1
  <1> QED BY <1>2 DEF SearchSignature

AtSignature(F, ld) == ld.state = "SEARCH" /\ ld.at \in 1..Len(ld.file) /\ F[ld.at] = SIGNATURE

LEMMA FoundReads ==
  ASSUME NEW C, NEW F, NEW whole \in BOOLEAN, NEW ld, Reads(C, F, whole, ld), AtSignature(F, ld)
  PROVE  \E d : /\ d = LoadStep(ld) /\ Reads(C, F, whole, d)
                /\ d.file = ld.file /\ d.format = ld.format /\ d.at = ld.at + 1 /\ d.found
                /\ d.state = "BLOCK" /\ d.current = ld.current /\ d.maps = ld.maps
  <1>1. ld \in LoaderType /\ ld.at \in 1..Len(ld.file) /\ ld.file[ld.at] = SIGNATURE
    BY DEF Reads, AtSignature
  <1>2. PICK d : d = [ld EXCEPT !.at = ld.at + 1, !.found = TRUE, !.state = "BLOCK"]
    OBVIOUS
  <1>3. d = LoadStep(ld)
    <2>1. SearchSignature(ld) = [ld EXCEPT !.at = ld.at + 1, !.found = TRUE, !.state = "BLOCK"]
      BY <1>1, SearchFinds
    <2>2. LoadStep(ld) = SearchSignature(ld)
      BY DEF LoadStep, AtSignature
    <2> QED BY <1>2, <2>1, <2>2
  <1>4. ld.at \in Nat /\ ld.at >= 1
    BY <1>1 DEF LoaderType
  <1>5. /\ d \in LoaderType /\ d.file = ld.file /\ d.format = ld.format /\ d.at = ld.at + 1 /\ d.found
        /\ d.state = "BLOCK" /\ d.current = ld.current /\ d.maps = ld.maps
        /\ d.rombank = ld.rombank /\ d.rambank = ld.rambank
    <2>1. PICK n : n = ld.at + 1
      OBVIOUS
    <2>2. n \in Nat
      BY <1>4, <2>1
    <2>3. PICK d1 : d1 = [ld EXCEPT !.at = n]
      OBVIOUS
    <2>4. PICK d2 : d2 = [d1 EXCEPT !.found = TRUE]
      OBVIOUS
    <2>5. d1 \in LoaderType /\ d2 \in LoaderType
      <3>1. d1 \in LoaderType
        BY <1>1, <2>2, <2>3 DEF LoaderType
      <3> QED BY <2>4, <3>1 DEF LoaderType
    <2>6. d = [d2 EXCEPT !.state = "BLOCK"]
      BY <1>2, <2>1, <2>3, <2>4, Zenon
    <2>7. d2.found = TRUE /\ d2.at = n /\ d2.file = ld.file /\ d2.format = ld.format
          /\ d2.current = ld.current /\ d2.maps = ld.maps /\ d2.rombank = ld.rombank /\ d2.rambank = ld.rambank
      <3>1. d1.at = n /\ d1.file = ld.file /\ d1.format = ld.format
          /\ d1.current = ld.current /\ d1.maps = ld.maps /\ d1.rombank = ld.rombank /\ d1.rambank = ld.rambank
        BY <1>1, <2>3 DEF LoaderType
      <3> QED BY <2>4, <2>5, <3>1 DEF LoaderType
    <2>8. d \in LoaderType
      <3>1. "BLOCK" \in LoaderState
        BY DEF LoaderState
      <3> QED BY <2>5, <2>6, <3>1 DEF LoaderType
    <2>9. d.state = "BLOCK" /\ d.found = d2.found /\ d.at = d2.at /\ d.file = d2.file /\ d.format = d2.format
          /\ d.current = d2.current /\ d.maps = d2.maps /\ d.rombank = d2.rombank /\ d.rambank = d2.rambank
      BY <2>5, <2>6 DEF LoaderType
    <2> QED BY <2>1, <2>7, <2>8, <2>9
  <1>6. Reads(C, F, whole, d)
    BY <1>4, <1>5 DEF Reads
  <1> QED BY <1>3, <1>5, <1>6

Skipped(ld) == [ld EXCEPT !.at = @ + 2, !.state = "SEARCH"]

(* What a block may be.                                                    *)
LEMMA BlockCases ==
  ASSUME NEW ld \in LoaderType, NEW C, NEW F, NEW whole \in BOOLEAN, Reads(C, F, whole, ld)
  PROVE  /\ ld.at > Len(ld.file) => LoadBlock(ld) = NoBlock(Banked(ld))
         /\ ld.at = Len(ld.file) => LoadBlock(ld) = Stop(Banked(ld), "UNEXPECTEDEOF")
         /\ ld.at < Len(ld.file) =>
              /\ ld.file[ld.at + 1] = 0 =>
                   LoadBlock(ld) = Skipped(Banked(ld))
              /\ ld.file[ld.at + 1] > 1 /\ ld.file[ld.at] = META => LoadBlock(ld) = Announce(Banked(ld))
              /\ ld.file[ld.at + 1] # 0 /\ ld.file[ld.at] # META => LoadBlock(ld) = Data(Banked(ld))
  <1>0. Reads(C, F, whole, ld)
    OBVIOUS
  <1>1. PICK d : d = Banked(ld) /\ d.at = ld.at /\ d.file = ld.file
    BY <1>0, BankedReads
  <1>3. ld.at \in Nat /\ Len(ld.file) \in Nat
    BY LenProperties DEF LoaderType
  <1>4. LoadBlock(ld) =
          IF ld.at > Len(ld.file) THEN NoBlock(d)
          ELSE IF ld.at = Len(ld.file) THEN Stop(d, "UNEXPECTEDEOF")
          ELSE IF ld.file[ld.at + 1] = 0 THEN Skipped(d)
          ELSE IF ld.file[ld.at] = META /\ ld.file[ld.at + 1] > 1 THEN Announce(d)
          ELSE Data(d)
    BY <1>1 DEF LoadBlock, AtEnd, Skipped
  <1>5. PICK n, l, x, y, v, e1, e2, e3, e4, e5 :
          /\ n = ld.at /\ l = Len(ld.file) /\ x = ld.file[ld.at] /\ y = ld.file[ld.at + 1]
          /\ v = LoadBlock(ld) /\ e1 = NoBlock(d) /\ e2 = Stop(d, "UNEXPECTEDEOF")
          /\ e3 = Skipped(d) /\ e4 = Announce(d) /\ e5 = Data(d)
    OBVIOUS
  <1>6. n \in Nat /\ l \in Nat
    BY <1>3, <1>5
  <1>7. v = IF n > l THEN e1 ELSE IF n = l THEN e2 ELSE IF y = 0 THEN e3
            ELSE IF x = META /\ y > 1 THEN e4 ELSE e5
    BY <1>4, <1>5
  <1>8. n > l => v = e1
    BY <1>6, <1>7
  <1>9. n = l => v = e2
    BY <1>6, <1>7
  <1>10. n < l /\ y = 0 => v = e3
    BY <1>6, <1>7
  <1>11. n < l /\ y > 1 /\ y # 0 /\ x = META => v = e4
    BY <1>6, <1>7
  <1>12. n < l /\ y # 0 /\ x # META => v = e5
    BY <1>6, <1>7
  <1> QED BY <1>1, <1>5, <1>8, <1>9, <1>10, <1>11, <1>12
LEMMA StopKeeps ==
  ASSUME NEW C, NEW F, NEW a, NEW r, NEW b, NEW whole \in BOOLEAN, NEW ld,
         NEW s \in LoaderState \ {"SEARCH", "BLOCK"},
         Reads(C, F, whole, ld), PartOf(ld.maps[ld.current], C[ld.current]),
         whole => s = "OK" /\ ld.current = Len(C) /\ ld.maps[ld.current] = C[ld.current],
         s = "OK" /\ ld.format = "HEXA" => ld.maps[ld.current].code \in {<<>>, C[ld.current].code}
  PROVE  LoaderInv(C, F, a, r, b, whole, Stop(ld, s))
  <1>1. PICK d : d = Stop(ld, s)
    OBVIOUS
  <1>2. Reads(C, F, whole, d) /\ d.format = ld.format /\ d.maps = ld.maps /\ d.current = ld.current /\ d.state = s
    BY <1>1, StopReads
  <1>3. s \notin {"SEARCH", "BLOCK"}
    OBVIOUS
  <1>4. Stopped(C, whole, d)
    BY <1>2, <1>3 DEF Stopped
  <1> QED BY <1>1, <1>2, <1>4 DEF LoaderInv

(* An empty block: the map being filled has the banks of its own.          *)
AtEmpty(F, ld) == ld.found /\ ld.state = "BLOCK" /\ ld.at < Len(ld.file) /\ F[ld.at + 1] = 0

LEMMA EmptyReads ==
  ASSUME NEW C, NEW F, NEW whole \in BOOLEAN, NEW ld, Reads(C, F, whole, ld), AtEmpty(F, ld)
  PROVE  \E d : /\ d = LoadStep(ld) /\ Reads(C, F, whole, d)
                /\ d.format = ld.format /\ d.at = ld.at + 2 /\ d.found /\ d.state = "SEARCH"
                /\ d.current = ld.current /\ d.maps[ld.current] \in Map
                /\ d.maps[ld.current].code = ld.maps[ld.current].code
                /\ d.maps[ld.current].rombank = C[ld.current].rombank
                /\ d.maps[ld.current].rambank = C[ld.current].rambank
  <1>1. ld \in LoaderType
    BY DEF Reads
  <1>2. PICK c : /\ c = Banked(ld) /\ Reads(C, F, whole, c)
                 /\ c.file = ld.file /\ c.format = ld.format /\ c.at = ld.at
                 /\ c.current = ld.current /\ c.found = ld.found /\ c.state = ld.state
                 /\ c.maps[ld.current] \in Map /\ c.maps[ld.current].code = ld.maps[ld.current].code
                 /\ c.maps[ld.current].rombank = C[ld.current].rombank
                 /\ c.maps[ld.current].rambank = C[ld.current].rambank
    BY BankedReads
  <1>3. ld.at \in Nat /\ Len(ld.file) \in Nat
    BY <1>1, LenProperties DEF LoaderType
  <1>0. ld.found /\ ld.state = "BLOCK" /\ ld.at < Len(ld.file) /\ F[ld.at + 1] = 0
    BY DEF AtEmpty
  <1>4. ld.file[ld.at + 1] = 0
    <2>1. ld.at + 1 \in 1..Len(ld.file)
      BY <1>0, <1>3
    <2> QED BY <1>0, <2>1 DEF Reads
  <1>5. LoadBlock(ld) = [c EXCEPT !.at = @ + 2, !.state = "SEARCH"]
    <2>1. LoadBlock(ld) = Skipped(Banked(ld))
      BY <1>0, <1>1, <1>4, BlockCases
    <2> QED BY <1>2, <2>1 DEF Skipped
  <1>6. PICK n : n = c.at + 2
    OBVIOUS
  <1>7. PICK c1 : c1 = [c EXCEPT !.at = n]
    OBVIOUS
  <1>8. PICK d : d = [c1 EXCEPT !.state = "SEARCH"]
    OBVIOUS
  <1>9. d = LoadStep(ld)
    <2>1. LoadStep(ld) = LoadBlock(ld)
      BY <1>0 DEF LoadStep
    <2> QED BY <1>5, <1>6, <1>7, <1>8, <2>1, Zenon
  <1>10. n \in Nat /\ n = ld.at + 2
    BY <1>2, <1>3, <1>6
  <1>11. /\ c1 \in LoaderType /\ c1.file = c.file /\ c1.format = c.format /\ c1.at = n /\ c1.found = c.found
         /\ c1.current = c.current /\ c1.maps = c.maps /\ c1.rombank = c.rombank /\ c1.rambank = c.rambank
    BY <1>2, <1>7, <1>10 DEF Reads, LoaderType
  <1>12. d \in LoaderType
    BY <1>8, <1>11 DEF LoaderType, LoaderState
  <1>13. /\ d.file = c.file /\ d.format = c.format /\ d.at = n /\ d.found = c.found /\ d.state = "SEARCH"
         /\ d.current = c.current /\ d.maps = c.maps /\ d.rombank = c.rombank /\ d.rambank = c.rambank
    BY <1>8, <1>11 DEF LoaderType
  <1>14. Reads(C, F, whole, d)
    BY <1>2, <1>3, <1>10, <1>12, <1>13 DEF Reads
  <1>15. /\ d.format = ld.format /\ d.at = ld.at + 2 /\ d.found /\ d.state = "SEARCH"
         /\ d.current = ld.current /\ d.maps = c.maps
    BY <1>0, <1>2, <1>10, <1>13
  <1> QED BY <1>2, <1>9, <1>14, <1>15

(* A file that ends where a block begins.                                  *)
AtShort(C, whole, ld) ==
  /\ ld.found /\ ld.state = "BLOCK" /\ ld.at >= Len(ld.file) /\ ~whole
  /\ PartOf(ld.maps[ld.current], C[ld.current])

LEMMA ShortBlock ==
  ASSUME NEW C, NEW F, NEW a, NEW r, NEW b, NEW whole \in BOOLEAN, NEW ld,
         Reads(C, F, whole, ld), AtShort(C, whole, ld)
  PROVE  LoaderInv(C, F, a, r, b, whole, LoadStep(ld))
  <1>1. ld \in LoaderType
    BY DEF Reads
  <1>2. PICK c : /\ c = Banked(ld) /\ Reads(C, F, whole, c)
                 /\ c.file = ld.file /\ c.format = ld.format /\ c.at = ld.at
                 /\ c.current = ld.current /\ c.found = ld.found /\ c.state = ld.state
                 /\ c.maps[ld.current].code = ld.maps[ld.current].code
    BY BankedReads
  <1>3. ld.at \in Nat /\ Len(ld.file) \in Nat
    BY <1>1, LenProperties DEF LoaderType
  <1>0. /\ ld.found /\ ld.state = "BLOCK" /\ ld.at >= Len(ld.file) /\ ~whole
        /\ PartOf(ld.maps[ld.current], C[ld.current])
    BY DEF AtShort
  <1>4. PartOf(c.maps[c.current], C[c.current])
    BY <1>0, <1>2 DEF PartOf
  <1>5. LoadStep(ld) = LoadBlock(ld)
    BY <1>0 DEF LoadStep
  <1>6. LoaderInv(C, F, a, r, b, whole, Stop(c, "UNEXPECTEDEOF"))
    <2>1. PICK s \in LoaderState \ {"SEARCH", "BLOCK"} : s = "UNEXPECTEDEOF"
      BY DEF LoaderState
    <2>2. s # "OK"
      BY <2>1
    <2> QED BY <1>0, <1>2, <1>4, <2>1, <2>2, StopKeeps
  <1>7. CASE ld.at = Len(ld.file)
    <2>1. LoadBlock(ld) = Stop(c, "UNEXPECTEDEOF")
      BY <1>1, <1>2, <1>7, BlockCases
    <2> QED BY <1>5, <1>6, <2>1
  <1>8. CASE ld.at > Len(ld.file)
    <2>1. LoadBlock(ld) = NoBlock(c)
      BY <1>1, <1>2, <1>8, BlockCases
    <2>2. CASE ld.format = "HEXA"
      BY <1>2, <1>5, <1>6, <2>1, <2>2 DEF NoBlock
    <2>3. CASE ld.format # "HEXA"
      <3>0. PICK s \in LoaderState : s = "SEARCH"
        BY DEF LoaderState
      <3>1. PICK d : d = Stop(c, s)
        OBVIOUS
      <3>2. /\ Reads(C, F, whole, d) /\ d.file = c.file /\ d.format = c.format /\ d.at = c.at
            /\ d.maps = c.maps /\ d.current = c.current /\ d.found = c.found /\ d.state = "SEARCH"
        BY <1>2, <3>0, <3>1, StopReads
      <3>3. d = NoBlock(c)
        BY <1>2, <2>3, <3>0, <3>1 DEF NoBlock
      <3>4. d.format = "BINARY"
        BY <1>1, <1>2, <2>3, <3>2 DEF LoaderType
      <3>5. AtCut(C, whole, d)
        BY <1>0, <1>2, <1>4, <1>8, <3>2, <3>4 DEF AtCut
      <3> QED BY <1>5, <2>1, <3>2, <3>3, <3>5 DEF LoaderInv
    <2> QED BY <2>2, <2>3
  <1> QED BY <1>0, <1>3, <1>7, <1>8

(* The end of the file where a signature is searched.                      *)
LEMMA SearchStops ==
  ASSUME NEW C, NEW F, NEW whole \in BOOLEAN, NEW ld, Reads(C, F, whole, ld),
         NEW s \in LoaderState, ld.state = "SEARCH", ld.at > Len(ld.file),
         s = IF ld.found THEN "OK" ELSE "LOADBADFILE"
  PROVE  LoadStep(ld) = Stop(ld, s)
  BY SearchEnds DEF Reads, LoadStep

(* Nothing, a part or all of a map is a part of it.                        *)
LEMMA PartsOfMap ==
  ASSUME NEW m, NEW c
  PROVE  /\ m.code = <<>> => PartOf(m, c)
         /\ m.code = c.code => PartOf(m, c)
         /\ \A x : m.code = Upto(c.code, x) => PartOf(m, c)
  <1>1. m.code = <<>> => PartOf(m, c)
    BY DEF PartOf
  <1>2. m.code = c.code => PartOf(m, c)
    BY DEF PartOf
  <1>3. ASSUME NEW x, m.code = Upto(c.code, x) PROVE PartOf(m, c)
    BY <1>3 DEF PartOf, Upto
  <1> QED BY <1>1, <1>2, <1>3

LEMMA FromFile ==
  ASSUME NEW C, NEW F, NEW a, NEW r, NEW b, NEW whole \in BOOLEAN, NEW ld,
         IsMaps(C), Laid(C, F, a, r, b), Reads(C, F, whole, ld), AtFile(ld)
  PROVE  LoaderInv(C, F, a, r, b, whole, LoadStep(ld))
  <1>1. ld.current = 1 /\ ld.state = "SEARCH" /\ ld.at = 1 /\ ~ld.found /\ ld.maps[1] = NewMap
    BY DEF AtFile
  <1>2. ld \in LoaderType /\ Len(ld.file) \in Nat /\ 1 \in 1..Len(C)
    BY LenProperties DEF Reads, LoaderType, IsMaps
  <1>3. a[1] = 1 /\ SavedAt(C[1].code, r[1], F, SignedAt(a, 1), b[1]) /\ RunsOf(C[1].code, r[1])
    BY <1>2 DEF Laid
  <1>4. SignedAt(a, 1) = 1
    BY <1>3 DEF SignedAt
  <1>5. F[1] = SIGNATURE /\ b[1][1] = 2
    BY <1>3, <1>4 DEF SavedAt
  <1>6. r[1].n \in Nat /\ 1 \in 1..r[1].n + 1
    <2>1. r[1].n \in Nat
      BY <1>3, RunsOfNumbers
    <2> QED BY <2>1
  <1>7. Len(F) \in Nat /\ b[1][1] + 1 <= Len(F)
    BY <1>2, <1>6, LaidBounds
  <1>8. NewMap.code = <<>>
    BY DEF NewMap
  <1>9. CASE Len(ld.file) = 0
    <2>1. ~whole
      BY <1>5, <1>7, <1>9 DEF Reads
    <2>2. PICK s \in LoaderState \ {"SEARCH", "BLOCK"} : s = "LOADBADFILE"
      BY DEF LoaderState
    <2>3. LoadStep(ld) = Stop(ld, s)
      BY <1>1, <1>9, <2>2, SearchStops
    <2>4. PartOf(ld.maps[ld.current], C[ld.current])
      BY <1>1, <1>8, PartsOfMap
    <2>5. s # "OK"
      BY <2>2
    <2> QED BY <2>1, <2>3, <2>4, <2>5, StopKeeps
  <1>10. CASE Len(ld.file) # 0
    <2>1. AtSignature(F, ld)
      BY <1>1, <1>2, <1>5, <1>10 DEF AtSignature
    <2>2. PICK d : /\ d = LoadStep(ld) /\ Reads(C, F, whole, d)
                   /\ d.file = ld.file /\ d.format = ld.format /\ d.at = ld.at + 1 /\ d.found
                   /\ d.state = "BLOCK" /\ d.current = ld.current /\ d.maps = ld.maps
      BY <2>1, FoundReads
    <2>3. d.at = b[1][1] /\ d.current = 1 /\ d.maps[1].code = <<>>
      BY <1>1, <1>5, <1>8, <2>2
    <2>4. Upto(C[1].code, Limit(r[1], 1)) = <<>>
      BY <1>2, <1>3, UptoFirst DEF IsMaps
    <2>5. AtRun(C, r, b, d)
      BY <1>6, <2>2, <2>3, <2>4 DEF AtRun
    <2> QED BY <2>2, <2>5 DEF LoaderInv
  <1> QED BY <1>9, <1>10
LEMMA FromPart ==
  ASSUME NEW C, NEW F, NEW a, NEW r, NEW b, NEW whole \in BOOLEAN, NEW ld,
         IsMaps(C), Laid(C, F, a, r, b), Reads(C, F, whole, ld), AtPart(C, a, ld)
  PROVE  LoaderInv(C, F, a, r, b, whole, LoadStep(ld))
  <1>1. /\ ld.state = "SEARCH" /\ ld.found /\ ld.at = a[ld.current + 1]
        /\ ld.maps[ld.current] = C[ld.current]
    BY DEF AtPart
  <1>2. PICK k, n : k = ld.current /\ n = Len(C)
    OBVIOUS
  <1>3. ld \in LoaderType /\ Len(ld.file) \in Nat /\ k \in 1..n /\ n \in Nat
    BY <1>2, LenProperties DEF Reads, LoaderType, IsMaps
  <1>4. Len(ld.file) <= Len(F) /\ (whole => Len(ld.file) = Len(F))
    BY DEF Reads
  <1>5. F \in Seq(Int) /\ a \in [1..n + 1 -> Nat] /\ a[n + 1] = Len(F) + 1
    BY <1>2 DEF Laid
  <1>6. ld.at \in Nat /\ Len(F) \in Nat /\ ld.at >= 1
    <2>1. b[k][1] + 1 <= Len(F) /\ b[k][1] \in Nat
      <3>1. r[k].n \in Nat /\ 1 \in 1..r[k].n + 1
        <4>1. RunsOf(C[k].code, r[k])
          BY <1>2, <1>3 DEF Laid
        <4>2. r[k].n \in Nat
          BY <4>1, RunsOfNumbers
        <4> QED BY <4>2
      <3> QED BY <1>2, <1>3, <3>1, LaidBounds
    <2> QED BY SMTT(30), <1>1, <1>3, <1>5, LenProperties DEF LoaderType, Reads
  <1>7. PartOf(ld.maps[ld.current], C[ld.current])
    BY <1>1, PartsOfMap
  <1>10. \A q \in 1..Len(C) : q # 1 => a[q] \in Nat /\ a[q] + 10 <= Len(F)
    BY LaidRoom
  <1>8. CASE ld.at > Len(ld.file)
    <2>1. PICK s \in LoaderState \ {"SEARCH", "BLOCK"} : s = "OK"
      BY DEF LoaderState
    <2>2. LoadStep(ld) = Stop(ld, s)
      BY <1>1, <1>8, <2>1, SearchStops
    <2>3. ASSUME whole PROVE k = n
      <3>1. ASSUME k # n PROVE FALSE
        <4>1. k + 1 \in 1..n /\ k + 1 # 1
          BY <1>3, <3>1
        <4>2. a[k + 1] + 10 <= Len(F)
          BY <1>2, <1>10, <4>1
        <4> QED BY <1>1, <1>2, <1>4, <1>6, <1>8, <2>3, <4>2
      <3> QED BY <3>1
    <2> QED BY <1>1, <1>2, <1>7, <2>1, <2>2, <2>3, StopKeeps
  <1>9. CASE ~(ld.at > Len(ld.file))
    <2>1. ld.at \in 1..Len(ld.file) /\ ld.at <= Len(F)
      BY <1>3, <1>4, <1>6, <1>9
    <2>2. k # n
      BY <1>1, <1>2, <1>5, <1>6, <2>1
    <2>3. PICK q : q = k + 1
      OBVIOUS
    <2>4. q \in 1..Len(C) /\ q # 1
      BY <1>2, <1>3, <2>2, <2>3
    <2>5. F[a[q]] = SIGNATURE
      BY <2>4 DEF Laid, Announced
    <2>6. AtSignature(F, ld)
      BY <1>1, <1>2, <2>1, <2>3, <2>5 DEF AtSignature
    <2>7. PICK d : /\ d = LoadStep(ld) /\ Reads(C, F, whole, d)
                   /\ d.file = ld.file /\ d.format = ld.format /\ d.at = ld.at + 1 /\ d.found
                   /\ d.state = "BLOCK" /\ d.current = ld.current /\ d.maps = ld.maps
      BY <2>6, FoundReads
    <2>8. AtBanks(C, a, d)
      BY <1>1, <1>2, <1>3, <2>2, <2>7 DEF AtBanks
    <2> QED BY <2>7, <2>8 DEF LoaderInv
  <1> QED BY <1>8, <1>9

LEMMA FromCut ==
  ASSUME NEW C, NEW F, NEW a, NEW r, NEW b, NEW whole \in BOOLEAN, NEW ld,
         Reads(C, F, whole, ld), AtCut(C, whole, ld)
  PROVE  LoaderInv(C, F, a, r, b, whole, LoadStep(ld))
  <1>1. /\ ld.state = "SEARCH" /\ ld.found /\ ld.format = "BINARY" /\ ~whole /\ ld.at > Len(ld.file)
        /\ PartOf(ld.maps[ld.current], C[ld.current])
    BY DEF AtCut
  <1>2. PICK s \in LoaderState \ {"SEARCH", "BLOCK"} : s = "OK"
    BY DEF LoaderState
  <1>3. LoadStep(ld) = Stop(ld, s)
    BY <1>1, <1>2, SearchStops
  <1>4. ld.format # "HEXA"
    BY <1>1
  <1> QED BY <1>1, <1>3, <1>4, StopKeeps

LEMMA FromNull ==
  ASSUME NEW C, NEW F, NEW a, NEW r, NEW b, NEW whole \in BOOLEAN, NEW ld,
         IsMaps(C), Laid(C, F, a, r, b), Reads(C, F, whole, ld), AtNull(a, ld)
  PROVE  LoaderInv(C, F, a, r, b, whole, LoadStep(ld))
  <1>1. /\ ld.state = "BLOCK" /\ ld.found /\ ld.current # 1 /\ ld.at = a[ld.current] + 6
        /\ ld.maps[ld.current].code = <<>>
    BY DEF AtNull
  <1>2. PICK k : k = ld.current
    OBVIOUS
  <1>3. ld \in LoaderType /\ Len(ld.file) \in Nat /\ k \in 1..Len(C) /\ Len(F) \in Nat
    BY <1>2, LenProperties DEF Reads, LoaderType, Laid
  <1>4. \A q \in 1..Len(C) : q # 1 => a[q] \in Nat /\ a[q] + 10 <= Len(F)
    BY LaidRoom
  <1>5. a[k] \in Nat /\ a[k] + 10 <= Len(F)
    BY <1>1, <1>2, <1>3, <1>4
  <1>6. F[a[k] + 6] = 0 /\ F[a[k] + 7] = 0
    BY <1>1, <1>2, <1>3 DEF Laid, Announced
  <1>7. PartOf(ld.maps[ld.current], C[ld.current])
    BY <1>1, PartsOfMap
  <1>8. CASE ld.at >= Len(ld.file)
    <2>1. ~whole
      BY <1>1, <1>2, <1>3, <1>5, <1>8 DEF Reads
    <2>2. AtShort(C, whole, ld)
      BY <1>1, <1>7, <1>8, <2>1 DEF AtShort
    <2> QED BY <2>2, ShortBlock
  <1>9. CASE ~(ld.at >= Len(ld.file))
    <2>1. ld.at + 1 = a[k] + 7 /\ ld.at < Len(ld.file)
      BY <1>1, <1>2, <1>3, <1>5, <1>9
    <2>2. AtEmpty(F, ld)
      BY <1>1, <1>6, <2>1 DEF AtEmpty
    <2>3. PICK d : /\ d = LoadStep(ld) /\ Reads(C, F, whole, d)
                   /\ d.format = ld.format /\ d.at = ld.at + 2 /\ d.found /\ d.state = "SEARCH"
                   /\ d.current = ld.current /\ d.maps[ld.current] \in Map
                   /\ d.maps[ld.current].code = ld.maps[ld.current].code
                   /\ d.maps[ld.current].rombank = C[ld.current].rombank
                   /\ d.maps[ld.current].rambank = C[ld.current].rambank
      BY <2>2, EmptyReads
    <2>4. d.at = a[k] + 8
      BY <1>1, <1>2, <1>5, <2>3
    <2>5. AtOwn(a, d)
      BY <1>1, <1>2, <2>3, <2>4 DEF AtOwn
    <2> QED BY <2>3, <2>5 DEF LoaderInv
  <1> QED BY <1>8, <1>9

LEMMA FromOwn ==
  ASSUME NEW C, NEW F, NEW a, NEW r, NEW b, NEW whole \in BOOLEAN, NEW ld,
         IsMaps(C), Laid(C, F, a, r, b), Reads(C, F, whole, ld), AtOwn(a, ld)
  PROVE  LoaderInv(C, F, a, r, b, whole, LoadStep(ld))
  <1>1. /\ ld.state = "SEARCH" /\ ld.found /\ ld.current # 1 /\ ld.at = a[ld.current] + 8
        /\ ld.maps[ld.current].code = <<>>
    BY DEF AtOwn
  <1>2. PICK k : k = ld.current
    OBVIOUS
  <1>3. ld \in LoaderType /\ Len(ld.file) \in Nat /\ k \in 1..Len(C) /\ Len(F) \in Nat
    BY <1>2, LenProperties DEF Reads, LoaderType, Laid
  <1>4. \A q \in 1..Len(C) : q # 1 => a[q] \in Nat /\ a[q] + 10 <= Len(F)
    BY LaidRoom
  <1>5. a[k] \in Nat /\ a[k] + 10 <= Len(F)
    BY <1>1, <1>2, <1>3, <1>4
  <1>6. SignedAt(a, k) = a[k] + 8 /\ SavedAt(C[k].code, r[k], F, SignedAt(a, k), b[k]) /\ RunsOf(C[k].code, r[k])
    BY <1>1, <1>2, <1>3 DEF Laid, SignedAt
  <1>7. F[a[k] + 8] = SIGNATURE /\ b[k][1] = a[k] + 9
    BY <1>5, <1>6 DEF SavedAt
  <1>8. PartOf(ld.maps[ld.current], C[ld.current])
    BY <1>1, PartsOfMap
  <1>9. CASE ld.at > Len(ld.file)
    <2>1. ~whole
      BY <1>1, <1>2, <1>3, <1>5, <1>9 DEF Reads
    <2>2. PICK s \in LoaderState \ {"SEARCH", "BLOCK"} : s = "OK"
      BY DEF LoaderState
    <2>3. LoadStep(ld) = Stop(ld, s)
      BY <1>1, <1>9, <2>2, SearchStops
    <2> QED BY <1>1, <1>8, <2>1, <2>3, StopKeeps
  <1>10. CASE ~(ld.at > Len(ld.file))
    <2>1. AtSignature(F, ld)
      BY <1>1, <1>2, <1>3, <1>5, <1>7, <1>10 DEF AtSignature
    <2>2. PICK d : /\ d = LoadStep(ld) /\ Reads(C, F, whole, d)
                   /\ d.file = ld.file /\ d.format = ld.format /\ d.at = ld.at + 1 /\ d.found
                   /\ d.state = "BLOCK" /\ d.current = ld.current /\ d.maps = ld.maps
      BY <2>1, FoundReads
    <2>3. d.at = b[k][1]
      BY <1>1, <1>2, <1>5, <1>7, <2>2
    <2>4. Upto(C[k].code, Limit(r[k], 1)) = <<>>
      BY <1>3, <1>6, UptoFirst DEF IsMaps
    <2>5. 1 \in 1..r[k].n + 1
      <3>1. r[k].n \in Nat
        BY <1>6, RunsOfNumbers
      <3> QED BY <3>1
    <2>6. AtRun(C, r, b, d)
      BY <1>1, <1>2, <2>2, <2>3, <2>4, <2>5 DEF AtRun
    <2> QED BY <2>2, <2>6 DEF LoaderInv
  <1> QED BY <1>9, <1>10

LEMMA MapMade ==
  ASSUME NEW m, m \in Map
  PROVE  m = [code |-> m.code, rombank |-> m.rombank, rambank |-> m.rambank]
  BY DEF Map

LEMMA NewMapMade == NewMap \in Map /\ NewMap.code = <<>>
  <1>1. IsCode(<<>>)
    BY DEF IsCode
  <1>2. <<>> \in Code
    BY <1>1, CodeIs
  <1> QED BY <1>2 DEF Map, NewMap

LEMMA OneMoreMap ==
  ASSUME NEW maps \in Seq(Map), NEW k \in Nat, Len(maps) = k
  PROVE  \E m : /\ m = Append(SubSeq(maps, 1, k), NewMap) /\ m \in Seq(Map) /\ Len(m) = k + 1
                /\ m[k + 1] = NewMap /\ \A i \in 1..k : m[i] = maps[i]
  <1>1. PICK s : s = SubSeq(maps, 1, k)
    OBVIOUS
  <1>2. s \in Seq(Map) /\ Len(s) = k /\ \A i \in 1..k : s[i] = maps[i]
    BY <1>1, SubSeqProperties
  <1>3. PICK m : m = Append(s, NewMap)
    OBVIOUS
  <1>4. NewMap \in Map
    BY NewMapMade
  <1>5. m \in Seq(Map) /\ Len(m) = k + 1 /\ m[k + 1] = NewMap /\ \A i \in 1..k : m[i] = s[i]
    BY <1>2, <1>3, <1>4, AppendProperties
  <1>6. m = Append(SubSeq(maps, 1, k), NewMap)
    BY <1>1, <1>3
  <1>7. \A i \in 1..k : m[i] = maps[i]
    BY <1>2, <1>5
  <1> QED BY <1>5, <1>6, <1>7

Announcing(ld) == ld.at + 3 < Len(ld.file)

LEMMA AnnounceReads ==
  ASSUME NEW C, NEW F, NEW a, NEW r, NEW b, NEW whole \in BOOLEAN, NEW ld,
         IsMaps(C), Laid(C, F, a, r, b), Reads(C, F, whole, ld), AtBanks(C, a, ld),
         Announcing(ld)
  PROVE  LoaderInv(C, F, a, r, b, whole, LoadStep(ld))
  <1>1. /\ ld.state = "BLOCK" /\ ld.found /\ ld.at = a[ld.current + 1] + 1 /\ ld.current < Len(C)
        /\ ld.maps[ld.current] = C[ld.current]
    BY DEF AtBanks
  <1>2. PICK k, q, n, p, l : k = ld.current /\ q = k + 1 /\ n = Len(C) /\ p = a[q] /\ l = Len(ld.file)
    OBVIOUS
  <1>3. /\ ld \in LoaderType /\ l \in Nat /\ k \in 1..n /\ n \in Nat /\ Len(F) \in Nat /\ l <= Len(F)
        /\ Len(ld.maps) = k
    BY <1>2, LenProperties DEF Reads, LoaderType, Laid, IsMaps
  <1>4. q \in 1..n /\ q # 1 /\ k \in Nat /\ q - 1 = k
    BY <1>1, <1>2, <1>3
  <1>5. p \in Nat /\ p + 10 <= Len(F)
    <2>1. \A j \in 1..Len(C) : j # 1 => a[j] \in Nat /\ a[j] + 10 <= Len(F)
      BY LaidRoom
    <2> QED BY <1>2, <1>4, <2>1
  <1>6. /\ F[p + 1] = META /\ F[p + 2] = 3 /\ F[p + 3] = 0
        /\ F[p + 4] = C[q].rombank /\ F[p + 5] = C[q].rambank
    BY <1>2, <1>4 DEF Laid, Announced
  <1>7. ld.at = p + 1 /\ p + 4 < l
    BY <1>1, <1>2, <1>5 DEF Announcing
  <1>8. PICK f : f = ld.file
    OBVIOUS
  <1>9. /\ f[p + 1] = META /\ f[p + 2] = 3 /\ f[p + 3] = 0
        /\ f[p + 4] = C[q].rombank /\ f[p + 5] = C[q].rambank
    <2>1. \A i \in 1..l : f[i] = F[i]
      BY <1>2, <1>8 DEF Reads
    <2>2. /\ p + 1 \in 1..l /\ p + 2 \in 1..l /\ p + 3 \in 1..l /\ p + 4 \in 1..l /\ p + 5 \in 1..l
      BY <1>3, <1>5, <1>7
    <2> QED BY <1>6, <2>1, <2>2
  <1>10. PICK c : /\ c = Banked(ld) /\ Reads(C, F, whole, c)
                 /\ c.file = ld.file /\ c.format = ld.format /\ c.at = ld.at
                 /\ c.current = ld.current /\ c.found = ld.found /\ c.state = ld.state
                 /\ c.maps[ld.current] \in Map /\ c.maps[ld.current].code = ld.maps[ld.current].code
                 /\ c.maps[ld.current].rombank = C[ld.current].rombank
                 /\ c.maps[ld.current].rambank = C[ld.current].rambank
    BY BankedReads
  <1>11. c.maps[k] = C[k]
    <2>1. C[k] = [code |-> C[k].code, rombank |-> C[k].rombank, rambank |-> C[k].rambank]
      BY <1>2, <1>3 DEF IsMaps
    <2>2. c.maps[k] = [code |-> c.maps[k].code, rombank |-> c.maps[k].rombank, rambank |-> c.maps[k].rambank]
      BY <1>2, <1>10, MapMade
    <2> QED BY <1>1, <1>2, <1>10, <2>1, <2>2
  <1>12. LoadStep(ld) = Announce(c)
    <2>1. ld.at < Len(ld.file) /\ ld.at + 1 = p + 2
      <3>1. p + 1 < l /\ p + 1 + 1 = p + 2
        BY <1>3, <1>5, <1>7
      <3> QED BY <1>2, <1>7, <3>1
    <2>2. ld.file[ld.at + 1] > 1 /\ ld.file[ld.at] = META
      BY <1>7, <1>8, <1>9, <2>1
    <2>3. ld.file[ld.at + 1] # 0
      BY <1>8, <1>9, <2>1
    <2>4. LoadBlock(ld) = Announce(c)
      BY <1>3, <1>10, <2>1, <2>2, <2>3, BlockCases
    <2> QED BY <1>1, <2>4 DEF LoadStep
  <1>13. PICK m : /\ m = Append(SubSeq(c.maps, 1, k), NewMap) /\ m \in Seq(Map) /\ Len(m) = k + 1
                 /\ m[k + 1] = NewMap /\ \A i \in 1..k : m[i] = c.maps[i]
    <2>1. c.maps \in Seq(Map) /\ Len(c.maps) = k
      <3>1. c \in LoaderType /\ Len(c.maps) = c.current
        BY <1>10 DEF Reads
      <3>2. c.maps \in Seq(Map)
        BY <3>1 DEF LoaderType
      <3>3. c.current = k
        BY <1>2, <1>10
      <3> QED BY <3>1, <3>2, <3>3
    <2>2. PICK s : s = c.maps
      OBVIOUS
    <2>3. s \in Seq(Map) /\ Len(s) = k /\ k \in Nat
      BY <1>4, <2>1, <2>2
    <2>4. \E m : /\ m = Append(SubSeq(s, 1, k), NewMap) /\ m \in Seq(Map) /\ Len(m) = k + 1
                 /\ m[k + 1] = NewMap /\ \A i \in 1..k : m[i] = s[i]
      BY <2>3, OneMoreMap
    <2> QED BY <2>2, <2>4
  <1>14. PICK d1 : d1 = [c EXCEPT !.at = p + 6]
    OBVIOUS
  <1>15. PICK d2 : d2 = [d1 EXCEPT !.rombank = C[q].rombank]
    OBVIOUS
  <1>16. PICK d3 : d3 = [d2 EXCEPT !.rambank = C[q].rambank]
    OBVIOUS
  <1>17. PICK d4 : d4 = [d3 EXCEPT !.current = q]
    OBVIOUS
  <1>18. PICK d : d = [d4 EXCEPT !.maps = m]
    OBVIOUS
  <1>19. d = LoadStep(ld)
    <2>1. /\ c.at = p + 1 /\ c.file = f /\ c.at + 1 = p + 2 /\ c.at + 2 = p + 3 /\ c.at + 3 = p + 4 /\ c.at + 4 = p + 5
          /\ c.at + 5 = p + 6 /\ c.current = k /\ c.current + 1 = q /\ Len(c.file) = l
      <3>1. c.at = p + 1 /\ c.file = f /\ c.current = k /\ Len(f) = l
        BY <1>2, <1>7, <1>8, <1>10
      <3>2. p + 1 + 1 = p + 2 /\ p + 1 + 2 = p + 3 /\ p + 1 + 3 = p + 4 /\ p + 1 + 4 = p + 5 /\ p + 1 + 5 = p + 6
        BY <1>5
      <3> QED BY <1>2, <3>1, <3>2
    <2>2. ~(c.file[c.at + 1] # 3 \/ (c.at + 2 <= Len(c.file) /\ c.file[c.at + 2] # 0))
      BY <1>9, <2>1
    <2>3. ~(c.at + 4 > Len(c.file))
      BY <1>3, <1>5, <1>7, <2>1
    <2>4. Announce(c) =
            [c EXCEPT !.at = @ + 5, !.rombank = c.file[c.at + 3],
                      !.rambank = c.file[c.at + 4], !.current = @ + 1,
                      !.maps = Append(SubSeq(@, 1, c.current), NewMap)]
      BY <2>2, <2>3 DEF Announce
    <2>5. c.file[c.at + 3] = C[q].rombank /\ c.file[c.at + 4] = C[q].rambank
      BY <1>9, <2>1
    <2>6. Announce(c) =
            [c EXCEPT !.at = p + 6, !.rombank = C[q].rombank, !.rambank = C[q].rambank, !.current = q, !.maps = m]
      BY <1>13, <2>1, <2>4, <2>5, Zenon
    <2>7. d2 = [c EXCEPT !.at = p + 6, !.rombank = C[q].rombank]
      BY <1>14, <1>15, Zenon
    <2>8. d3 = [c EXCEPT !.at = p + 6, !.rombank = C[q].rombank, !.rambank = C[q].rambank]
      BY <1>16, <2>7, Zenon
    <2>9. d4 = [c EXCEPT !.at = p + 6, !.rombank = C[q].rombank, !.rambank = C[q].rambank, !.current = q]
      BY <1>17, <2>8, Zenon
    <2>10. d = Announce(c)
      BY <1>18, <2>6, <2>9, Zenon
    <2> QED BY <1>12, <2>10
  <1>20. p + 6 \in Nat /\ p + 6 > 1 /\ q \in Nat /\ C[q].rombank \in Int /\ C[q].rambank \in Int
    <2>1. p + 6 \in Nat /\ p + 6 > 1 /\ q \in Nat
      BY <1>3, <1>4, <1>5
    <2>2. C[q].rombank \in Int /\ C[q].rambank \in Int
      BY <1>2, <1>4 DEF IsMaps
    <2> QED BY <2>1, <2>2
  <1>21. /\ d1 \in LoaderType /\ d1.file = c.file /\ d1.format = c.format /\ d1.at = p + 6
         /\ d1.found = c.found /\ d1.state = c.state
    BY <1>10, <1>14, <1>20 DEF Reads, LoaderType
  <1>22. /\ d2 \in LoaderType /\ d2.file = c.file /\ d2.format = c.format /\ d2.at = p + 6
         /\ d2.found = c.found /\ d2.state = c.state /\ d2.rombank = C[q].rombank
    BY <1>15, <1>20, <1>21 DEF LoaderType
  <1>23. /\ d3 \in LoaderType /\ d3.file = c.file /\ d3.format = c.format /\ d3.at = p + 6
         /\ d3.found = c.found /\ d3.state = c.state /\ d3.rombank = C[q].rombank /\ d3.rambank = C[q].rambank
    BY <1>16, <1>20, <1>22 DEF LoaderType
  <1>24. /\ d4 \in LoaderType /\ d4.file = c.file /\ d4.format = c.format /\ d4.at = p + 6
         /\ d4.found = c.found /\ d4.state = c.state /\ d4.rombank = C[q].rombank /\ d4.rambank = C[q].rambank
         /\ d4.current = q
    BY <1>17, <1>20, <1>23 DEF LoaderType
  <1>25. /\ d \in LoaderType /\ d.file = c.file /\ d.format = c.format /\ d.at = p + 6
         /\ d.found = c.found /\ d.state = c.state /\ d.rombank = C[q].rombank /\ d.rambank = C[q].rambank
         /\ d.current = q /\ d.maps = m
    BY <1>13, <1>18, <1>24 DEF LoaderType
  <1>26. \A i \in 1..k : m[i] = C[i]
    <2>1. \A i \in 1..k - 1 : c.maps[i] = C[i]
      BY <1>2, <1>10 DEF Reads
    <2> QED BY <1>4, <1>11, <1>13, <2>1
  <1>27. Reads(C, F, whole, d)
    <2>1. Len(d.maps) = d.current /\ d.current \in 1..Len(C)
      BY <1>2, <1>4, <1>13, <1>25
    <2>2. \A i \in 1..d.current - 1 : d.maps[i] = C[i]
      BY <1>4, <1>25, <1>26
    <2>3. d.at > 1 /\ d.rombank = C[d.current].rombank /\ d.rambank = C[d.current].rambank
      BY <1>20, <1>25
    <2>4. /\ Len(c.file) <= Len(F) /\ (whole => Len(c.file) = Len(F)) /\ \A i \in 1..Len(c.file) : c.file[i] = F[i]
      BY <1>10 DEF Reads
    <2> QED BY <1>25, <2>1, <2>2, <2>3, <2>4 DEF Reads
  <1>28. AtNull(a, d)
    <2>1. d.state = "BLOCK" /\ d.found /\ d.current # 1 /\ d.at = a[d.current] + 6
      BY <1>1, <1>2, <1>4, <1>10, <1>25
    <2>2. d.maps[d.current].code = <<>>
      BY <1>2, <1>13, <1>25, NewMapMade
    <2> QED BY <2>1, <2>2 DEF AtNull
  <1> QED BY <1>19, <1>27, <1>28 DEF LoaderInv

LEMMA FromBanks ==
  ASSUME NEW C, NEW F, NEW a, NEW r, NEW b, NEW whole \in BOOLEAN, NEW ld,
         IsMaps(C), Laid(C, F, a, r, b), Reads(C, F, whole, ld), AtBanks(C, a, ld)
  PROVE  LoaderInv(C, F, a, r, b, whole, LoadStep(ld))
  <1>1. /\ ld.state = "BLOCK" /\ ld.found /\ ld.at = a[ld.current + 1] + 1 /\ ld.current < Len(C)
        /\ ld.maps[ld.current] = C[ld.current]
    BY DEF AtBanks
  <1>2. PICK k, q, n, p, l : k = ld.current /\ q = k + 1 /\ n = Len(C) /\ p = a[q] /\ l = Len(ld.file)
    OBVIOUS
  <1>3. /\ ld \in LoaderType /\ l \in Nat /\ k \in 1..n /\ n \in Nat /\ Len(F) \in Nat /\ l <= Len(F)
    BY <1>2, LenProperties DEF Reads, LoaderType, Laid, IsMaps
  <1>4. q \in 1..n /\ q # 1
    BY <1>1, <1>2, <1>3
  <1>5. p \in Nat /\ p + 10 <= Len(F)
    <2>1. \A j \in 1..Len(C) : j # 1 => a[j] \in Nat /\ a[j] + 10 <= Len(F)
      BY LaidRoom
    <2> QED BY <1>2, <1>4, <2>1
  <1>6. F[p + 1] = META /\ F[p + 2] = 3 /\ F[p + 3] = 0
    BY <1>2, <1>4 DEF Laid, Announced
  <1>7. ld.at = p + 1 /\ (whole => l = Len(F))
    BY <1>1, <1>2 DEF Reads
  <1>8. PartOf(ld.maps[ld.current], C[ld.current])
    BY <1>1, PartsOfMap
  <1>9. CASE p + 1 >= l
    <2>1. ~whole
      BY <1>3, <1>5, <1>7, <1>9
    <2>2. AtShort(C, whole, ld)
      BY <1>1, <1>2, <1>7, <1>8, <1>9, <2>1 DEF AtShort
    <2> QED BY <2>2, ShortBlock
  <1>10. CASE p + 4 < l
    <2>1. p + 1 + 3 < l
      BY <1>3, <1>5, <1>10
    <2>2. Announcing(ld)
      BY <1>2, <1>7, <2>1 DEF Announcing
    <2> QED BY <2>2, AnnounceReads
  <1>11. CASE p + 1 < l /\ p + 4 >= l
    <2>1. ~whole
      BY <1>3, <1>5, <1>7, <1>11
    <2>2. PICK c : /\ c = Banked(ld) /\ Reads(C, F, whole, c)
                   /\ c.file = ld.file /\ c.format = ld.format /\ c.at = ld.at
                   /\ c.current = ld.current /\ c.found = ld.found /\ c.state = ld.state
                   /\ c.maps[ld.current].code = ld.maps[ld.current].code
      BY BankedReads
    <2>3. PICK f : f = ld.file
      OBVIOUS
    <2>4. \A i \in 1..l : f[i] = F[i]
      BY <1>2, <2>3 DEF Reads
    <2>5. f[p + 1] = META /\ f[p + 2] = 3 /\ (p + 3 <= l => f[p + 3] = 0)
      <3>1. p + 1 \in 1..l /\ p + 2 \in 1..l /\ (p + 3 <= l => p + 3 \in 1..l)
        BY <1>3, <1>5, <1>11
      <3> QED BY <1>6, <2>4, <3>1
    <2>6. p + 1 + 1 = p + 2 /\ p + 1 + 2 = p + 3 /\ p + 1 + 4 = p + 5 /\ p + 5 > l /\ p + 1 < l
      BY <1>3, <1>5, <1>11
    <2>7. LoadStep(ld) = Announce(c)
      <3>1. ld.at < Len(ld.file) /\ ld.file[ld.at + 1] > 1 /\ ld.file[ld.at + 1] # 0 /\ ld.file[ld.at] = META
        BY <1>2, <1>7, <2>3, <2>5, <2>6
      <3>2. LoadBlock(ld) = Announce(c)
        BY <1>3, <2>2, <3>1, BlockCases
      <3> QED BY <1>1, <3>2 DEF LoadStep
    <2>8. PICK s \in LoaderState \ {"SEARCH", "BLOCK"} : s = "UNEXPECTEDEOF"
      BY DEF LoaderState
    <2>9. Announce(c) = Stop(c, s)
      <3>1. c.at = p + 1 /\ c.file = f /\ Len(f) = l
        BY <1>2, <1>7, <2>2, <2>3
      <3>2. c.at + 1 = p + 2 /\ c.at + 2 = p + 3 /\ c.at + 4 = p + 5
        BY <2>6, <3>1
      <3>3. ~(c.file[c.at + 1] # 3 \/ (c.at + 2 <= Len(c.file) /\ c.file[c.at + 2] # 0))
        BY <2>5, <3>1, <3>2
      <3>4. c.at + 4 > Len(c.file)
        BY <2>6, <3>1, <3>2
      <3> QED BY <2>8, <3>3, <3>4 DEF Announce
    <2>10. PartOf(c.maps[c.current], C[c.current])
      BY <1>8, <2>2 DEF PartOf
    <2>11. s # "OK"
      BY <2>8
    <2> QED BY <2>1, <2>2, <2>7, <2>9, <2>10, <2>11, StopKeeps
  <1> QED BY <1>3, <1>5, <1>9, <1>10, <1>11

(* A block of which t bytes are taken.                                     *)
Taken(ld, t) ==
  LET s == ld.file[ld.at]
      bytes == [x \in s..(s + t - 1) |-> ld.file[ld.at + 2 + x - s]]
  IN [ld EXCEPT !.at = @ + 2 + t, !.maps[ld.current].code = Over(bytes, @)]

Fits(ld, k) ==
  /\ ld.at + 1 + k <= Len(ld.file)
  /\ ld.file[ld.at] + k - 1 \notin DOMAIN ld.maps[ld.current].code

TakesOf(ld, l, t) ==
  /\ l = ld.file[ld.at + 1] /\ t \in Nat /\ l \in Nat /\ t <= l
  /\ \A k \in 1..l : Fits(ld, k) <=> k <= t

(* The first that does not fit.                                            *)
FirstStuck(S) == CHOOSE k \in S : \A j \in S : k <= j
Took(l, S) == IF S = {} THEN l ELSE FirstStuck(S) - 1

LEMMA DataTakes ==
  ASSUME NEW ld, NEW l, NEW t, TakesOf(ld, l, t)
  PROVE  /\ t = l => Data(ld) = Taken(ld, t)
         /\ t # l =>
              Data(ld) = Stop(Taken(ld, t), IF AtEnd(Taken(ld, t)) THEN "UNEXPECTEDEOF" ELSE "LOADOVERLAP")
  <1>1. l = ld.file[ld.at + 1] /\ t \in Nat /\ l \in Nat /\ t <= l /\ \A k \in 1..l : Fits(ld, k) <=> k <= t
    BY DEF TakesOf
  <1>2. PICK stuck : stuck = {k \in 1..ld.file[ld.at + 1] : ~Fits(ld, k)}
    OBVIOUS
  <1>3. stuck = {k \in 1..l : ~Fits(ld, k)}
    BY <1>1, <1>2
  <1>4. Took(l, stuck) = t
    <2>1. CASE t = l
      <3>1. stuck = {}
        BY <1>1, <1>3, <2>1
      <3> QED BY <2>1, <3>1 DEF Took
    <2>2. CASE t # l
      <3>1. t + 1 \in stuck /\ \A j \in stuck : j \in Nat /\ t + 1 <= j
        BY <1>1, <1>3, <2>2
      <3>2. PICK m : m = FirstStuck(stuck)
        OBVIOUS
      <3>3. m \in stuck /\ \A j \in stuck : m <= j
        BY <3>1, <3>2 DEF FirstStuck
      <3>4. m = t + 1
        BY <1>1, <3>1, <3>3
      <3>5. Took(l, stuck) = m - 1
        BY <3>1, <3>2 DEF Took
      <3> QED BY <1>1, <3>4, <3>5
    <2> QED BY <2>1, <2>2
  <1> DEFINE S == {k \in 1..ld.file[ld.at + 1] :
                     ~(/\ ld.at + 1 + k <= Len(ld.file)
                       /\ ld.file[ld.at] + k - 1 \notin DOMAIN ld.maps[ld.current].code)}
             T == Took(ld.file[ld.at + 1], S)
  <1>5. stuck = S
    BY <1>2, Zenon DEF Fits
  <1>6. Data(ld) = IF T = ld.file[ld.at + 1] THEN Taken(ld, T)
                   ELSE Stop(Taken(ld, T), IF AtEnd(Taken(ld, T)) THEN "UNEXPECTEDEOF" ELSE "LOADOVERLAP")
    BY Zenon DEF Data, Taken, Took, FirstStuck
  <1>7. T = t
    <2> HIDE DEF S
    <2>1. T = Took(l, stuck)
      BY <1>1, <1>5
    <2> QED BY <1>4, <2>1
  <1> HIDE DEF T
  <1> QED BY <1>1, <1>6, <1>7

Leaves(ld, t, code) ==
  LET s == ld.file[ld.at]
      bytes == [x \in s..(s + t - 1) |-> ld.file[ld.at + 2 + x - s]]
  IN code \in Code /\ code = Over(bytes, ld.maps[ld.current].code)

LEMMA TakenReads ==
  ASSUME NEW C, NEW F, NEW whole \in BOOLEAN, NEW ld, NEW t \in Nat, NEW code,
         Reads(C, F, whole, ld), Leaves(ld, t, code)
  PROVE  \E d : /\ d = Taken(ld, t) /\ Reads(C, F, whole, d)
                /\ d.file = ld.file /\ d.format = ld.format /\ d.at = ld.at + 2 + t
                /\ d.current = ld.current /\ d.found = ld.found /\ d.state = ld.state
                /\ d.maps[ld.current] \in Map /\ d.maps[ld.current].code = code
  <1>1. PICK d, k, n : d = Taken(ld, t) /\ k = ld.current /\ n = ld.at + 2 + t
    OBVIOUS
  <1>2. ld \in LoaderType /\ k \in 1..Len(ld.maps) /\ ld.maps \in Seq(Map) /\ ld.at \in Nat /\ k = Len(ld.maps)
    BY <1>1 DEF Reads, LoaderType
  <1>3. ld.maps[k] \in Map
    BY <1>2
  <1>4. PICK m : m = [ld.maps[k] EXCEPT !.code = code]
    OBVIOUS
  <1>5. m \in Map /\ m.code = code
    BY <1>3, <1>4 DEF Map, Leaves
  <1>6. PICK e : e = [ld EXCEPT !.at = n]
    OBVIOUS
  <1>7. n \in Nat /\ n > ld.at
    BY <1>1, <1>2
  <1>8. /\ e \in LoaderType /\ e.file = ld.file /\ e.format = ld.format /\ e.at = n
        /\ e.current = ld.current /\ e.found = ld.found /\ e.rombank = ld.rombank
        /\ e.rambank = ld.rambank /\ e.state = ld.state /\ e.maps = ld.maps
    BY <1>2, <1>6, <1>7 DEF LoaderType
  <1>9. d = [e EXCEPT !.maps = [@ EXCEPT ![k] = m]]
    <2>1. Taken(ld, t) = [ld EXCEPT !.at = @ + 2 + t, !.maps[ld.current].code = code]
      BY Zenon DEF Taken, Leaves
    <2> QED BY <1>1, <1>2, <1>4, <1>6, <2>1 DEF LoaderType
  <1>10. /\ [ld.maps EXCEPT ![k] = m] \in Seq(Map) /\ Len([ld.maps EXCEPT ![k] = m]) = Len(ld.maps)
        /\ [ld.maps EXCEPT ![k] = m][k] = m
        /\ \A i \in 1..Len(ld.maps) : i # k => [ld.maps EXCEPT ![k] = m][i] = ld.maps[i]
    BY <1>2, <1>5, ExceptSeq
  <1>11. /\ d \in LoaderType /\ d.file = ld.file /\ d.format = ld.format /\ d.at = n
        /\ d.current = ld.current /\ d.found = ld.found /\ d.rombank = ld.rombank
        /\ d.rambank = ld.rambank /\ d.state = ld.state /\ d.maps = [ld.maps EXCEPT ![k] = m]
    BY <1>8, <1>9, <1>10 DEF LoaderType
  <1>12. \A i \in 1..k - 1 : d.maps[i] = ld.maps[i]
    <2>1. Len(ld.maps) \in Nat
      BY <1>2, LenProperties
    <2>2. \A i \in 1..k - 1 : i \in 1..Len(ld.maps) /\ i # k
      BY <1>2, <2>1
    <2> QED BY <1>10, <1>11, <2>2
  <1>13. Reads(C, F, whole, d)
    BY <1>1, <1>2, <1>7, <1>10, <1>11, <1>12 DEF Reads
  <1>14. d.maps[k] = m
    BY <1>10, <1>11
  <1> QED BY <1>1, <1>5, <1>11, <1>13, <1>14

(* A run in the file, from p on.                                           *)
RunLaid(code, F, p, s, e, next) ==
  /\ p \in Nat /\ s \in Nat /\ e \in Nat /\ s < e /\ s < META /\ Len(F) \in Nat
  /\ next = p + 2 + (e - s) /\ next + 1 <= Len(F)
  /\ F[p] = s /\ F[p + 1] = e - s
  /\ \A i \in 1..(e - s) : F[p + 1 + i] = code[s + i - 1]
  /\ \A x \in s..(e - 1) : x \in DOMAIN code

LEMMA RunsLaid ==
  ASSUME NEW C, NEW F, NEW a, NEW r, NEW b, NEW k \in 1..Len(C), NEW j \in 1..r[k].n,
         IsMaps(C), Laid(C, F, a, r, b)
  PROVE  RunLaid(C[k].code, F, b[k][j], r[k].start[j], r[k].end[j], b[k][j + 1])
  <1>1. RunsOf(C[k].code, r[k]) /\ SavedAt(C[k].code, r[k], F, SignedAt(a, k), b[k]) /\ F \in Seq(Int)
    BY DEF Laid
  <1>2. /\ r[k].n \in Nat /\ r[k].start[j] \in Nat /\ r[k].end[j] \in Nat /\ r[k].start[j] < META
        /\ r[k].start[j] < r[k].end[j] /\ r[k].end[j] <= META
        /\ \A x \in r[k].start[j]..r[k].end[j] - 1 : x \in DOMAIN C[k].code
    BY <1>1, RunsOfNumbers
  <1>3. PICK q, n, c, s, e : q = b[k] /\ n = r[k].n /\ c = C[k].code /\ s = r[k].start[j] /\ e = r[k].end[j]
    OBVIOUS
  <1>4. /\ q \in [1..n + 1 -> Nat] /\ q[n + 1] + 1 <= Len(F)
        /\ q[j + 1] = q[j] + 2 + (e - s) /\ q[j + 1] <= q[n + 1]
        /\ F[q[j]] = s /\ F[q[j] + 1] = e - s
        /\ \A i \in 1..e - s : F[q[j] + 1 + i] = c[s + i - 1]
    BY <1>1, <1>3 DEF SavedAt
  <1>5. j \in 1..n + 1 /\ j + 1 \in 1..n + 1 /\ n + 1 \in 1..n + 1
    BY <1>2, <1>3
  <1>6. q[j] \in Nat /\ q[j + 1] \in Nat /\ q[n + 1] \in Nat /\ Len(F) \in Nat
    BY <1>1, <1>4, <1>5, LenProperties
  <1>7. q[j + 1] + 1 <= Len(F)
    BY <1>4, <1>6
  <1> QED BY <1>2, <1>3, <1>4, <1>6, <1>7 DEF RunLaid

(* The bytes of a run that the file holds.                                 *)
RunHeld(F, p, s, e, f, t) ==
  /\ t \in 0..(e - s) /\ p + 1 + t <= Len(f) /\ Len(f) \in Nat
  /\ \A i \in 1..Len(f) : f[i] = F[i]

LEMMA RunTaken ==
  ASSUME NEW code, NEW F, NEW p, NEW s, NEW e, NEW next, NEW f, NEW t,
         RunLaid(code, F, p, s, e, next), RunHeld(F, p, s, e, f, t)
  PROVE  \A x \in s..(s + t - 1) : f[p + 2 + x - s] = code[x] /\ x \in DOMAIN code
  <1>1. /\ p \in Nat /\ s \in Nat /\ e \in Nat /\ s < e /\ t \in Nat /\ t <= e - s
        /\ \A i \in 1..(e - s) : F[p + 1 + i] = code[s + i - 1]
        /\ \A x \in s..(e - 1) : x \in DOMAIN code
        /\ p + 1 + t <= Len(f) /\ Len(f) \in Nat /\ \A i \in 1..Len(f) : f[i] = F[i]
    BY DEF RunLaid, RunHeld
  <1>2. ASSUME NEW x \in s..(s + t - 1) PROVE f[p + 2 + x - s] = code[x] /\ x \in DOMAIN code
    <2>1. PICK i : i = x - s + 1
      OBVIOUS
    <2>2. i \in 1..(e - s) /\ p + 2 + x - s = p + 1 + i /\ s + i - 1 = x /\ x \in s..(e - 1)
      BY <1>1, <1>2, <2>1
    <2>3. p + 1 + i \in 1..Len(f)
      BY <1>1, <1>2, <2>1
    <2> QED BY <1>1, <2>2, <2>3
  <1> QED BY <1>2

CopyOf(bytes, code, s, t) ==
  /\ bytes = [x \in s..(s + t - 1) |-> code[x]]
  /\ \A x \in s..(s + t - 1) : x \in DOMAIN code

LEMMA OverPart ==
  ASSUME NEW code, IsCode(code), NEW s \in Nat, NEW t \in Nat, NEW bytes, CopyOf(bytes, code, s, t)
  PROVE  \E o \in Code : /\ o = Over(bytes, Upto(code, s))
                         /\ \A x \in DOMAIN o : x \in DOMAIN code /\ o[x] = code[x]
  <1>1. PICK o, u : o = Over(bytes, u) /\ u = Upto(code, s)
    OBVIOUS
  <1>2. /\ DOMAIN o = DOMAIN bytes \cup DOMAIN u
        /\ \A x \in DOMAIN o : o[x] = IF x \in DOMAIN bytes THEN bytes[x] ELSE u[x]
        /\ o = [x \in DOMAIN o |-> o[x]]
    BY <1>1 DEF Over
  <1>3. \A x \in DOMAIN bytes : x \in DOMAIN code /\ bytes[x] = code[x]
    BY DEF CopyOf
  <1>4. \A x \in DOMAIN u : x \in DOMAIN code /\ u[x] = code[x]
    BY <1>1 DEF Upto
  <1>5. \A x \in DOMAIN o : x \in DOMAIN code /\ o[x] = code[x]
    BY <1>2, <1>3, <1>4
  <1>6. IsCode(o)
    <2>1. DOMAIN code \subseteq 0..(META - 1) /\ \A x \in DOMAIN code : code[x] \in Byte
      BY DEF IsCode
    <2> QED BY <1>2, <1>5, <2>1 DEF IsCode
  <1> QED BY <1>1, <1>5, <1>6, CodeIs

AtData(C, r, b, ld, j) ==
  /\ ld.state = "BLOCK" /\ ld.found /\ j \in 1..r[ld.current].n /\ ld.at = b[ld.current][j]
  /\ ld.maps[ld.current].code = Upto(C[ld.current].code, r[ld.current].start[j])

(* What a block of a run comes to when t of its bytes are there.           *)
AfterData(C, F, r, whole, ld, j, c, t, d, s, e, bytes) ==
  /\ Reads(C, F, whole, c) /\ Reads(C, F, whole, d)
  /\ s = r[ld.current].start[j] /\ e = r[ld.current].end[j] /\ s \in Nat /\ e \in Nat
  /\ t \in 0..(e - s) /\ d = Taken(c, t) /\ TakesOf(c, e - s, t) /\ LoadStep(ld) = Data(c)
  /\ d.file = ld.file /\ d.format = ld.format /\ d.at = ld.at + 2 + t
  /\ d.current = ld.current /\ d.found /\ d.state = "BLOCK"
  /\ bytes = [x \in s..(s + t - 1) |-> C[ld.current].code[x]]
  /\ \A x \in s..(s + t - 1) : x \in DOMAIN C[ld.current].code
  /\ d.maps[ld.current].code = Over(bytes, Upto(C[ld.current].code, s))
  /\ t # e - s => ~whole /\ d.at > Len(d.file)

LEMMA DataReads ==
  ASSUME NEW C, NEW F, NEW a, NEW r, NEW b, NEW whole \in BOOLEAN, NEW ld, NEW j,
         IsMaps(C), Laid(C, F, a, r, b), Reads(C, F, whole, ld), AtData(C, r, b, ld, j)
  PROVE  \/ AtShort(C, whole, ld)
         \/ \E c, t, d, s, e, bytes : AfterData(C, F, r, whole, ld, j, c, t, d, s, e, bytes)
  <1>0. PICK c : /\ c = Banked(ld) /\ Reads(C, F, whole, c)
                 /\ c.file = ld.file /\ c.format = ld.format /\ c.at = ld.at
                 /\ c.current = ld.current /\ c.found = ld.found /\ c.state = ld.state
                 /\ c.maps[ld.current].code = ld.maps[ld.current].code
    BY BankedReads
  <1>1. /\ ld.state = "BLOCK" /\ ld.found /\ j \in 1..r[ld.current].n /\ ld.at = b[ld.current][j]
        /\ ld.maps[ld.current].code = Upto(C[ld.current].code, r[ld.current].start[j])
    BY DEF AtData
  <1>2. PICK k, s, e, p, f, n, code :
          /\ k = ld.current /\ s = r[k].start[j] /\ e = r[k].end[j] /\ p = ld.at /\ f = ld.file
          /\ n = Len(f) /\ code = C[k].code
    OBVIOUS
  <1>3. /\ ld \in LoaderType /\ n \in Nat /\ k \in 1..Len(C) /\ n <= Len(F) /\ (whole => n = Len(F))
        /\ \A i \in 1..n : f[i] = F[i]
    BY <1>2, LenProperties DEF Reads, LoaderType
  <1>4. IsCode(code)
    BY <1>2, <1>3 DEF IsMaps
  <1>5. RunLaid(code, F, p, s, e, b[k][j + 1])
    BY <1>1, <1>2, <1>3, RunsLaid
  <1>6. /\ p \in Nat /\ s \in Nat /\ e \in Nat /\ s < e /\ s < META /\ Len(F) \in Nat
        /\ p + 2 + (e - s) + 1 <= Len(F) /\ F[p] = s /\ F[p + 1] = e - s
    BY <1>5 DEF RunLaid
  <1>7. p >= 1
    BY <1>1, <1>2, <1>6 DEF Reads
  <1>8. CASE p >= n
    <2>1. ~whole
      BY <1>3, <1>6, <1>8
    <2>2. PartOf(ld.maps[ld.current], C[ld.current])
      BY <1>1, PartsOfMap
    <2> QED BY <1>1, <1>2, <1>8, <2>1, <2>2 DEF AtShort
  <1>9. CASE p < n
    <2>2. c.file = f /\ c.at = p /\ c.current = k /\ c.maps[k].code = Upto(code, s)
      BY <1>1, <1>2, <1>0
    <2>3. f[p] = s /\ f[p + 1] = e - s
      <3>1. p \in 1..n /\ p + 1 \in 1..n
        BY <1>3, <1>6, <1>7, <1>9
      <3> QED BY <1>3, <1>6, <3>1
    <2>4. LoadStep(ld) = Data(c)
      <3>1. s # META /\ e - s # 0
        BY <1>6, MetaType
      <3>2. ld.at < Len(ld.file) /\ ld.file[ld.at + 1] # 0 /\ ld.file[ld.at] # META
        BY <1>2, <1>9, <2>3, <3>1
      <3>3. LoadBlock(ld) = Data(c)
        BY <1>3, <1>0, <3>2, BlockCases
      <3> QED BY <1>1, <3>3 DEF LoadStep
    <2>5. PICK t : t = IF p + 1 + (e - s) <= n THEN e - s ELSE n - p - 1
      OBVIOUS
    <2>6. /\ t \in 0..(e - s) /\ t \in Nat /\ p + 1 + t <= n /\ (t # e - s => p + 1 + t = n)
          /\ \A i \in 1..(e - s) : p + 1 + i <= n <=> i <= t
      BY <1>3, <1>6, <1>9, <2>5
    <2>7. TakesOf(c, e - s, t)
      <3>1. ASSUME NEW i \in 1..(e - s) PROVE Fits(c, i) <=> i <= t
        <4>1. s + i - 1 \notin DOMAIN c.maps[c.current].code
          <5>1. ~(s + i - 1 < s)
            BY <1>6
          <5>2. s + i - 1 \notin DOMAIN Upto(code, s)
            BY <5>1 DEF Upto
          <5> QED BY <2>2, <5>2
        <4>2. Fits(c, i) <=> c.at + 1 + i <= Len(c.file) /\ c.file[c.at] + i - 1 \notin DOMAIN c.maps[c.current].code
          BY DEF Fits
        <4>3. Fits(c, i) <=> p + 1 + i <= n
          BY <1>2, <2>2, <2>3, <4>1, <4>2
        <4> QED BY <2>6, <4>3
      <3>2. e - s = c.file[c.at + 1] /\ e - s \in Nat /\ t <= e - s
        BY <1>6, <2>2, <2>3, <2>6
      <3> QED BY <2>6, <3>1, <3>2 DEF TakesOf
    <2>8. RunHeld(F, p, s, e, f, t)
      BY <1>2, <1>3, <2>6 DEF RunHeld
    <2>9. \A x \in s..(s + t - 1) : f[p + 2 + x - s] = code[x] /\ x \in DOMAIN code
      BY <1>5, <2>8, RunTaken
    <2>10. PICK bytes : bytes = [x \in s..(s + t - 1) |-> code[x]]
      OBVIOUS
    <2>11. PICK o \in Code : o = Over(bytes, Upto(code, s))
      <3>1. CopyOf(bytes, code, s, t)
        BY <2>9, <2>10 DEF CopyOf
      <3> QED BY <1>4, <1>6, <2>6, <3>1, OverPart
    <2>12. Leaves(c, t, o)
      <3>1. s = c.file[c.at] /\ f = c.file /\ p = c.at /\ c.maps[c.current].code = Upto(code, s)
        BY <2>2, <2>3
      <3>2. bytes = [x \in s..(s + t - 1) |-> f[p + 2 + x - s]]
        BY <2>9, <2>10
      <3> QED BY <2>11, <3>1, <3>2 DEF Leaves
    <2>13. PICK d : /\ d = Taken(c, t) /\ Reads(C, F, whole, d)
                    /\ d.file = c.file /\ d.format = c.format /\ d.at = c.at + 2 + t
                    /\ d.current = c.current /\ d.found = c.found /\ d.state = c.state
                    /\ d.maps[c.current] \in Map /\ d.maps[c.current].code = o
      BY <1>0, <2>6, <2>12, TakenReads
    <2>14. t # e - s => ~whole /\ d.at > Len(d.file)
      <3>1. d.at = p + 2 + t /\ d.file = f
        BY <2>2, <2>13
      <3>2. t # e - s => p + 1 + t = n /\ t < e - s
        BY <1>6, <2>6
      <3>3. t # e - s => ~whole
        BY <1>3, <1>6, <2>6, <3>2
      <3>4. t # e - s => p + 2 + t > n
        BY <1>3, <1>6, <2>6, <3>2
      <3> QED BY <1>2, <3>1, <3>3, <3>4
    <2>15. /\ d.file = ld.file /\ d.format = ld.format /\ d.at = ld.at + 2 + t
           /\ d.current = ld.current /\ d.found /\ d.state = "BLOCK"
           /\ d.maps[ld.current].code = Over(bytes, Upto(C[ld.current].code, s))
      BY <1>0, <1>1, <1>2, <2>11, <2>13
    <2>16. /\ bytes = [x \in s..(s + t - 1) |-> C[ld.current].code[x]]
           /\ \A x \in s..(s + t - 1) : x \in DOMAIN C[ld.current].code
      BY <1>2, <2>9, <2>10
    <2>17. s = r[ld.current].start[j] /\ e = r[ld.current].end[j] /\ s \in Nat /\ e \in Nat
      BY SMTT(30), <1>2, <1>6
    <2>18. AfterData(C, F, r, whole, ld, j, c, t, d, s, e, bytes)
      BY <1>0, <2>4, <2>6, <2>7, <2>13, <2>14, <2>15, <2>16, <2>17 DEF AfterData
    <2> QED BY <2>18
  <1> QED BY <1>3, <1>6, <1>8, <1>9

LEMMA FromData ==
  ASSUME NEW C, NEW F, NEW a, NEW r, NEW b, NEW whole \in BOOLEAN, NEW ld, NEW j,
         IsMaps(C), Laid(C, F, a, r, b), Reads(C, F, whole, ld), AtData(C, r, b, ld, j)
  PROVE  LoaderInv(C, F, a, r, b, whole, LoadStep(ld))
  <1>1. CASE AtShort(C, whole, ld)
    BY <1>1, ShortBlock
  <1>2. ASSUME NEW c, NEW t, NEW d, NEW s, NEW e, NEW bytes,
               AfterData(C, F, r, whole, ld, j, c, t, d, s, e, bytes)
        PROVE  LoaderInv(C, F, a, r, b, whole, LoadStep(ld))
    <2>1. /\ Reads(C, F, whole, c) /\ Reads(C, F, whole, d)
          /\ s = r[ld.current].start[j] /\ e = r[ld.current].end[j] /\ s \in Nat /\ e \in Nat
          /\ t \in 0..(e - s) /\ d = Taken(c, t) /\ TakesOf(c, e - s, t) /\ LoadStep(ld) = Data(c)
          /\ d.file = ld.file /\ d.format = ld.format /\ d.at = ld.at + 2 + t
          /\ d.current = ld.current /\ d.found /\ d.state = "BLOCK"
          /\ bytes = [x \in s..(s + t - 1) |-> C[ld.current].code[x]]
          /\ \A x \in s..(s + t - 1) : x \in DOMAIN C[ld.current].code
          /\ d.maps[ld.current].code = Over(bytes, Upto(C[ld.current].code, s))
          /\ (t # e - s => ~whole /\ d.at > Len(d.file))
      BY <1>2 DEF AfterData
    <2>2. PICK k, code : k = ld.current /\ code = C[k].code
      OBVIOUS
    <2>3. k \in 1..Len(C) /\ IsCode(code)
      BY <2>2 DEF Reads, IsMaps
    <2>4. j \in 1..r[k].n /\ ld.at = b[k][j]
      BY <2>2 DEF AtData
    <2>5. RunsOf(code, r[k]) /\ SavedAt(code, r[k], F, SignedAt(a, k), b[k])
      BY <2>2, <2>3 DEF Laid
    <2>6. t \in Nat /\ s \in Nat /\ e \in Nat /\ s = r[k].start[j] /\ e = r[k].end[j]
      BY <2>1, <2>2
    <2>9. /\ bytes = [x \in s..(s + t - 1) |-> code[x]]
          /\ \A x \in s..(s + t - 1) : x \in DOMAIN code
      BY <2>1, <2>2
    <2>10. /\ LoadStep(ld) = Data(c) /\ d = Taken(c, t) /\ TakesOf(c, e - s, t)
           /\ d.at = ld.at + 2 + t
      BY <1>2 DEF AfterData
    <2>11. d.maps[d.current].code = Over(bytes, Upto(code, s)) /\ C[d.current].code = code
      <3>1. d.current = ld.current /\ d.maps[ld.current].code = Over(bytes, Upto(C[ld.current].code, s))
        BY <1>2 DEF AfterData
      <3> QED BY <2>2, <3>1
    <2>7. CASE t = e - s
      <3>1. LoadStep(ld) = d
        BY <2>7, <2>10, DataTakes
      <3>2. b[k][j + 1] = b[k][j] + 2 + (e - s)
        BY <2>4, <2>5, <2>6 DEF SavedAt
      <3>3. d.at = b[k][j + 1]
        BY <2>4, <2>7, <2>10, <3>2
      <3>4. bytes = [x \in s..(e - 1) |-> code[x]]
        <4>1. s + t - 1 = e - 1
          BY <2>6, <2>7
        <4> QED BY <2>9, <4>1
      <3>5. Upto(code, s) = Upto(code, Limit(r[k], j))
        <4>1. r[k].n \in Nat
          BY <2>5, RunsOfNumbers
        <4> QED BY <2>1, <2>2, <2>4, <4>1 DEF Limit
      <3>6. Over(bytes, Upto(code, Limit(r[k], j))) = Upto(code, Limit(r[k], j + 1))
        <4>1. bytes = [x \in r[k].start[j]..r[k].end[j] - 1 |-> code[x]]
          BY <2>6, <3>4
        <4> QED BY <2>3, <2>4, <2>5, <4>1, UptoNext
      <3>7. d.maps[k].code = Upto(code, Limit(r[k], j + 1))
        BY <2>1, <2>2, <3>5, <3>6
      <3>8. j + 1 \in 1..r[k].n + 1
        <4>1. r[k].n \in Nat
          BY <2>5, RunsOfNumbers
        <4> QED BY SMTT(30), <2>4, <4>1
      <3>9. AtRun(C, r, b, d)
        BY <2>1, <2>2, <3>3, <3>7, <3>8 DEF AtRun
      <3> QED BY <2>1, <3>1, <3>9 DEF LoaderInv
    <2>8. CASE t # e - s
      <3>1. PICK z \in LoaderState \ {"SEARCH", "BLOCK"} : z = "UNEXPECTEDEOF"
        BY DEF LoaderState
      <3>2. LoadStep(ld) = Stop(d, z)
        <4>1. AtEnd(d)
          BY <2>1, <2>8 DEF AtEnd
        <4>2. Data(c) = Stop(Taken(c, t), IF AtEnd(Taken(c, t)) THEN "UNEXPECTEDEOF" ELSE "LOADOVERLAP")
          BY <2>1, <2>8, DataTakes
        <4> QED BY <2>1, <3>1, <4>1, <4>2
      <3>3. PartOf(d.maps[d.current], C[d.current])
        <4>1. \E o \in Code : /\ o = Over(bytes, Upto(code, s))
                              /\ \A x \in DOMAIN o : x \in DOMAIN code /\ o[x] = code[x]
          <5>1. CopyOf(bytes, code, s, t)
            BY <2>9 DEF CopyOf
          <5> QED BY <2>3, <2>6, <5>1, OverPart
        <4>2. PICK o \in Code : /\ o = Over(bytes, Upto(code, s))
                                /\ \A x \in DOMAIN o : x \in DOMAIN code /\ o[x] = code[x]
          BY <4>1
        <4>3. d.maps[d.current].code = o /\ C[d.current].code = code
          BY <2>11, <4>2
        <4> QED BY <4>2, <4>3 DEF PartOf
      <3>4. z # "OK"
        BY <3>1
      <3> QED BY <2>1, <2>8, <3>2, <3>3, <3>4, StopKeeps
    <2> QED BY <2>7, <2>8
  <1> QED BY <1>1, <1>2, DataReads

AtLast(C, r, b, ld) ==
  /\ ld.state = "BLOCK" /\ ld.found /\ ld.at = b[ld.current][r[ld.current].n + 1]
  /\ ld.maps[ld.current].code = C[ld.current].code

LEMMA FromLast ==
  ASSUME NEW C, NEW F, NEW a, NEW r, NEW b, NEW whole \in BOOLEAN, NEW ld,
         IsMaps(C), Laid(C, F, a, r, b), Reads(C, F, whole, ld), AtLast(C, r, b, ld)
  PROVE  LoaderInv(C, F, a, r, b, whole, LoadStep(ld))
  <1>1. /\ ld.state = "BLOCK" /\ ld.found /\ ld.at = b[ld.current][r[ld.current].n + 1]
        /\ ld.maps[ld.current].code = C[ld.current].code
    BY DEF AtLast
  <1>2. PICK k, p, l, n : k = ld.current /\ p = ld.at /\ l = Len(ld.file) /\ n = r[k].n
    OBVIOUS
  <1>3. ld \in LoaderType /\ l \in Nat /\ k \in 1..Len(C) /\ (whole => l = Len(F)) /\ p \in Nat
    BY <1>2, LenProperties DEF Reads, LoaderType
  <1>4. SavedAt(C[k].code, r[k], F, SignedAt(a, k), b[k]) /\ b[k][n + 1] + 2 = a[k + 1] /\ F \in Seq(Int)
    BY <1>2, <1>3 DEF Laid
  <1>5. F[p + 1] = 0 /\ p + 1 <= Len(F) /\ p + 2 = a[k + 1] /\ Len(F) \in Nat
    BY <1>1, <1>2, <1>4, LenProperties DEF SavedAt
  <1>6. PartOf(ld.maps[ld.current], C[ld.current])
    BY <1>1, PartsOfMap
  <1>7. CASE p >= l
    <2>1. ~whole
      BY <1>3, <1>5, <1>7
    <2>2. AtShort(C, whole, ld)
      BY <1>1, <1>2, <1>6, <1>7, <2>1 DEF AtShort
    <2> QED BY <2>2, ShortBlock
  <1>8. CASE p < l
    <2>1. AtEmpty(F, ld)
      BY <1>1, <1>2, <1>5, <1>8 DEF AtEmpty
    <2>2. PICK d : /\ d = LoadStep(ld) /\ Reads(C, F, whole, d)
                   /\ d.format = ld.format /\ d.at = ld.at + 2 /\ d.found /\ d.state = "SEARCH"
                   /\ d.current = ld.current /\ d.maps[ld.current] \in Map
                   /\ d.maps[ld.current].code = ld.maps[ld.current].code
                   /\ d.maps[ld.current].rombank = C[ld.current].rombank
                   /\ d.maps[ld.current].rambank = C[ld.current].rambank
      BY <2>1, EmptyReads
    <2>3. d.maps[k] = C[k]
      <3>1. C[k] = [code |-> C[k].code, rombank |-> C[k].rombank, rambank |-> C[k].rambank]
        BY <1>3 DEF IsMaps
      <3>2. d.maps[k] = [code |-> d.maps[k].code, rombank |-> d.maps[k].rombank, rambank |-> d.maps[k].rambank]
        BY <1>2, <2>2, MapMade
      <3> QED BY <1>1, <1>2, <2>2, <3>1, <3>2
    <2>4. AtPart(C, a, d)
      BY <1>2, <1>5, <2>2, <2>3 DEF AtPart
    <2> QED BY <2>2, <2>4 DEF LoaderInv
  <1> QED BY <1>3, <1>7, <1>8

(* A step of the loader.                                                   *)
LEMMA LoaderStep ==
  ASSUME NEW C, NEW F, NEW a, NEW r, NEW b, NEW whole \in BOOLEAN, NEW ld,
         IsMaps(C), Laid(C, F, a, r, b), LoaderInv(C, F, a, r, b, whole, ld), Loading(ld)
  PROVE  LoaderInv(C, F, a, r, b, whole, LoadStep(ld))
  <1>1. Reads(C, F, whole, ld)
    BY DEF LoaderInv
  <1>2. CASE AtFile(ld)
    BY <1>1, <1>2, FromFile
  <1>3. CASE AtPart(C, a, ld)
    BY <1>1, <1>3, FromPart
  <1>4. CASE AtBanks(C, a, ld)
    BY <1>1, <1>4, FromBanks
  <1>5. CASE AtNull(a, ld)
    BY <1>1, <1>5, FromNull
  <1>6. CASE AtOwn(a, ld)
    BY <1>1, <1>6, FromOwn
  <1>7. CASE AtRun(C, r, b, ld)
    <2>1. PICK k : k = ld.current
      OBVIOUS
    <2>2. PICK j \in 1..r[k].n + 1 :
            /\ ld.state = "BLOCK" /\ ld.found /\ ld.at = b[k][j]
            /\ ld.maps[k].code = Upto(C[k].code, Limit(r[k], j))
      BY <1>7, <2>1 DEF AtRun
    <2>3. k \in 1..Len(C) /\ IsCode(C[k].code)
      BY <1>1, <2>1 DEF Reads, IsMaps
    <2>4. RunsOf(C[k].code, r[k])
      BY <2>3 DEF Laid
    <2>5. r[k].n \in Nat
      BY <2>4, RunsOfNumbers
    <2>6. CASE j = r[k].n + 1
      <3>1. Upto(C[k].code, Limit(r[k], r[k].n + 1)) = C[k].code
        BY <2>3, <2>4, UptoLast
      <3>2. AtLast(C, r, b, ld)
        BY <2>1, <2>2, <2>6, <3>1 DEF AtLast
      <3> QED BY <1>1, <3>2, FromLast
    <2>7. CASE j # r[k].n + 1
      <3>1. j \in 1..r[k].n /\ Limit(r[k], j) = r[k].start[j]
        BY <2>5, <2>7 DEF Limit
      <3>2. AtData(C, r, b, ld, j)
        BY <2>1, <2>2, <3>1 DEF AtData
      <3> QED BY <1>1, <3>2, FromData
    <2> QED BY <2>6, <2>7
  <1>8. CASE AtCut(C, whole, ld)
    BY <1>1, <1>8, FromCut
  <1>9. ~Stopped(C, whole, ld)
    BY DEF Stopped, Loading
  <1> QED BY <1>2, <1>3, <1>4, <1>5, <1>6, <1>7, <1>8, <1>9 DEF LoaderInv

LEMMA MapsOfSeq ==
  ASSUME NEW C \in Seq(Map), Len(C) # 0
  PROVE  IsMaps(C)
  <1>1. Len(C) \in Nat \ {0}
    BY LenProperties
  <1>2. ASSUME NEW k \in 1..Len(C)
        PROVE  /\ IsCode(C[k].code) /\ C[k].rombank \in Int /\ C[k].rambank \in Int
               /\ C[k] = [code |-> C[k].code, rombank |-> C[k].rombank, rambank |-> C[k].rambank]
    <2>1. C[k] \in Map
      BY <1>2
    <2>2. C[k].code \in Code /\ C[k].rombank \in Int /\ C[k].rambank \in Int
      BY <2>1 DEF Map
    <2> QED BY <2>1, <2>2, CodeIs, MapMade
  <1> QED BY <1>1, <1>2 DEF IsMaps

(* The loader on a file as it was saved.                                   *)
LEMMA LoaderOpens ==
  ASSUME NEW C, NEW F \in Seq(Int), NEW a, NEW r, NEW b, NEW format \in {"BINARY", "HEXA"},
         IsMaps(C), C[1].rombank = UNSET, C[1].rambank = UNSET
  PROVE  LoaderInv(C, F, a, r, b, TRUE, Open(F, format))
  <1>1. PICK d : d = Open(F, format)
    OBVIOUS
  <1>2. /\ d.file = F /\ d.format = format /\ d.at = 1 /\ d.maps = <<NewMap>> /\ d.current = 1
        /\ d.rombank = UNSET /\ d.rambank = UNSET /\ d.found = FALSE /\ d.state = "SEARCH"
    BY <1>1 DEF Open
  <1>3. <<NewMap>> \in Seq(Map) /\ Len(<<NewMap>>) = 1 /\ <<NewMap>>[1] = NewMap
    BY NewMapMade
  <1>4. d \in LoaderType
    <2>1. "SEARCH" \in LoaderState /\ UNSET \in Int /\ 1 \in Nat
      BY DEF LoaderState, UNSET
    <2> QED BY <1>1, <1>3, <2>1 DEF LoaderType, Open
  <1>5. 1 \in 1..Len(C)
    BY DEF IsMaps
  <1>6. Reads(C, F, TRUE, d)
    <2>1. \A i \in 1..d.current - 1 : d.maps[i] = C[i]
      BY <1>2
    <2>2. Len(F) \in Nat
      BY LenProperties
    <2> QED BY <1>2, <1>3, <1>4, <1>5, <2>1, <2>2 DEF Reads
  <1>7. AtFile(d)
    BY <1>2, <1>3 DEF AtFile
  <1> QED BY <1>1, <1>6, <1>7 DEF LoaderInv

(* The file cut short before it is read.                                   *)
LEMMA LoaderCut ==
  ASSUME NEW C, NEW F, NEW a, NEW r, NEW b, NEW whole \in BOOLEAN, NEW ld,
         LoaderInv(C, F, a, r, b, whole, ld), ld.at = 1, Loading(ld), NEW n \in 0..(Len(ld.file) - 1)
  PROVE  LoaderInv(C, F, a, r, b, FALSE, [ld EXCEPT !.file = SubSeq(@, 1, n)])
  <1>1. Reads(C, F, whole, ld) /\ ld \in LoaderType
    BY DEF LoaderInv, Reads
  <1>2. AtFile(ld)
    BY <1>1 DEF LoaderInv, Reads, AtPart, AtBanks, AtNull, AtOwn, AtRun, AtCut, Stopped, Loading
  <1>3. PICK f : f = SubSeq(ld.file, 1, n)
    OBVIOUS
  <1>4. PICK l : l = Len(ld.file)
    OBVIOUS
  <1>5. ld.file \in Seq(Int) /\ l \in Nat /\ n \in Nat /\ n <= l
    BY <1>1, <1>4, LenProperties DEF LoaderType
  <1>6. f \in Seq(Int) /\ Len(f) = n /\ \A i \in 1..n : f[i] = ld.file[i]
    BY <1>3, <1>4, <1>5, SubSeqProperties
  <1>7. PICK d : d = [ld EXCEPT !.file = f]
    OBVIOUS
  <1>8. /\ d \in LoaderType /\ d.file = f /\ d.format = ld.format /\ d.at = ld.at /\ d.maps = ld.maps
        /\ d.current = ld.current /\ d.found = ld.found /\ d.rombank = ld.rombank
        /\ d.rambank = ld.rambank /\ d.state = ld.state
    BY <1>1, <1>6, <1>7 DEF LoaderType
  <1>9. Len(f) <= Len(F) /\ \A i \in 1..Len(f) : f[i] = F[i]
    <2>1. l <= Len(F) /\ \A i \in 1..l : ld.file[i] = F[i]
      BY <1>1, <1>4 DEF Reads
    <2>2. n <= Len(F) /\ \A i \in 1..n : i \in 1..l
      BY <1>4, <1>5, <2>1
    <2> QED BY <1>6, <2>1, <2>2
  <1>10. Reads(C, F, FALSE, d)
    BY <1>1, <1>8, <1>9 DEF Reads
  <1>11. AtFile(d)
    BY <1>2, <1>8 DEF AtFile
  <1> QED BY <1>3, <1>7, <1>10, <1>11 DEF LoaderInv

(* What is loaded.                                                         *)
LEMMA LoaderHolds ==
  ASSUME NEW C \in Seq(Map), NEW F, NEW a, NEW r, NEW b, NEW whole \in BOOLEAN, NEW ld,
         IsMaps(C), Laid(C, F, a, r, b), LoaderInv(C, F, a, r, b, whole, ld)
  PROVE  /\ Len(ld.maps) <= Len(C)
         /\ \A m \in DOMAIN ld.maps : PartOf(ld.maps[m], C[m])
         /\ ld.state = "OK" /\ ld.format = "HEXA" =>
              \A m \in DOMAIN ld.maps : ld.maps[m].code \in {<<>>, C[m].code}
         /\ ~Loading(ld) /\ whole => ld.state = "OK" /\ ld.maps = C
  <1>1. Reads(C, F, whole, ld)
    BY DEF LoaderInv
  <1>2. PICK k, maps : k = ld.current /\ maps = ld.maps
    OBVIOUS
  <1>3. /\ ld \in LoaderType /\ k \in 1..Len(C) /\ Len(maps) = k /\ \A i \in 1..k - 1 : maps[i] = C[i]
    BY <1>1, <1>2 DEF Reads
  <1>4. Len(C) \in Nat /\ k \in Nat /\ k <= Len(C) /\ maps \in Seq(Map) /\ DOMAIN maps = 1..k
    BY <1>2, <1>3, LenProperties DEF LoaderType
  <1>5. PartOf(maps[k], C[k])
    <2>1. CASE AtFile(ld)
      BY <1>2, <2>1, PartsOfMap, NewMapMade DEF AtFile
    <2>2. CASE AtPart(C, a, ld) \/ AtBanks(C, a, ld)
      BY <1>2, <2>2, PartsOfMap DEF AtPart, AtBanks
    <2>3. CASE AtNull(a, ld) \/ AtOwn(a, ld)
      BY <1>2, <2>3, PartsOfMap DEF AtNull, AtOwn
    <2>4. CASE AtRun(C, r, b, ld)
      BY <1>2, <2>4, PartsOfMap DEF AtRun
    <2>5. CASE AtCut(C, whole, ld) \/ Stopped(C, whole, ld)
      BY <1>2, <2>5 DEF AtCut, Stopped
    <2> QED BY <2>1, <2>2, <2>3, <2>4, <2>5 DEF LoaderInv
  <1>6. \A m \in DOMAIN maps : m = k \/ m \in 1..k - 1
    BY <1>4
  <1>7. \A m \in 1..k - 1 : PartOf(maps[m], C[m]) /\ maps[m].code = C[m].code
    <2>1. \A m \in 1..k - 1 : maps[m].code = C[m].code
      BY <1>3
    <2> QED BY <2>1, PartsOfMap
  <1>8. ASSUME ld.state = "OK" PROVE Stopped(C, whole, ld)
    BY <1>8 DEF LoaderInv, AtFile, AtPart, AtBanks, AtNull, AtOwn, AtRun, AtCut
  <1>9. ASSUME ld.state = "OK", ld.format = "HEXA", NEW m \in DOMAIN maps
        PROVE  maps[m].code \in {<<>>, C[m].code}
    <2>1. maps[k].code \in {<<>>, C[k].code}
      BY <1>2, <1>8, <1>9 DEF Stopped
    <2> QED BY <1>6, <1>7, <1>9, <2>1
  <1>10. ASSUME ~Loading(ld), whole PROVE ld.state = "OK" /\ maps = C
    <2>1. Stopped(C, whole, ld)
      BY <1>10 DEF LoaderInv, Loading, AtFile, AtPart, AtBanks, AtNull, AtOwn, AtRun, AtCut
    <2>2. ld.state = "OK" /\ k = Len(C) /\ maps[k] = C[k]
      BY <1>2, <1>10, <2>1 DEF Stopped
    <2>3. \A m \in 1..Len(C) : maps[m] = C[m]
      BY <1>3, <1>4, <1>6, <2>2
    <2> QED BY <1>3, <1>4, <2>2, <2>3, SeqEqual
  <1> QED BY <1>2, <1>3, <1>4, <1>5, <1>6, <1>7, <1>9, <1>10

ChainedOf == [m \in Map |-> Chained(m)]

LEMMA ChainedOfType ==
  /\ \A m \in Map : ChainedOf[m] = Chained(m)
  /\ \A m \in Map : ChainedOf[m] \in Seq(Int)
  <1>1. \A m \in Map : ChainedOf[m] = Chained(m)
    BY DEF ChainedOf
  <1>2. ASSUME NEW m \in Map PROVE Chained(m) \in Seq(Int)
    <2>1. m.code \in Code /\ m.rombank \in Int /\ m.rambank \in Int
      BY <1>2 DEF Map
    <2>2. IsCode(m.code)
      BY <2>1, CodeIs
    <2> QED BY <2>1, <2>2, ChainedType
  <1> QED BY <1>1, <1>2

LEMMA SaveOfMap ==
  ASSUME NEW m \in Map PROVE IsCode(m.code) /\ Save(m.code) \in Seq(Int)
  <1>1. m.code \in Code
    BY DEF Map
  <1>2. IsCode(m.code)
    BY <1>1, CodeIs
  <1> QED BY <1>2, SaveType

FileIs(c, m, t) == FileOf(c) = Save(m.code) \o FlattenSeq(MapOf(ChainedOf, t))

(* The file of a chain: its first map, then the others one after the other.*)
LEMMA FileOfChain ==
  ASSUME NEW c, NEW m \in Map, NEW t \in Seq(Map), c = <<m>> \o t
  PROVE  FileIs(c, m, t)
  <1>1. PICK n : n = Len(t)
    OBVIOUS
  <1>2. n \in Nat /\ <<m>> \in Seq(Map) /\ Len(<<m>>) = 1 /\ <<m>>[1] = m
    BY <1>1
  <1>3. PICK s : s = <<m>>
    OBVIOUS
  <1>4. /\ Len(s \o t) = Len(s) + Len(t)
        /\ \A i \in 1..Len(s) + Len(t) : (s \o t)[i] = IF i <= Len(s) THEN s[i] ELSE t[i - Len(s)]
    BY <1>2, <1>3, ConcatProperties
  <1>5. Len(c) = n + 1 /\ \A i \in 1..n + 1 : c[i] = IF i <= 1 THEN m ELSE t[i - 1]
    BY <1>1, <1>2, <1>3, <1>4
  <1>6. c[1] = m
    BY <1>2, <1>5
  <1>7. ASSUME NEW k \in 1..n PROVE c[k + 1] = t[k] /\ t[k] \in Map
    <2>1. k + 1 \in 1..n + 1 /\ ~(k + 1 <= 1) /\ k + 1 - 1 = k
      BY <1>2, <1>7
    <2>2. c[k + 1] = t[k + 1 - 1]
      BY <1>5, <2>1
    <2> QED BY <1>1, <1>7, <2>1, <2>2
  <1>8. [k \in 1..(Len(c) - 1) |-> Chained(c[k + 1])] = MapOf(ChainedOf, t)
    <2>1. Len(c) - 1 = n
      BY <1>2, <1>5
    <2>2. \A k \in 1..n : Chained(c[k + 1]) = ChainedOf[t[k]]
      BY <1>7, ChainedOfType
    <2> QED BY <1>1, <2>1, <2>2 DEF MapOf
  <1> QED BY <1>6, <1>8 DEF FileOf, FileIs

LEMMA MapOfSingle ==
  ASSUME NEW m \in Map
  PROVE  MapOf(ChainedOf, <<m>>) = <<Chained(m)>>
  <1>1. Len(<<m>>) = 1 /\ <<m>>[1] = m
    OBVIOUS
  <1>2. ChainedOf[m] = Chained(m)
    BY ChainedOfType
  <1> QED BY <1>1, <1>2 DEF MapOf

LEMMA JoinAssociative ==
  \A h, s, f : h \in Seq(Int) /\ s \in Seq(Int) /\ f \in Seq(Int) => (h \o s) \o f = h \o (s \o f)
  BY SMTT(30), ConcatAssociative

(* The embedded file of a chain whose first map takes other banks.         *)
OtherBanks(c, m, t, o) == c = <<m>> \o t /\ o.code = m.code

LEMMA EmbeddedChain ==
  ASSUME NEW c, NEW m \in Map, NEW t \in Seq(Map), NEW o \in Map, OtherBanks(c, m, t, o)
  PROVE  Embed(FileOf(c), o.rombank, o.rambank) = FlattenSeq(MapOf(ChainedOf, <<o>> \o t))
  <1>1. PICK f, s, h : /\ f = FlattenSeq(MapOf(ChainedOf, t)) /\ s = Save(m.code)
                       /\ h = <<SIGNATURE, META, 3, 0, o.rombank, o.rambank, 0, 0>>
    OBVIOUS
  <1>2. PICK u : u = MapOf(ChainedOf, t)
    OBVIOUS
  <1>3. u \in Seq(Seq(Int))
    BY <1>2, ChainedOfType, MapOfType
  <1>4. f \in Seq(Int)
    BY <1>1, <1>2, <1>3, FlattenType
  <1>5. s \in Seq(Int)
    BY <1>1, SaveOfMap
  <1>6. h \in Seq(Int)
    <2>1. o.rombank \in Int /\ o.rambank \in Int
      BY DEF Map
    <2> QED BY <1>1, <2>1, MetaType DEF SIGNATURE
  <1>7. Embed(FileOf(c), o.rombank, o.rambank) = h \o (s \o f)
    <2>1. FileOf(c) = s \o f
      <3>1. c = <<m>> \o t
        BY DEF OtherBanks
      <3>2. FileIs(c, m, t)
        BY <3>1, FileOfChain
      <3> QED BY <1>1, <3>2 DEF FileIs
    <2> QED BY <1>1, <2>1 DEF Embed
  <1>8. Chained(o) = h \o s
    BY <1>1 DEF Chained, Embed, OtherBanks
  <1>9. (h \o s) \o f = h \o (s \o f)
    <2>1. h \in Seq(Int) /\ s \in Seq(Int) /\ f \in Seq(Int)
      BY <1>4, <1>5, <1>6
    <2> QED BY SMTT(30), <2>1, JoinAssociative
  <1>10. PICK v, w : v = <<o>> /\ w = <<Chained(o)>>
    OBVIOUS
  <1>11. v \in Seq(Map) /\ Chained(o) \in Seq(Int) /\ w \in Seq(Seq(Int))
    BY <1>10, ChainedOfType
  <1>12. MapOf(ChainedOf, v \o t) = MapOf(ChainedOf, v) \o MapOf(ChainedOf, t)
    BY <1>11, MapOfConcat
  <1>13. MapOf(ChainedOf, v) = w
    BY <1>10, MapOfSingle
  <1>14. FlattenSeq(w \o u) = FlattenSeq(w) \o FlattenSeq(u)
    BY <1>3, <1>11, FlattenConcat
  <1>15. FlattenSeq(w) = Chained(o)
    BY <1>10, <1>11, FlattenSingle
  <1> QED BY <1>1, <1>2, <1>7, <1>8, <1>9, <1>10, <1>12, <1>13, <1>14, <1>15

EmbedEntry ==
  {e \in [name : DOMAIN Embeddable, rombank : Byte, rambank : Byte] : Embeddable[e.name] # <<>>}

(* A sequence with one more element in front.                              *)
LEMMA InFront ==
  ASSUME NEW X, NEW x \in X, NEW t \in Seq(X), NEW n, n = Len(t)
  PROVE  /\ <<x>> \o t \in Seq(X) /\ Len(<<x>> \o t) = n + 1
         /\ \A i \in 1..n + 1 : (<<x>> \o t)[i] = IF i <= 1 THEN x ELSE t[i - 1]
  <1>1. PICK s : s = <<x>>
    OBVIOUS
  <1>2. s \in Seq(X) /\ Len(s) = 1 /\ s[1] = x /\ n \in Nat
    BY <1>1
  <1>3. /\ s \o t \in Seq(X) /\ Len(s \o t) = Len(s) + Len(t)
        /\ \A i \in 1..Len(s) + Len(t) : (s \o t)[i] = IF i <= Len(s) THEN s[i] ELSE t[i - Len(s)]
    BY <1>2, ConcatProperties
  <1>4. Len(s \o t) = 1 + n /\ \A i \in 1..1 + n : (s \o t)[i] = IF i <= 1 THEN s[i] ELSE t[i - 1]
    BY <1>2, <1>3
  <1>5. 1 + n = n + 1
    BY <1>2
  <1>6. \A i \in 1..n + 1 : (s \o t)[i] = IF i <= 1 THEN x ELSE t[i - 1]
    BY <1>2, <1>4, <1>5
  <1> QED BY <1>1, <1>3, <1>4, <1>5, <1>6

LEMMA ByteType == \A v : v \in Byte => v \in Int
  BY DEF Byte

LEMMA ChainType ==
  ASSUME NEW chain, IsChain(chain)
  PROVE  chain \in Seq(Map)
  <1>1. PICK maps : maps = {chain[k] : k \in DOMAIN chain}
    OBVIOUS
  <1>2. chain \in Seq(maps) /\ \A m \in maps : IsImage(m)
    BY <1>1 DEF IsChain
  <1>3. ASSUME NEW m \in maps PROVE m \in Map
    <2>1. DOMAIN m.code \subseteq 0..(META - 1) /\ m \in [code: [DOMAIN m.code -> Byte], rombank: Byte, rambank: Byte]
      BY <1>2, <1>3 DEF IsImage
    <2>2. m.code \in [DOMAIN m.code -> Byte] /\ m.rombank \in Byte /\ m.rambank \in Byte
      BY <2>1
    <2>3. m.code \in Code
      BY <2>1, <2>2, CodeIs DEF IsCode
    <2>4. m.rombank \in Int /\ m.rambank \in Int
      BY <2>2, ByteType
    <2> QED BY <2>1, <2>3, <2>4 DEF Map
  <1> QED BY <1>2, <1>3

LEMMA RebankedChain ==
  ASSUME NEW e \in EmbedEntry
  PROVE  /\ Rebanked(e) \in Seq(Map)
         /\ Embed(FileOf(Embeddable[e.name]), e.rombank, e.rambank) = FlattenSeq(MapOf(ChainedOf, Rebanked(e)))
  <1>1. PICK c, n : c = Embeddable[e.name] /\ n = Len(c)
    OBVIOUS
  <1>2. e.name \in DOMAIN Embeddable /\ e.rombank \in Int /\ e.rambank \in Int /\ c # <<>>
    BY <1>1, ByteType DEF EmbedEntry
  <1>3. c \in Seq(Map)
    BY <1>1, <1>2, EmbeddableAssumption, ChainType
  <1>4. n \in Nat /\ n >= 1 /\ c[1] \in Map
    BY <1>1, <1>2, <1>3, EmptySeq, LenProperties
  <1>5. PICK m, t : m = c[1] /\ t = Tail(c)
    OBVIOUS
  <1>6. t \in Seq(Map) /\ Len(t) = n - 1 /\ \A i \in 1..n - 1 : t[i] = c[i + 1]
    BY <1>1, <1>2, <1>3, <1>5, HeadTailProperties
  <1>7. PICK o : o = [code |-> m.code, rombank |-> e.rombank, rambank |-> e.rambank]
    OBVIOUS
  <1>8. o \in Map /\ o.code = m.code /\ o.rombank = e.rombank /\ o.rambank = e.rambank /\ m \in Map
    BY <1>2, <1>4, <1>5, <1>7 DEF Map
  <1>9. ASSUME NEW x \in Map
        PROVE  /\ <<x>> \o t \in Seq(Map) /\ Len(<<x>> \o t) = n
               /\ \A i \in 1..n : (<<x>> \o t)[i] = IF i = 1 THEN x ELSE c[i]
    <2>1. PICK s : s = <<x>> \o t
      OBVIOUS
    <2>2. PICK l : l = Len(t)
      OBVIOUS
    <2>3. l = n - 1 /\ l + 1 = n
      BY <1>4, <1>6, <2>2
    <2>4. s \in Seq(Map) /\ Len(s) = n /\ \A i \in 1..n : s[i] = IF i <= 1 THEN x ELSE t[i - 1]
      BY <1>6, <1>9, <2>1, <2>2, <2>3, InFront
    <2>5. ASSUME NEW i \in 1..n PROVE s[i] = IF i = 1 THEN x ELSE c[i]
      <3>1. CASE i = 1
        BY <1>4, <2>4, <3>1
      <3>2. CASE i # 1
        <4>1. i - 1 \in 1..n - 1 /\ ~(i <= 1) /\ (i - 1) + 1 = i
          BY <1>4, <3>2
        <4>2. t[i - 1] = c[i]
          BY <1>6, <4>1
        <4> QED BY <2>4, <3>2, <4>1, <4>2
      <3> QED BY <3>1, <3>2
    <2> QED BY <2>1, <2>4, <2>5
  <1>10. c = <<m>> \o t
    <2>1. PICK d : d = <<m>> \o t
      OBVIOUS
    <2>2. d \in Seq(Map) /\ Len(d) = n /\ \A i \in 1..n : d[i] = IF i = 1 THEN m ELSE c[i]
      BY <1>8, <1>9, <2>1
    <2>3. \A i \in 1..n : c[i] = d[i]
      BY <1>5, <2>2
    <2>4. c = d
      BY <1>1, <1>3, <2>2, <2>3, SeqEqual
    <2> QED BY <2>1, <2>4
  <1>11. Rebanked(e) = <<o>> \o t
    <2>1. PICK d : d = <<o>> \o t
      OBVIOUS
    <2>2. d \in Seq(Map) /\ Len(d) = n /\ \A i \in 1..n : d[i] = IF i = 1 THEN o ELSE c[i]
      BY <1>8, <1>9, <2>1
    <2>3. Rebanked(e) = [c EXCEPT ![1] = o]
      <3>1. DOMAIN c = 1..n /\ 1 \in 1..n
        BY <1>1, <1>3, <1>4, LenProperties
      <3>2. m = [code |-> m.code, rombank |-> m.rombank, rambank |-> m.rambank]
        BY <1>8, MapMade
      <3>3. o = [[m EXCEPT !.rombank = e.rombank] EXCEPT !.rambank = e.rambank]
        <4>1. PICK p : p = [m EXCEPT !.rombank = e.rombank]
          OBVIOUS
        <4>2. p = [code |-> m.code, rombank |-> e.rombank, rambank |-> m.rambank]
          BY <3>2, <4>1
        <4>3. [p EXCEPT !.rambank = e.rambank] = o
          BY <1>7, <4>2
        <4> QED BY <4>1, <4>3
      <3>4. Rebanked(e) = [c EXCEPT ![1].rombank = e.rombank, ![1].rambank = e.rambank]
        BY <1>1 DEF Rebanked
      <3> QED BY <1>5, <3>1, <3>3, <3>4
    <2>4. /\ [c EXCEPT ![1] = o] \in Seq(Map) /\ Len([c EXCEPT ![1] = o]) = n
          /\ \A i \in 1..n : [c EXCEPT ![1] = o][i] = IF i = 1 THEN o ELSE c[i]
      BY <1>1, <1>3, <1>4, <1>8, ExceptSeq
    <2>5. \A i \in 1..n : [c EXCEPT ![1] = o][i] = d[i]
      BY <2>2, <2>4
    <2> QED BY <2>1, <2>2, <2>3, <2>4, <2>5, SeqEqual
  <1>12. Rebanked(e) \in Seq(Map)
    BY <1>8, <1>9, <1>11
  <1>13. OtherBanks(c, m, t, o)
    BY <1>8, <1>10 DEF OtherBanks
  <1>14. Embed(FileOf(c), o.rombank, o.rambank) = FlattenSeq(MapOf(ChainedOf, <<o>> \o t))
    BY <1>6, <1>8, <1>13, EmbeddedChain
  <1> QED BY <1>1, <1>8, <1>11, <1>12, <1>14

-------------------------------------------------------------------------------
(* The file the assembler saves is the file of the maps of the program.    *)
RebankedOf == [e \in EmbedEntry |-> Rebanked(e)]

Program(c, E) == Own.code = c /\ c \in Code /\ embedlist = E /\ E \in Seq(EmbedEntry)
Whole(C) == /\ C = Images /\ C \in Seq(Map) /\ Len(C) # 0 /\ C[1] = Own
            /\ C[1].rombank = UNSET /\ C[1].rambank = UNSET

LEMMA ImagesWhole ==
  ASSUME NEW c, NEW E, Program(c, E)
  PROVE  Whole(Images)
  <1>1. PICK t : t = FlattenSeq(MapOf(RebankedOf, E))
    OBVIOUS
  <1>2. t \in Seq(Map)
    <2>1. E \in Seq(EmbedEntry)
      BY DEF Program
    <2>2. \A e \in EmbedEntry : RebankedOf[e] \in Seq(Map)
      BY RebankedChain DEF RebankedOf
    <2>3. PICK u : u = MapOf(RebankedOf, E)
      OBVIOUS
    <2>4. u \in Seq(Seq(Map))
      BY <2>1, <2>2, <2>3, MapOfType
    <2> QED BY <1>1, <2>3, <2>4, FlattenType
  <1>3. Own \in Map /\ Own.rombank = UNSET /\ Own.rambank = UNSET
    <2>1. PICK o : o = Own
      OBVIOUS
    <2>2. o.code = c /\ c \in Code
      BY <2>1 DEF Program
    <2>3. UNSET \in Int
      BY DEF UNSET
    <2>4. o.rombank = UNSET /\ o.rambank = UNSET
      BY <2>1 DEF Own
    <2>5. o = [code |-> o.code, rombank |-> UNSET, rambank |-> UNSET]
      BY <2>1 DEF Own
    <2>6. o = [code |-> c, rombank |-> UNSET, rambank |-> UNSET]
      BY <2>2, <2>5
    <2> QED BY <2>1, <2>2, <2>3, <2>4, <2>6 DEF Map
  <1>4. Images = <<Own>> \o t
    <2>1. [k \in DOMAIN embedlist |-> Rebanked(embedlist[k])] = MapOf(RebankedOf, E)
      <3>1. embedlist = E /\ E \in Seq(EmbedEntry) /\ DOMAIN E = 1..Len(E)
        BY DEF Program
      <3>2. \A k \in 1..Len(E) : RebankedOf[E[k]] = Rebanked(E[k])
        BY <3>1 DEF RebankedOf
      <3> QED BY <3>1, <3>2 DEF MapOf
    <2> QED BY <1>1, <2>1 DEF Images
  <1>5. PICK n, s, o : n = Len(t) /\ o = Own /\ s = <<o>> \o t
    OBVIOUS
  <1>6. n \in Nat /\ o \in Map
    BY <1>2, <1>3, <1>5
  <1>7. s \in Seq(Map) /\ Len(s) = n + 1 /\ \A i \in 1..n + 1 : s[i] = IF i <= 1 THEN o ELSE t[i - 1]
    BY <1>2, <1>5, <1>6, InFront
  <1>8. 1 \in 1..n + 1 /\ n + 1 # 0
    BY <1>6
  <1>9. s[1] = o
    BY <1>7, <1>8
  <1> QED BY <1>3, <1>4, <1>5, <1>7, <1>8, <1>9 DEF Whole

LEMMA SavedFile ==
  ASSUME NEW c, NEW E, Program(c, E), map = c
  PROVE  Saved = FileOf(Images)
  <1>1. PICK t, u, o : t = FlattenSeq(u) /\ u = MapOf(RebankedOf, E) /\ o = Own
    OBVIOUS
  <1>2. E \in Seq(EmbedEntry) /\ embedlist = E /\ DOMAIN E = 1..Len(E)
    BY DEF Program
  <1>3. \A e \in EmbedEntry : /\ RebankedOf[e] = Rebanked(e) /\ RebankedOf[e] \in Seq(Map)
                              /\ Embed(FileOf(Embeddable[e.name]), e.rombank, e.rambank)
                                   = FlattenSeq(MapOf(ChainedOf, RebankedOf[e]))
    BY RebankedChain DEF RebankedOf
  <1>4. u \in Seq(Seq(Map)) /\ Len(u) = Len(E)
    <2>1. \A e \in EmbedEntry : RebankedOf[e] \in Seq(Map)
      BY <1>3
    <2> QED BY <1>1, <1>2, <2>1, MapOfType
  <1>5. t \in Seq(Map)
    BY <1>1, <1>4, FlattenType
  <1>6. Whole(Images)
    BY ImagesWhole
  <1>7. o \in Map /\ o.code = c
    <2>1. Images \in Seq(Map) /\ Len(Images) # 0 /\ Images[1] = o
      BY <1>1, <1>6 DEF Whole
    <2>2. 1 \in 1..Len(Images)
      BY <2>1, LenProperties
    <2> QED BY <1>1, <2>1, <2>2 DEF Program
  <1>8. [k \in DOMAIN embedlist |-> Rebanked(embedlist[k])] = u
    <2>1. \A k \in 1..Len(E) : E[k] \in EmbedEntry
      BY <1>2
    <2>2. \A k \in 1..Len(E) : RebankedOf[E[k]] = Rebanked(E[k])
      BY <1>3, <2>1
    <2> QED BY <1>1, <1>2, <2>2 DEF MapOf
  <1>9. Images = <<o>> \o t
    BY <1>1, <1>8 DEF Images
  <1>10. FileIs(Images, o, t)
    BY <1>5, <1>7, <1>9, FileOfChain
  <1>11. FlattenSeq(MapOf(ChainedOf, t)) = FlattenSeq(PartsOf(ChainedOf, u))
    <2>1. \A m \in Map : ChainedOf[m] \in Seq(Int)
      BY ChainedOfType
    <2> QED BY <1>1, <1>4, <2>1, FlattenMap
  <1>12. PartsOf(ChainedOf, u)
           = [k \in DOMAIN embedlist |->
               Embed(FileOf(Embeddable[embedlist[k].name]), embedlist[k].rombank, embedlist[k].rambank)]
    <2>1. \A k \in 1..Len(E) : u[k] = RebankedOf[E[k]] /\ E[k] \in EmbedEntry
      BY <1>1, <1>2 DEF MapOf
    <2>2. \A k \in 1..Len(E) : FlattenSeq(MapOf(ChainedOf, u[k]))
                                 = Embed(FileOf(Embeddable[E[k].name]), E[k].rombank, E[k].rambank)
      BY <1>3, <2>1
    <2> QED BY <1>2, <1>4, <2>2 DEF PartsOf
  <1> QED BY <1>7, <1>10, <1>11, <1>12 DEF FileIs, Saved

-------------------------------------------------------------------------------
(* The bytes of lines, each a code, in a map.                              *)
Filled(B, n, M) ==
  /\ n \in Nat /\ M \in Code
  /\ \A k \in 1..n : B[k] \in Code
  /\ \A k, j \in 1..n : k # j => DOMAIN B[k] \cap DOMAIN B[j] = {}
  /\ \A x \in DOMAIN M : \E k \in 1..n : x \in DOMAIN B[k]
  /\ \A k \in 1..n : \A x \in DOMAIN B[k] : x \in DOMAIN M /\ M[x] = B[k][x]

OneMoreCode(B, n, c, D) == D[n + 1] = c /\ \A k \in 1..n : D[k] = B[k]
OtherCode(B, n, i, c, D) == \A k \in 1..n : D[k] = IF k = i THEN c ELSE B[k]

LEMMA OverCode ==
  ASSUME NEW c \in Code, NEW d \in Code
  PROVE  /\ Over(c, d) \in Code /\ DOMAIN Over(c, d) = DOMAIN c \cup DOMAIN d
         /\ \A x \in DOMAIN c : Over(c, d)[x] = c[x]
         /\ \A x \in DOMAIN d : x \notin DOMAIN c => Over(c, d)[x] = d[x]
  <1>1. IsCode(c) /\ IsCode(d)
    BY CodeIs
  <1>2. PICK o : o = Over(c, d)
    OBVIOUS
  <1>3. /\ DOMAIN o = DOMAIN c \cup DOMAIN d
        /\ \A x \in DOMAIN c : o[x] = c[x]
        /\ \A x \in DOMAIN d : x \notin DOMAIN c => o[x] = d[x]
    BY <1>2 DEF Over
  <1>4. /\ \A x \in DOMAIN c : x \in 0..(META - 1) /\ c[x] \in Byte
        /\ \A x \in DOMAIN d : x \in 0..(META - 1) /\ d[x] \in Byte
    BY <1>1 DEF IsCode
  <1>5. \A x \in DOMAIN o : x \in 0..(META - 1) /\ o[x] \in Byte
    BY <1>3, <1>4
  <1>6. o \in [DOMAIN o -> Byte]
    <2>1. o = [x \in DOMAIN o |-> o[x]]
      BY <1>2 DEF Over
    <2> QED BY <1>5, <2>1
  <1>7. IsCode(o)
    BY <1>5, <1>6 DEF IsCode
  <1> QED BY <1>2, <1>3, <1>7, CodeIs

LEMMA FilledMore ==
  ASSUME NEW B, NEW n, NEW M, NEW c \in Code, NEW D,
         Filled(B, n, M), OneMoreCode(B, n, c, D), DOMAIN c \cap DOMAIN M = {}
  PROVE  Filled(D, n + 1, Over(c, M))
  <1>1. PICK o : o = Over(c, M)
    OBVIOUS
  <1>2. n \in Nat /\ M \in Code
    BY DEF Filled
  <1>3. /\ o \in Code /\ DOMAIN o = DOMAIN c \cup DOMAIN M
        /\ \A x \in DOMAIN c : o[x] = c[x]
        /\ \A x \in DOMAIN M : x \notin DOMAIN c => o[x] = M[x]
    BY <1>1, <1>2, OverCode
  <1>4. \A k \in 1..n + 1 : k = n + 1 \/ k \in 1..n
    BY <1>2
  <1>5. n + 1 \in Nat /\ n + 1 \in 1..n + 1 /\ (\A k \in 1..n : k \in 1..n + 1) /\ n + 1 \notin 1..n
    BY <1>2
  <1>6. D[n + 1] = c /\ \A k \in 1..n : D[k] = B[k]
    BY DEF OneMoreCode
  <1>7. \A k \in 1..n : \A x \in DOMAIN B[k] : x \in DOMAIN M /\ M[x] = B[k][x]
    BY DEF Filled
  <1>8. \A k \in 1..n + 1 : D[k] \in Code
    BY <1>4, <1>6 DEF Filled
  <1>9. \A k, j \in 1..n + 1 : k # j => DOMAIN D[k] \cap DOMAIN D[j] = {}
    <2>1. \A k, j \in 1..n : k # j => DOMAIN B[k] \cap DOMAIN B[j] = {}
      BY DEF Filled
    <2>2. \A k \in 1..n : DOMAIN B[k] \cap DOMAIN c = {}
      BY <1>7
    <2> QED BY <1>4, <1>6, <2>1, <2>2
  <1>10. \A x \in DOMAIN o : \E k \in 1..n + 1 : x \in DOMAIN D[k]
    <2>1. \A x \in DOMAIN M : \E k \in 1..n : x \in DOMAIN B[k]
      BY DEF Filled
    <2> QED BY <1>3, <1>5, <1>6, <2>1
  <1>11. \A k \in 1..n + 1 : \A x \in DOMAIN D[k] : x \in DOMAIN o /\ o[x] = D[k][x]
    BY <1>3, <1>4, <1>6, <1>7
  <1> QED BY <1>1, <1>3, <1>5, <1>8, <1>9, <1>10, <1>11 DEF Filled

LEMMA FilledAgain ==
  ASSUME NEW B, NEW n, NEW M, NEW i \in 1..n, NEW c \in Code, NEW D,
         Filled(B, n, M), OtherCode(B, n, i, c, D), DOMAIN c = DOMAIN B[i]
  PROVE  Filled(D, n, Over(c, M))
  <1>1. PICK o : o = Over(c, M)
    OBVIOUS
  <1>2. n \in Nat /\ M \in Code
    BY DEF Filled
  <1>3. /\ o \in Code /\ DOMAIN o = DOMAIN c \cup DOMAIN M
        /\ \A x \in DOMAIN c : o[x] = c[x]
        /\ \A x \in DOMAIN M : x \notin DOMAIN c => o[x] = M[x]
    BY <1>1, <1>2, OverCode
  <1>4. \A k \in 1..n : D[k] = IF k = i THEN c ELSE B[k]
    BY DEF OtherCode
  <1>5. \A k \in 1..n : \A x \in DOMAIN B[k] : x \in DOMAIN M /\ M[x] = B[k][x]
    BY DEF Filled
  <1>6. \A k, j \in 1..n : k # j => DOMAIN B[k] \cap DOMAIN B[j] = {}
    BY DEF Filled
  <1>7. \A k \in 1..n : D[k] \in Code /\ DOMAIN D[k] = DOMAIN B[k]
    BY <1>4 DEF Filled
  <1>8. \A k, j \in 1..n : k # j => DOMAIN D[k] \cap DOMAIN D[j] = {}
    BY <1>6, <1>7
  <1>9. \A x \in DOMAIN o : \E k \in 1..n : x \in DOMAIN D[k]
    <2>1. \A x \in DOMAIN M : \E k \in 1..n : x \in DOMAIN B[k]
      BY DEF Filled
    <2> QED BY <1>3, <1>7, <2>1
  <1>10. ASSUME NEW k \in 1..n, NEW x \in DOMAIN D[k]
         PROVE  x \in DOMAIN o /\ o[x] = D[k][x]
    <2>1. x \in DOMAIN B[k]
      BY <1>7, <1>10
    <2>2. x \in DOMAIN M /\ M[x] = B[k][x]
      BY <1>5, <2>1
    <2>3. CASE k = i
      BY <1>3, <1>4, <1>10, <2>2, <2>3
    <2>4. CASE k # i
      <3>1. x \notin DOMAIN c
        BY <1>6, <2>1, <2>4
      <3> QED BY <1>3, <1>4, <2>2, <2>4, <3>1
    <2> QED BY <2>3, <2>4
  <1> QED BY <1>1, <1>2, <1>3, <1>7, <1>8, <1>9, <1>10 DEF Filled

(* The bytes of the lines.                                                 *)
AllBytes(L) == [k \in DOMAIN L |-> Bytes(L[k])]

LEMMA OwnIs ==
  ASSUME NEW n, DOMAIN lines = 1..n, Filled(AllBytes(lines), n, map)
  PROVE  Own.code = map /\ map \in Code
  <1>1. PICK B : B = AllBytes(lines)
    OBVIOUS
  <1>2. \A k \in DOMAIN lines : B[k] = Bytes(lines[k])
    BY <1>1 DEF AllBytes
  <1>3. map \in Code /\ \A k \in 1..n : \A x \in DOMAIN B[k] : x \in DOMAIN map /\ map[x] = B[k][x]
    BY <1>1 DEF Filled
  <1>4. \A x \in DOMAIN map : \E k \in 1..n : x \in DOMAIN B[k]
    BY <1>1 DEF Filled
  <1>5. PICK S : S = UNION {DOMAIN Bytes(lines[k]) : k \in DOMAIN lines}
    OBVIOUS
  <1>6. \A x : x \in S <=> \E k \in 1..n : x \in DOMAIN B[k]
    BY <1>2, <1>5
  <1>7. S = DOMAIN map
    BY <1>3, <1>4, <1>6
  <1>8. ASSUME NEW x \in DOMAIN map PROVE Bytes(lines[OneLine(x)])[x] = map[x]
    <2>1. \E k \in DOMAIN lines : x \in DOMAIN Bytes(lines[k])
      BY <1>2, <1>4
    <2>2. PICK k : k = OneLine(x)
      OBVIOUS
    <2>3. k \in DOMAIN lines /\ x \in DOMAIN Bytes(lines[k])
      BY <2>1, <2>2 DEF OneLine
    <2> QED BY <1>2, <1>3, <2>2, <2>3
  <1>9. Own.code = [x \in S |-> Bytes(lines[OneLine(x)])[x]]
    BY <1>5 DEF Own
  <1>10. map = [x \in DOMAIN map |-> map[x]]
    <2>1. PICK D : map \in [D -> Byte]
      BY <1>3 DEF Code
    <2> QED BY <2>1
  <1> QED BY <1>3, <1>7, <1>8, <1>9, <1>10

-------------------------------------------------------------------------------
(* A line as pass 1 leaves it: its bytes have addresses, and those of its  *)
(* labels room among its bytes.                                            *)
Names == STRING \cup {NoLabel, FILELABEL}
Immediates == {"none", "b", "r", "R", "w", "db", "dw"}
LineType ==
  [label : Names, alias : BOOLEAN, file : Nat, address : Nat, code : Seq(Byte),
   params : Seq(Operand), imm : Immediates]

Refers(l) == {k \in DOMAIN l.params : l.code # <<>> /\ IsLabel(l.params[k])}
Room(l) ==
  \/ l.imm = "dw" /\ Len(l.code) = 2 * Len(l.params)
  \/ l.imm \in {"w", "R", "r"} /\ Len(l.params) = 1 /\ Width[l.imm] <= Len(l.code)
Sound(l) ==
  /\ l \in LineType
  /\ l.address + Len(l.code) <= META
  /\ Refers(l) # {} => Room(l)

LinesAre(L, M) ==
  /\ L \in Seq(LineType)
  /\ \A k \in 1..Len(L) : Sound(L[k])
  /\ Filled(AllBytes(L), Len(L), M)

LEMMA BytesOf ==
  ASSUME NEW l, Sound(l)
  PROVE  /\ Bytes(l) \in Code /\ DOMAIN Bytes(l) = l.address..(l.address + Len(l.code) - 1)
         /\ \A k \in 1..Len(l.code) : /\ l.address + k - 1 \in DOMAIN Bytes(l)
                                      /\ Bytes(l)[l.address + k - 1] = l.code[k]
  <1>1. PICK a, c, n : a = l.address /\ c = l.code /\ n = Len(c)
    OBVIOUS
  <1>2. a \in Nat /\ c \in Seq(Byte) /\ n \in Nat /\ a + n <= META
    <2>1. l \in LineType /\ l.address + Len(l.code) <= META
      BY DEF Sound
    <2>2. a \in Nat /\ c \in Seq(Byte)
      BY <1>1, <2>1 DEF LineType
    <2> QED BY <1>1, <2>1, <2>2, LenProperties
  <1>3. PICK f : f = [x \in a..(a + n - 1) |-> c[x - a + 1]]
    OBVIOUS
  <1>4. Bytes(l) = f
    BY <1>1, <1>3 DEF Bytes
  <1>5. \A x \in a..(a + n - 1) : x \in 0..(META - 1) /\ x - a + 1 \in 1..n
    BY <1>2, MetaType
  <1>6. \A k \in 1..n : c[k] \in Byte
    BY <1>1, <1>2
  <1>7. f \in [a..(a + n - 1) -> Byte] /\ DOMAIN f = a..(a + n - 1)
    BY <1>3, <1>5, <1>6
  <1>8. IsCode(f)
    BY <1>5, <1>7 DEF IsCode
  <1>9. ASSUME NEW k \in 1..n PROVE a + k - 1 \in DOMAIN f /\ f[a + k - 1] = c[k]
    <2>1. a + k - 1 \in a..(a + n - 1) /\ (a + k - 1) - a + 1 = k
      BY <1>2
    <2> QED BY <1>3, <1>7, <2>1
  <1> QED BY <1>1, <1>4, <1>7, <1>8, <1>9, CodeIs

LEMMA AllBytesAppend ==
  ASSUME NEW L \in Seq(LineType), NEW l \in LineType, NEW n, n = Len(L)
  PROVE  /\ n \in Nat /\ Append(L, l) \in Seq(LineType) /\ Len(Append(L, l)) = n + 1
         /\ Append(L, l)[n + 1] = l /\ \A k \in 1..n : Append(L, l)[k] = L[k]
         /\ OneMoreCode(AllBytes(L), n, Bytes(l), AllBytes(Append(L, l)))
  <1>1. PICK A : A = Append(L, l)
    OBVIOUS
  <1>2. /\ n \in Nat /\ A \in Seq(LineType) /\ Len(A) = n + 1 /\ A[n + 1] = l /\ DOMAIN L = 1..n
        /\ \A k \in 1..n : A[k] = L[k]
    BY <1>1, AppendProperties, LenProperties
  <1>3. DOMAIN A = 1..n + 1 /\ n + 1 \in 1..n + 1 /\ \A k \in 1..n : k \in 1..n + 1
    BY <1>2, LenProperties
  <1>4. OneMoreCode(AllBytes(L), n, Bytes(l), AllBytes(A))
    BY <1>2, <1>3 DEF OneMoreCode, AllBytes
  <1> QED BY <1>1, <1>2, <1>4

LEMMA LineAdded ==
  ASSUME NEW L, NEW M, NEW l, LinesAre(L, M), Sound(l), DOMAIN Bytes(l) \cap DOMAIN M = {}
  PROVE  LinesAre(Append(L, l), Over(Bytes(l), M))
  <1>1. PICK n, A, c : n = Len(L) /\ A = Append(L, l) /\ c = Bytes(l)
    OBVIOUS
  <1>2. L \in Seq(LineType) /\ l \in LineType /\ c \in Code /\ Filled(AllBytes(L), n, M)
    BY <1>1, BytesOf DEF LinesAre, Sound
  <1>3. /\ n \in Nat /\ A \in Seq(LineType) /\ Len(A) = n + 1 /\ A[n + 1] = l
        /\ \A k \in 1..n : A[k] = L[k]
    BY <1>1, <1>2, AllBytesAppend
  <1>4. OneMoreCode(AllBytes(L), n, c, AllBytes(A))
    BY <1>1, <1>2, AllBytesAppend
  <1>5. \A k \in 1..n + 1 : Sound(A[k])
    <2>1. \A k \in 1..n + 1 : k = n + 1 \/ k \in 1..n
      BY <1>3
    <2>2. \A k \in 1..n : Sound(L[k])
      BY <1>1 DEF LinesAre
    <2> QED BY <1>3, <2>1, <2>2
  <1>6. Filled(AllBytes(A), n + 1, Over(c, M))
    <2>1. DOMAIN c \cap DOMAIN M = {}
      BY <1>1
    <2> QED BY <1>2, <1>4, <2>1, FilledMore
  <1> QED BY <1>1, <1>3, <1>5, <1>6 DEF LinesAre

LEMMA EmptyAdded ==
  ASSUME NEW L, NEW M, NEW l, LinesAre(L, M), Sound(l), l.code = <<>>
  PROVE  LinesAre(Append(L, l), M) /\ DOMAIN Bytes(l) = {} /\ Over(Bytes(l), M) = M
  <1>1. PICK c, a : c = Bytes(l) /\ a = l.address
    OBVIOUS
  <1>2. a \in Nat /\ Len(l.code) = 0
    BY <1>1 DEF Sound, LineType
  <1>3. c \in Code /\ DOMAIN c = {}
    <2>1. c \in Code /\ DOMAIN c = a..(a + Len(l.code) - 1)
      BY <1>1, BytesOf
    <2> QED BY <1>2, <2>1
  <1>4. M \in Code
    BY DEF LinesAre, Filled
  <1>5. Over(c, M) = M
    <2>1. PICK D : M \in [D -> Byte]
      BY <1>4 DEF Code
    <2>2. M = [x \in DOMAIN M |-> M[x]]
      BY <2>1
    <2> QED BY <1>3, <2>2 DEF Over
  <1>6. LinesAre(Append(L, l), Over(c, M))
    <2>1. DOMAIN Bytes(l) \cap DOMAIN M = {}
      BY <1>1, <1>3
    <2> QED BY <1>1, <2>1, LineAdded
  <1> QED BY <1>1, <1>3, <1>5, <1>6

WithCode(l, c) == [l EXCEPT !.code = c]

LEMMA RecodedType ==
  ASSUME NEW l, NEW c \in Seq(Byte), Sound(l), Len(c) = Len(l.code)
  PROVE  \E m : /\ m = WithCode(l, c) /\ Sound(m) /\ m.code = c /\ DOMAIN Bytes(m) = DOMAIN Bytes(l)
                /\ m.label = l.label /\ m.alias = l.alias /\ m.file = l.file /\ m.address = l.address
                /\ m.params = l.params /\ m.imm = l.imm /\ Refers(m) = Refers(l)
  <1>1. PICK m : m = WithCode(l, c)
    OBVIOUS
  <1>2. l \in LineType /\ l.address + Len(l.code) <= META /\ (Refers(l) # {} => Room(l))
    BY DEF Sound
  <1>3. /\ m \in LineType /\ m.code = c
        /\ m.label = l.label /\ m.alias = l.alias /\ m.file = l.file /\ m.address = l.address
        /\ m.params = l.params /\ m.imm = l.imm
    BY <1>1, <1>2 DEF LineType, WithCode
  <1>4. l.code \in Seq(Byte)
    BY <1>2 DEF LineType
  <1>5. c = <<>> <=> l.code = <<>>
    BY <1>4, EmptySeq
  <1>6. Refers(m) = Refers(l)
    BY <1>3, <1>5 DEF Refers
  <1>7. Room(l) => Room(m)
    BY <1>3 DEF Room
  <1>8. Sound(m)
    BY <1>2, <1>3, <1>6, <1>7 DEF Sound
  <1>9. DOMAIN Bytes(m) = DOMAIN Bytes(l)
    BY <1>3, <1>8, BytesOf
  <1> QED BY <1>1, <1>3, <1>6, <1>8, <1>9

LEMMA LineRecoded ==
  ASSUME NEW L, NEW M, NEW i \in 1..Len(L), NEW m, LinesAre(L, M), Sound(m),
         DOMAIN Bytes(m) = DOMAIN Bytes(L[i])
  PROVE  LinesAre([L EXCEPT ![i] = m], Over(Bytes(m), M))
  <1>1. PICK n, A, c : n = Len(L) /\ A = [L EXCEPT ![i] = m] /\ c = Bytes(m)
    OBVIOUS
  <1>2. /\ L \in Seq(LineType) /\ m \in LineType /\ c \in Code /\ Filled(AllBytes(L), n, M)
        /\ DOMAIN L = 1..n /\ n \in Nat
    BY <1>1, BytesOf, LenProperties DEF LinesAre, Sound
  <1>3. /\ A \in Seq(LineType) /\ Len(A) = n /\ DOMAIN A = 1..n
        /\ \A k \in 1..n : A[k] = IF k = i THEN m ELSE L[k]
    BY <1>1, <1>2, ExceptSeq, LenProperties
  <1>4. OtherCode(AllBytes(L), n, i, c, AllBytes(A))
    BY <1>1, <1>2, <1>3 DEF OtherCode, AllBytes
  <1>5. \A k \in 1..n : Sound(A[k])
    BY <1>1, <1>3 DEF LinesAre
  <1>6. Filled(AllBytes(A), n, Over(c, M))
    <2>1. DOMAIN c = DOMAIN AllBytes(L)[i]
      BY <1>1, <1>2 DEF AllBytes
    <2>2. i \in 1..n
      BY <1>1
    <2> QED BY <1>2, <1>4, <2>1, <2>2, FilledAgain
  <1> QED BY <1>1, <1>3, <1>5, <1>6 DEF LinesAre

-------------------------------------------------------------------------------
(* The table of lines: every line belongs to a file, whose own label is at *)
(* its index or before it, and no two lines have the same global label.    *)
FileOpen(L, f) ==
  f \in 1..Len(L) /\ L[f].label = FILELABEL /\ L[f].file = f /\ ~L[f].alias
Scoped(L) == \A i \in 1..Len(L) : L[i].file <= i /\ FileOpen(L, L[i].file)
Unrepeated(label) == label \notin Locals \cup {NoLabel, FILELABEL}
Unique(L) ==
  \A k, j \in 1..Len(L) : Unrepeated(L[k].label) /\ L[k].label = L[j].label => k = j
Table(L, M) == LinesAre(L, M) /\ Scoped(L) /\ Unique(L)

Fresh(L, l) == Unrepeated(l.label) => \A k \in 1..Len(L) : L[k].label # l.label
StaysOpen(L, A) == \A f : FileOpen(L, f) => FileOpen(A, f)

LEMMA OneMoreLine ==
  ASSUME NEW L, NEW M, NEW l, NEW N, Table(L, M), Sound(l), FileOpen(Append(L, l), l.file), Fresh(L, l),
         LinesAre(Append(L, l), N)
  PROVE  Table(Append(L, l), N) /\ StaysOpen(L, Append(L, l))
  <1>1. PICK n, A : n = Len(L) /\ A = Append(L, l)
    OBVIOUS
  <1>2. L \in Seq(LineType) /\ l \in LineType
    BY DEF Table, LinesAre, Sound
  <1>3. /\ n \in Nat /\ A \in Seq(LineType) /\ Len(A) = n + 1 /\ A[n + 1] = l
        /\ \A k \in 1..n : A[k] = L[k]
    BY <1>1, <1>2, AllBytesAppend
  <1>4. (\A k \in 1..n : k \in 1..n + 1) /\ \A k \in 1..n + 1 : k = n + 1 \/ k \in 1..n
    BY <1>3
  <1>5. ASSUME NEW f, FileOpen(L, f) PROVE FileOpen(A, f)
    BY <1>1, <1>3, <1>4, <1>5 DEF FileOpen
  <1>6. Scoped(A)
    <2>1. ASSUME NEW i \in 1..n PROVE A[i].file <= i /\ FileOpen(A, A[i].file)
      <3>1. L[i].file <= i /\ FileOpen(L, L[i].file)
        BY <1>1, <2>1 DEF Table, Scoped
      <3> QED BY <1>3, <1>5, <2>1, <3>1
    <2>2. l.file <= n + 1 /\ FileOpen(A, l.file)
      BY <1>1, <1>3 DEF FileOpen
    <2> QED BY <1>3, <1>4, <2>1, <2>2 DEF Scoped
  <1>7. Unique(A)
    <2>1. \A k, j \in 1..n : Unrepeated(L[k].label) /\ L[k].label = L[j].label => k = j
      BY <1>1 DEF Table, Unique
    <2>2. Unrepeated(l.label) => \A k \in 1..n : L[k].label # l.label
      BY <1>1 DEF Fresh
    <2> QED BY <1>3, <1>4, <2>1, <2>2 DEF Unique
  <1> QED BY <1>1, <1>5, <1>6, <1>7 DEF Table, StaysOpen

(* A line is in a file that was open before it.                            *)
LEMMA OpenAfter ==
  ASSUME NEW L \in Seq(LineType), NEW l \in LineType, NEW f, FileOpen(L, f)
  PROVE  FileOpen(Append(L, l), f)
  <1>1. PICK n, A : n = Len(L) /\ A = Append(L, l)
    OBVIOUS
  <1>2. n \in Nat /\ Len(A) = n + 1 /\ \A k \in 1..n : A[k] = L[k]
    BY <1>1, AllBytesAppend
  <1> QED BY <1>1, <1>2 DEF FileOpen

LEMMA OpenItself ==
  ASSUME NEW L \in Seq(LineType), NEW l \in LineType,
         l.label = FILELABEL, ~l.alias, l.file = Len(L) + 1
  PROVE  FileOpen(Append(L, l), l.file)
  <1>1. PICK n, A : n = Len(L) /\ A = Append(L, l)
    OBVIOUS
  <1>2. n \in Nat /\ Len(A) = n + 1 /\ A[n + 1] = l
    BY <1>1, AllBytesAppend
  <1>3. n + 1 \in 1..n + 1
    BY <1>2
  <1> QED BY <1>1, <1>2, <1>3 DEF FileOpen

(* A line that holds no bytes.                                             *)
LEMMA PlainLine ==
  ASSUME NEW label \in Names, NEW f \in Nat, address \in 0..META
  PROVE  /\ Sound(Line(label, f)) /\ Line(label, f).code = <<>> /\ Line(label, f).address = address
         /\ Line(label, f).label = label /\ Line(label, f).file = f /\ Line(label, f).alias = FALSE
  <1>1. PICK l : l = Line(label, f)
    OBVIOUS
  <1>2. address \in Nat /\ address <= META
    BY MetaType
  <1>3. /\ l.code = <<>> /\ l.address = address /\ l.label = label /\ l.file = f /\ l.alias = FALSE
        /\ l.params = <<>>
    BY <1>1 DEF Line
  <1>4. l \in LineType
    <2>1. "none" \in Immediates
      BY DEF Immediates
    <2> QED BY <1>1, <1>2, <2>1 DEF Line, LineType
  <1>5. l.address + Len(l.code) <= META
    BY <1>2, <1>3, MetaType
  <1>6. Refers(l) = {}
    BY <1>3 DEF Refers
  <1> QED BY <1>1, <1>3, <1>4, <1>5, <1>6 DEF Sound

(* The same line at another address, or an alias.                          *)
LEMMA MovedLine ==
  ASSUME NEW l, NEW v \in 0..META, Sound(l), l.code = <<>>
  PROVE  /\ Sound([l EXCEPT !.address = v]) /\ [l EXCEPT !.address = v].code = <<>>
         /\ [l EXCEPT !.address = v].label = l.label /\ [l EXCEPT !.address = v].file = l.file
  <1>1. PICK m : m = [l EXCEPT !.address = v]
    OBVIOUS
  <1>2. v \in Nat /\ v <= META
    BY MetaType
  <1>3. l \in LineType
    BY DEF Sound
  <1>4. /\ m \in LineType /\ m.code = <<>> /\ m.label = l.label /\ m.file = l.file /\ m.address = v
    BY <1>1, <1>2, <1>3 DEF LineType
  <1>5. m.address + Len(m.code) <= META
    BY <1>2, <1>4, MetaType
  <1>6. Refers(m) = {}
    BY <1>4 DEF Refers
  <1> QED BY <1>1, <1>4, <1>5, <1>6 DEF Sound

LEMMA AliasLine ==
  ASSUME NEW l, NEW v \in BOOLEAN, Sound(l), l.code = <<>>
  PROVE  /\ Sound([l EXCEPT !.alias = v]) /\ [l EXCEPT !.alias = v].code = <<>>
         /\ [l EXCEPT !.alias = v].label = l.label /\ [l EXCEPT !.alias = v].file = l.file
  <1>1. PICK m : m = [l EXCEPT !.alias = v]
    OBVIOUS
  <1>2. l \in LineType /\ l.address + Len(l.code) <= META
    BY DEF Sound
  <1>3. /\ m \in LineType /\ m.code = <<>> /\ m.label = l.label /\ m.file = l.file /\ m.address = l.address
    BY <1>1, <1>2 DEF LineType
  <1>4. m.address + Len(m.code) <= META
    BY <1>2, <1>3
  <1>5. Refers(m) = {}
    BY <1>3 DEF Refers
  <1> QED BY <1>1, <1>3, <1>4, <1>5 DEF Sound

-------------------------------------------------------------------------------
(* What pass 1 reads from.                                                 *)
AllLines == UNION Sources
FileType ==
  [file : Nat, body : Seq(AllLines), args : Seq(Operand), inMacro : BOOLEAN, recording : Names]
StackOpen(S, L) == S \in Seq(FileType) /\ \A k \in 1..Len(S) : FileOpen(L, S[k].file)

ReadingInv ==
  /\ source \subseteq AllLines
  /\ \A name \in DOMAIN macros : macros[name] \in Seq(AllLines)
  /\ StackOpen(stack, lines)
  /\ phase = "pass1" => Len(stack) # 0
  /\ address \in 0..META
  /\ embedlist \in Seq(EmbedEntry)

LEMMA AllLinesAre == \A src \in AllLines : IsSource(src)
  BY SourcesAssumption DEF AllLines

LEMMA StackParts ==
  ASSUME ReadingInv, Reading
  PROVE  /\ Top \in FileType /\ FileOpen(lines, Top.file) /\ StackOpen(Above, lines)
  <1>1. PICK n : n = Len(stack)
    OBVIOUS
  <1>2. stack \in Seq(FileType) /\ n \in Nat /\ n # 0 /\ \A k \in 1..n : FileOpen(lines, stack[k].file)
    BY <1>1, LenProperties DEF ReadingInv, StackOpen, Reading
  <1>3. n \in 1..n /\ Top = stack[n]
    BY <1>1, <1>2 DEF Top, Last
  <1>4. PICK s : s = Above
    OBVIOUS
  <1>5. s \in Seq(FileType) /\ Len(s) = n - 1 /\ \A k \in 1..n - 1 : s[k] = stack[k]
    <2>1. s = SubSeq(stack, 1, n - 1)
      BY <1>1, <1>4 DEF Above
    <2>2. n - 1 \in 0..n
      BY <1>2
    <2>3. s \in Seq(FileType)
      BY <1>1, <1>2, <2>1, <2>2, SubSeqProperties
    <2> QED BY <1>1, <1>2, <2>1, <2>2, <2>3, SubSeqProperties
  <1>6. \A k \in 1..n - 1 : k \in 1..n
    BY <1>2
  <1>7. stack[n] \in FileType /\ FileOpen(lines, stack[n].file)
    BY <1>1, <1>2, <1>3
  <1>8. StackOpen(s, lines)
    BY <1>2, <1>5, <1>6 DEF StackOpen
  <1> QED BY <1>3, <1>4, <1>7, <1>8

LEMMA StackMore ==
  ASSUME NEW S, NEW L, NEW A, NEW f \in FileType, StackOpen(S, L), StaysOpen(L, A), FileOpen(A, f.file)
  PROVE  StackOpen(Append(S, f), A) /\ Len(Append(S, f)) # 0
  <1>1. PICK n, s : n = Len(S) /\ s = Append(S, f)
    OBVIOUS
  <1>2. S \in Seq(FileType)
    BY DEF StackOpen
  <1>3. n \in Nat /\ s \in Seq(FileType) /\ Len(s) = n + 1 /\ s[n + 1] = f /\ \A k \in 1..n : s[k] = S[k]
    BY <1>1, <1>2, AppendProperties, LenProperties
  <1>4. n + 1 # 0 /\ \A k \in 1..n + 1 : k = n + 1 \/ k \in 1..n
    BY <1>3
  <1>5. \A k \in 1..n : FileOpen(A, S[k].file)
    BY <1>1 DEF StackOpen, StaysOpen
  <1> QED BY <1>1, <1>3, <1>4, <1>5 DEF StackOpen

(* The parameters of a macro's call take the place of the {n}.             *)
LEMMA ExpandedLine ==
  ASSUME NEW src, IsSource(src), Top \in FileType
  PROVE  IsSource(Expanded(src))
  <1>1. PICK p, t : p = src.params /\ t = Top.args
    OBVIOUS
  <1>2. p \in Seq(Operand \cup ArgumentOperand) /\ t \in Seq(Operand)
    BY <1>1 DEF IsSource, FileType
  <1>3. PICK q : q = [k \in DOMAIN p |-> Argument(p[k])]
    OBVIOUS
  <1>4. DOMAIN p = 1..Len(p) /\ Len(p) \in Nat /\ DOMAIN t = 1..Len(t)
    BY <1>2, LenProperties
  <1>5. \A k \in 1..Len(p) : Argument(p[k]) \in Operand \cup ArgumentOperand
    BY <1>1, <1>2, <1>4 DEF Argument
  <1>6. q \in Seq(Operand \cup ArgumentOperand) /\ Len(q) = Len(p)
    BY <1>3, <1>4, <1>5
  <1>7. PICK x : x = Expanded(src)
    OBVIOUS
  <1>8. x = [src EXCEPT !.params = q]
    BY <1>1, <1>3, <1>7 DEF Expanded
  <1>9. /\ src.kind \in DOMAIN Fields /\ {"label", "kind", "params"} \cup Fields[src.kind] \subseteq DOMAIN src
    BY DEF IsSource
  <1>10. DOMAIN x = DOMAIN src /\ x.params = q /\ \A f \in DOMAIN src : f # "params" => x[f] = src[f]
    BY <1>8, <1>9
  <1>11. x.kind = src.kind /\ x.label = src.label
    BY <1>9, <1>10
  <1>12. src.kind = "cpu" => x.instr = src.instr /\ x.ope = src.ope /\ x.reg = src.reg
    BY <1>9, <1>10 DEF Fields
  <1>13. src.kind \in {"align", "org", "space"} => x.value = src.value
    BY <1>9, <1>10 DEF Fields
  <1>14. src.kind = "embed" => x.rombank = src.rombank /\ x.rambank = src.rambank
    BY <1>9, <1>10 DEF Fields
  <1>15. /\ x.kind \in DOMAIN Fields /\ {"label", "kind", "params"} \cup Fields[x.kind] \subseteq DOMAIN x
         /\ x.label \in STRING \ {FILELABEL}
    BY <1>9, <1>10, <1>11 DEF IsSource
  <1>16. x.kind = "cpu" =>
           /\ Pattern(x.instr) \in DOMAIN Immediate
           /\ x.ope \in Byte /\ x.reg \in Byte
           /\ Len(x.params) = IF ImmOf(x) = "none" THEN 0 ELSE 1
    BY <1>1, <1>6, <1>10, <1>11, <1>12 DEF IsSource, ImmOf
  <1>17. x.kind \in {"align", "org", "space"} => x.value \in Int
    BY <1>11, <1>13 DEF IsSource
  <1>18. x.kind = "embed" => x.rombank \in Byte /\ x.rambank \in Byte
    BY <1>11, <1>14 DEF IsSource
  <1> QED BY <1>6, <1>7, <1>10, <1>15, <1>16, <1>17, <1>18 DEF IsSource

LEMMA NextLinesAre ==
  ASSUME ReadingInv, Reading, NEW src \in NextLines
  PROVE  src \in AllLines /\ (Top.inMacro => Len(Top.body) # 0)
  <1>1. Top \in FileType
    BY StackParts
  <1>2. CASE Top.inMacro
    <2>1. Top.body \in Seq(AllLines) /\ Top.body # <<>> /\ src = Head(Top.body)
      BY <1>1, <1>2 DEF NextLines, FileType
    <2> QED BY <2>1, EmptySeq, HeadTailProperties
  <1>3. CASE ~Top.inMacro
    BY <1>3 DEF NextLines, ReadingInv
  <1> QED BY <1>2, <1>3

LEMMA ParsedLine ==
  ASSUME ReadingInv, NEW src \in ParsedLines
  PROVE  Reading /\ IsSource(src) /\ (Top.inMacro => Len(Top.body) # 0)
  <1>1. Reading
    BY DEF ParsedLines
  <1>2. Top \in FileType
    BY <1>1, StackParts
  <1>3. CASE Top.inMacro
    <2>1. PICK s \in NextLines : src = Expanded(s)
      BY <1>1, <1>3 DEF ParsedLines
    <2>2. s \in AllLines /\ Len(Top.body) # 0
      BY <1>1, <1>3, NextLinesAre
    <2>3. IsSource(s)
      BY <2>2, AllLinesAre
    <2> QED BY <1>1, <1>2, <2>1, <2>2, <2>3, ExpandedLine
  <1>4. CASE ~Top.inMacro
    <2>1. src \in NextLines
      BY <1>1, <1>4 DEF ParsedLines
    <2> QED BY <1>1, <1>4, <2>1, NextLinesAre, AllLinesAre
  <1> QED BY <1>3, <1>4

LEMMA AdvancedType ==
  ASSUME ReadingInv, Reading, Top.inMacro => Len(Top.body) # 0
  PROVE  Advanced \in FileType /\ Advanced.file = Top.file
  <1>1. PICK t : t = Top
    OBVIOUS
  <1>2. t \in FileType
    BY <1>1, StackParts
  <1>3. CASE t.inMacro
    <2>1. t.body \in Seq(AllLines) /\ t.body # <<>>
      BY <1>1, <1>2, <1>3, EmptySeq DEF FileType
    <2>2. Tail(t.body) \in Seq(AllLines)
      BY <2>1, HeadTailProperties
    <2>3. PICK d : d = [t EXCEPT !.body = Tail(t.body)]
      OBVIOUS
    <2>4. d \in FileType /\ d.file = t.file
      BY <1>2, <2>2, <2>3 DEF FileType
    <2> QED BY <1>1, <1>3, <2>3, <2>4 DEF Advanced
  <1>4. CASE ~t.inMacro
    BY <1>1, <1>2, <1>4 DEF Advanced
  <1> QED BY <1>3, <1>4

LEMMA RecordingType ==
  ASSUME NEW f \in FileType, NEW name \in Names
  PROVE  [f EXCEPT !.recording = name] \in FileType /\ [f EXCEPT !.recording = name].file = f.file
  BY DEF FileType

-------------------------------------------------------------------------------
(* The bytes of a line.                                                    *)
LEMMA ByteIs == Byte = 0..255
  BY DEF Byte

LEMMA WordType ==
  ASSUME NEW v \in Int
  PROVE  Word(v) \in Seq(Byte) /\ Len(Word(v)) = 2 /\ <<v % 256>> \in Seq(Byte) /\ Len(<<v % 256>>) = 1
  <1>1. PICK x, y : x = v % 256 /\ y = (v \div 256) % 256
    OBVIOUS
  <1>2. x \in 0..255 /\ y \in 0..255
    <2>1. x \in 0..255
      BY <1>1
    <2>2. v \div 256 \in Int
      OBVIOUS
    <2>3. \A z \in Int : z % 256 \in 0..255
      OBVIOUS
    <2> QED BY <1>1, <2>1, <2>2, <2>3
  <1>3. x \in Byte /\ y \in Byte
    BY <1>2, ByteIs
  <1>4. <<x, y>> \in Seq(Byte) /\ Len(<<x, y>>) = 2 /\ <<x>> \in Seq(Byte) /\ Len(<<x>>) = 1
    BY <1>3
  <1> QED BY <1>1, <1>4 DEF Word

LEMMA EncodeType ==
  ASSUME NEW imm \in {"b", "r", "R", "w"}, NEW v \in Int, NEW next \in Int
  PROVE  Encode(imm, v, next) \in Seq(Byte) /\ Len(Encode(imm, v, next)) = Width[imm]
  <1>1. v - next \in Int
    OBVIOUS
  <1>2. CASE imm = "b"
    BY <1>2, WordType DEF Encode, Width
  <1>3. CASE imm = "r"
    BY <1>1, <1>3, WordType DEF Encode, Width
  <1>4. CASE imm = "R"
    BY <1>1, <1>4, WordType DEF Encode, Width
  <1>5. CASE imm = "w"
    BY <1>5, WordType DEF Encode, Width
  <1> QED BY <1>2, <1>3, <1>4, <1>5

LEMMA PatternSizes ==
  ASSUME NEW p \in DOMAIN Immediate
  PROVE  /\ Immediate[p] \in {"none", "b", "r", "R", "w"}
         /\ Width[Immediate[p]] \in 0..2 /\ SizeOf[p] - Width[Immediate[p]] \in {1, 2} /\ SizeOf[p] \in Nat
         /\ Immediate[p] = "none" => Width[Immediate[p]] = 0
  BY DEF Immediate, Width, SizeOf

LEMMA Opcode ==
  ASSUME NEW x \in Byte, NEW y \in Byte, NEW n \in {1, 2}
  PROVE  SubSeq(<<x, y>>, 1, n) \in Seq(Byte) /\ Len(SubSeq(<<x, y>>, 1, n)) = n
  <1>1. PICK s : s = <<x, y>>
    OBVIOUS
  <1>2. s[1] \in Byte /\ s[2] \in Byte
    BY <1>1
  <1>3. \A i \in 1..n : s[i] \in Byte
    BY <1>2
  <1>4. n \in Int /\ 1 <= n /\ n - 1 + 1 = n
    OBVIOUS
  <1>5. SubSeq(s, 1, n) \in Seq(Byte) /\ Len(SubSeq(s, 1, n)) = IF 1 <= n THEN n - 1 + 1 ELSE 0
    BY <1>3, <1>4, SubSeqProperties
  <1> QED BY <1>1, <1>4, <1>5

LEMMA ZeroBytes ==
  ASSUME NEW n \in Nat
  PROVE  [k \in 1..n |-> 0] \in Seq(Byte) /\ Len([k \in 1..n |-> 0]) = n
  <1>1. 0 \in Byte
    BY ByteIs
  <1> QED BY <1>1

LEMMA JoinedLength ==
  ASSUME NEW s \in Seq(Byte), NEW t \in Seq(Byte)
  PROVE  s \o t \in Seq(Byte) /\ Len(s \o t) = Len(s) + Len(t)
  BY ConcatProperties

Resolved(src) == IsSource(src) /\ src.params \in Seq(Operand)

LEMMA OperandIs == \A p \in Operand : p.type \in {"value", "label"} /\ (p.type = "value" => p.value \in Int)
  BY DEF Operand, ValueOperand, LabelOperand

LEMMA CodedType ==
  ASSUME NEW src, Resolved(src), src.kind = "cpu", address \in 0..META
  PROVE  /\ Coded(src) \in Seq(Byte) /\ ImmOf(src) \in {"none", "b", "r", "R", "w"}
         /\ ImmOf(src) # "none" => Len(src.params) = 1
         /\ ImmOf(src) = "none" => Len(src.params) = 0
         /\ Width[ImmOf(src)] <= Len(Coded(src))
  <1>1. PICK p, imm, w, size, a : /\ p = Pattern(src.instr) /\ imm = ImmOf(src) /\ w = Width[imm]
                                  /\ size = Size(src.instr) /\ a = address
    OBVIOUS
  <1>2. /\ p \in DOMAIN Immediate /\ src.ope \in Byte /\ src.reg \in Byte
        /\ Len(src.params) = IF imm = "none" THEN 0 ELSE 1
    BY <1>1 DEF Resolved, IsSource
  <1>3. /\ imm \in {"none", "b", "r", "R", "w"} /\ w \in 0..2 /\ size - w \in {1, 2} /\ size \in Nat
        /\ imm = "none" => w = 0
    <2>1. imm = Immediate[p] /\ size = SizeOf[p]
      BY <1>1 DEF ImmOf, Size
    <2> QED BY <1>1, <1>2, <2>1, PatternSizes
  <1>4. PICK n, h : n = size - w /\ h = SubSeq(<<src.ope, src.reg>>, 1, size - w)
    OBVIOUS
  <1>5. h \in Seq(Byte) /\ Len(h) = n /\ n \in {1, 2}
    BY <1>2, <1>3, <1>4, Opcode
  <1>6. PICK t : t = IF imm = "none" THEN <<>>
                     ELSE IF IsLabel(src.params[1]) THEN [k \in 1..w |-> 0]
                     ELSE Encode(imm, src.params[1].value, a + size)
    OBVIOUS
  <1>7. t \in Seq(Byte) /\ Len(t) = w
    <2>1. CASE imm = "none"
      BY <1>3, <1>6, <2>1
    <2>2. CASE imm # "none" /\ IsLabel(src.params[1])
      <3>1. t = [k \in 1..w |-> 0] /\ w \in Nat
        BY <1>3, <1>6, <2>2
      <3> QED BY <3>1, ZeroBytes
    <2>3. CASE imm # "none" /\ ~IsLabel(src.params[1])
      <3>1. src.params \in Seq(Operand) /\ Len(src.params) = 1
        BY <1>2, <2>3 DEF Resolved
      <3>2. src.params[1] \in Operand
        BY <3>1
      <3>3. src.params[1].value \in Int
        BY <2>3, <3>2, OperandIs DEF IsLabel
      <3>4. a + size \in Int /\ imm \in {"b", "r", "R", "w"}
        BY <1>1, <1>3, <2>3
      <3> QED BY <1>1, <1>6, <2>3, <3>3, <3>4, EncodeType
    <2> QED BY <2>1, <2>2, <2>3
  <1>8. Coded(src) = h \o t
    BY <1>1, <1>4, <1>6 DEF Coded
  <1>9. h \o t \in Seq(Byte) /\ Len(h \o t) = n + w
    BY <1>5, <1>7, JoinedLength
  <1>10. w <= n + w
    BY <1>3, <1>5
  <1> QED BY <1>1, <1>2, <1>3, <1>8, <1>9, <1>10

LEMMA PairsLength ==
  ASSUME NEW s \in Seq(Seq(Byte)), \A k \in 1..Len(s) : Len(s[k]) = 2
  PROVE  Len(FlattenSeq(s)) = 2 * Len(s)
  <1> DEFINE Pairs(t) == (\A k \in 1..Len(t) : Len(t[k]) = 2) => Len(FlattenSeq(t)) = 2 * Len(t)
             Good == {n \in Nat : \A t \in Seq(Seq(Byte)) : Len(t) = n => Pairs(t)}
  <1>1. 0 \in Good
    <2> SUFFICES ASSUME NEW t \in Seq(Seq(Byte)), Len(t) = 0 PROVE Pairs(t)
      OBVIOUS
    <2>1. t = <<>>
      BY EmptySeq
    <2> QED BY <2>1, FlattenEmpty
  <1>2. ASSUME NEW n \in Good PROVE n + 1 \in Good
    <2> SUFFICES ASSUME NEW t \in Seq(Seq(Byte)), Len(t) = n + 1, \A k \in 1..Len(t) : Len(t[k]) = 2
                 PROVE  Len(FlattenSeq(t)) = 2 * Len(t)
      BY <1>2
    <2>1. n \in Nat
      BY <1>2
    <2>2. PICK r \in Seq(Seq(Byte)), x \in Seq(Byte) : t = Append(r, x) /\ Len(r) = n
      BY <2>1, OneMore
    <2>3. t[n + 1] = x /\ \A k \in 1..n : t[k] = r[k]
      BY <2>1, <2>2, AppendProperties
    <2>4. n + 1 \in 1..n + 1 /\ \A k \in 1..n : k \in 1..n + 1
      BY <2>1
    <2>5. Len(x) = 2 /\ \A k \in 1..Len(r) : Len(r[k]) = 2
      BY <2>2, <2>3, <2>4
    <2>6. Len(FlattenSeq(r)) = 2 * Len(r)
      BY <1>2, <2>2, <2>5
    <2>7. PICK f : f = FlattenSeq(r)
      OBVIOUS
    <2>8. f \in Seq(Byte) /\ FlattenSeq(t) = f \o x
      BY <2>2, <2>7, FlattenAppend, FlattenType
    <2>9. Len(f \o x) = Len(f) + Len(x)
      BY <2>8, JoinedLength
    <2> QED BY <2>1, <2>2, <2>5, <2>6, <2>7, <2>8, <2>9
  <1> HIDE DEF Good
  <1>3. Good = Nat
    BY <1>1, <1>2, SetInduction DEF Good
  <1>4. Len(s) \in Nat
    OBVIOUS
  <1>5. Pairs(s)
    BY <1>3, <1>4 DEF Good
  <1> QED BY <1>5

LEMMA DataType ==
  ASSUME NEW src, Resolved(src), src.kind \in {"db", "dw"},
         src.kind = "db" => \A k \in DOMAIN src.params : ~IsLabel(src.params[k])
  PROVE  /\ DataOf(src) \in Seq(Byte)
         /\ src.kind = "dw" => Len(DataOf(src)) = 2 * Len(src.params)
  <1>1. PICK p, n : p = src.params /\ n = Len(p)
    OBVIOUS
  <1>2. p \in Seq(Operand) /\ n \in Nat /\ DOMAIN p = 1..n
    BY <1>1, LenProperties DEF Resolved
  <1>3. PICK s : s = [k \in DOMAIN p |->
                       IF src.kind = "db" THEN <<p[k].value % 256>>
                       ELSE IF IsLabel(p[k]) THEN <<0, 0>> ELSE Word(p[k].value)]
    OBVIOUS
  <1>4. ASSUME NEW k \in 1..n
        PROVE  s[k] \in Seq(Byte) /\ (src.kind = "dw" => Len(s[k]) = 2)
    <2>1. p[k] \in Operand
      BY <1>1, <1>2, <1>4
    <2>2. IsLabel(p[k]) \/ p[k].value \in Int
      BY <2>1, OperandIs DEF IsLabel
    <2>3. CASE src.kind = "db"
      <3>1. ~IsLabel(p[k])
        BY <1>1, <1>2, <1>4, <2>3
      <3> QED BY <1>2, <1>3, <1>4, <2>2, <2>3, <3>1, WordType
    <2>4. CASE src.kind # "db" /\ IsLabel(p[k])
      <3>1. 0 \in Byte
        BY ByteIs
      <3>2. s[k] = <<0, 0>>
        BY <1>2, <1>3, <1>4, <2>4
      <3> QED BY <3>1, <3>2
    <2>5. CASE src.kind # "db" /\ ~IsLabel(p[k])
      <3>1. s[k] = Word(p[k].value)
        BY <1>2, <1>3, <1>4, <2>5
      <3> QED BY <2>2, <2>5, <3>1, WordType
    <2> QED BY <2>3, <2>4, <2>5
  <1>5. s \in Seq(Seq(Byte)) /\ Len(s) = n
    BY <1>2, <1>3, <1>4
  <1>6. DataOf(src) = FlattenSeq(s)
    BY <1>1, <1>3 DEF DataOf
  <1>7. ASSUME src.kind = "dw" PROVE Len(FlattenSeq(s)) = 2 * n
    BY <1>4, <1>5, <1>7, PairsLength
  <1> QED BY <1>1, <1>5, <1>6, <1>7, FlattenType

-------------------------------------------------------------------------------
(* What an accepted line is.                                               *)
LEMMA AcceptedFacts ==
  ASSUME NEW src, LineError(src) = OK
  PROVE  /\ \A k \in DOMAIN src.params : src.params[k].type # "arg"
         /\ ~Duplicate(src)
         /\ src.kind = "cpu" => CpuError(src) = OK
         /\ src.kind = "db" => \A k \in DOMAIN src.params : ~IsLabel(src.params[k])
         /\ src.kind \in {"cpu", "db", "dw"} => ~Beyond(src)
         /\ src.kind = "align" => Alignment(src) \in Alignments
         /\ src.kind = "space" => ~(src.value <= 0) /\ ~(src.value + address >= 65536)
         /\ src.kind = "call" => src.name \in DOMAIN macros
         /\ src.kind = "embed" => EmbedError(src) = OK
  BY DEF LineError, OK

LEMMA AcceptedResolved ==
  ASSUME NEW src, IsSource(src), LineError(src) = OK
  PROVE  Resolved(src)
  <1>1. PICK p, n : p = src.params /\ n = Len(p)
    OBVIOUS
  <1>2. p \in Seq(Operand \cup ArgumentOperand) /\ n \in Nat /\ DOMAIN p = 1..n
    BY <1>1, LenProperties DEF IsSource
  <1>3. \A k \in 1..n : p[k] \in Operand
    <2>1. \A k \in 1..n : p[k].type # "arg"
      BY <1>1, <1>2, AcceptedFacts
    <2>2. \A x \in ArgumentOperand : x.type = "arg"
      BY DEF ArgumentOperand
    <2> QED BY <1>2, <2>1, <2>2
  <1>4. p \in Seq(Operand)
    BY <1>1, <1>2, <1>3
  <1> QED BY <1>1, <1>4 DEF Resolved

LEMMA LabelName ==
  ASSUME NEW src, IsSource(src)
  PROVE  src.label \in Names /\ src.label # FILELABEL
  BY DEF IsSource, Names

(* The line that is emitted.                                               *)
LEMMA EmittedSound ==
  ASSUME NEW src, ReadingInv, Reading, Resolved(src), LineError(src) = OK, src.kind \in {"cpu", "db", "dw"}
  PROVE  /\ Sound(Emitted(src)) /\ Emitted(src).label = src.label /\ Emitted(src).file = Top.file
         /\ address + Len(CodeOf(src)) \in 0..META
  <1>1. PICK c, p, l, e : /\ c = CodeOf(src) /\ p = src.params /\ l = Line(src.label, Top.file)
                          /\ e = IF src.kind = "cpu" THEN ImmOf(src) ELSE src.kind
    OBVIOUS
  <1>2. address \in 0..META /\ address \in Nat
    BY MetaType DEF ReadingInv
  <1>3. p \in Seq(Operand) /\ IsSource(src)
    BY <1>1 DEF Resolved
  <1>4. /\ c \in Seq(Byte) /\ e \in Immediates
        /\ src.kind = "cpu" => /\ e # "none" => Len(p) = 1
                               /\ e = "none" => Len(p) = 0
                               /\ Width[e] <= Len(c)
        /\ src.kind = "dw" => Len(c) = 2 * Len(p)
    <2>1. CASE src.kind = "cpu"
      <3>1. c = Coded(src) /\ e = ImmOf(src)
        BY <1>1, <2>1 DEF CodeOf
      <3>2. /\ c \in Seq(Byte) /\ e \in {"none", "b", "r", "R", "w"}
            /\ e # "none" => Len(src.params) = 1
            /\ e = "none" => Len(src.params) = 0
            /\ Width[e] <= Len(c)
        BY <1>2, <2>1, <3>1, CodedType
      <3> QED BY <1>1, <2>1, <3>2 DEF Immediates
    <2>2. CASE src.kind \in {"db", "dw"}
      <3>1. c = DataOf(src) /\ e = src.kind
        BY <1>1, <2>2 DEF CodeOf
      <3>2. src.kind = "db" => \A k \in DOMAIN src.params : ~IsLabel(src.params[k])
        BY AcceptedFacts
      <3>3. c \in Seq(Byte) /\ (src.kind = "dw" => Len(c) = 2 * Len(src.params))
        BY SMTT(30), <2>2, <3>1, <3>2, DataType
      <3> QED BY <1>1, <2>2, <3>1, <3>3 DEF Immediates
    <2> QED BY <2>1, <2>2
  <1>5. address + Len(c) \in Nat /\ address + Len(c) <= META /\ Len(c) \in Nat
    <2>1. Len(c) \in Nat
      BY <1>4, LenProperties
    <2>2. ~(address + Len(c) > 65535)
      BY <1>1, AcceptedFacts DEF Beyond
    <2> QED BY <1>2, <2>1, <2>2 DEF META
  <1>6. src.label \in Names /\ Top.file \in Nat
    <2>1. Top \in FileType
      BY StackParts
    <2> QED BY <1>3, <2>1, LabelName DEF FileType
  <1>7. /\ Sound(l) /\ l.address = address /\ l.label = src.label /\ l.file = Top.file
    BY <1>1, <1>2, <1>6, PlainLine
  <1>8. PICK d1 : d1 = [l EXCEPT !.code = c]
    OBVIOUS
  <1>9. d1 \in LineType /\ d1.code = c /\ d1.address = address /\ d1.label = src.label /\ d1.file = Top.file
    BY <1>4, <1>7, <1>8 DEF Sound, LineType
  <1>10. PICK d2 : d2 = [d1 EXCEPT !.params = p]
    OBVIOUS
  <1>11. /\ d2 \in LineType /\ d2.code = c /\ d2.address = address /\ d2.label = src.label
         /\ d2.file = Top.file /\ d2.params = p
    BY <1>3, <1>9, <1>10 DEF LineType
  <1>12. PICK d3 : d3 = [d2 EXCEPT !.imm = e]
    OBVIOUS
  <1>13. /\ d3 \in LineType /\ d3.code = c /\ d3.address = address /\ d3.label = src.label
         /\ d3.file = Top.file /\ d3.params = p /\ d3.imm = e
    BY <1>4, <1>11, <1>12 DEF LineType
  <1>14. d3 = Emitted(src)
    BY <1>1, <1>8, <1>10, <1>12, Zenon DEF Emitted
  <1>15. Refers(d3) # {} => Room(d3)
    <2> SUFFICES ASSUME Refers(d3) # {} PROVE Room(d3)
      OBVIOUS
    <2>1. PICK k \in DOMAIN p : IsLabel(p[k])
      BY <1>13 DEF Refers
    <2>2. k \in 1..Len(p) /\ Len(p) \in Nat
      BY <1>3, <2>1, LenProperties
    <2>3. CASE src.kind = "cpu"
      <3>1. e # "none" /\ Len(p) = 1 /\ k = 1
        BY <1>4, <2>2, <2>3
      <3>2. e # "b"
        <4>1. CpuError(src) = OK
          BY <2>3, AcceptedFacts
        <4>2. ImmOf(src) = e
          BY <1>1, <2>3
        <4>3. IsLabel(src.params[1])
          BY <1>1, <2>1, <3>1
        <4> QED BY <4>1, <4>2, <4>3 DEF CpuError, OK
      <3>3. e \in {"w", "R", "r"}
        <4>1. e = ImmOf(src)
          BY <1>1, <2>3
        <4>2. e \in {"none", "b", "r", "R", "w"}
          BY <1>2, <2>3, <4>1, CodedType
        <4> QED BY <3>1, <3>2, <4>2
      <3>4. Width[e] <= Len(c)
        BY <1>4, <2>3
      <3> QED BY <1>13, <3>1, <3>3, <3>4 DEF Room
    <2>4. CASE src.kind = "db"
      BY <1>1, <2>1, <2>4, AcceptedFacts
    <2>5. CASE src.kind = "dw"
      <3>1. e = "dw" /\ Len(c) = 2 * Len(p)
        BY <1>1, <1>4, <2>5
      <3> QED BY <1>13, <3>1 DEF Room
    <2> QED BY <2>3, <2>4, <2>5
  <1>16. Sound(d3)
    BY <1>5, <1>13, <1>15 DEF Sound
  <1>17. address + Len(c) \in 0..META
    BY <1>5, MetaType
  <1> QED BY <1>1, <1>13, <1>14, <1>16, <1>17

-------------------------------------------------------------------------------
(* The steps of pass 1.                                                    *)
Pass1Inv == ReadingInv /\ Table(lines, map)
TableStep == Table(lines', map') /\ StaysOpen(lines, lines')
StackStep == StackOpen(stack', lines') /\ Len(stack') # 0

(* What the first pass leaves as it is, apart from the lines and the stack.*)
Others == source' \subseteq AllLines /\ (\A name \in DOMAIN macros' : macros'[name] \in Seq(AllLines))
            /\ address' \in 0..META /\ embedlist' \in Seq(EmbedEntry)

LEMMA StepInv ==
  ASSUME TableStep, StackStep, Others
  PROVE  Pass1Inv'
  BY DEF TableStep, StackStep, Others, Pass1Inv, ReadingInv

LEMMA SameTable ==
  ASSUME Pass1Inv, lines' = lines, map' = map
  PROVE  TableStep
  BY DEF TableStep, Pass1Inv, StaysOpen

LEMMA FreshLine ==
  ASSUME NEW src, NEW l, ~Duplicate(src), l.label = src.label, Pass1Inv
  PROVE  Fresh(lines, l)
  <1>1. DOMAIN lines = 1..Len(lines)
    BY LenProperties DEF Pass1Inv, Table, LinesAre
  <1> QED BY <1>1 DEF Duplicate, Fresh, Unrepeated

LEMMA Committed ==
  ASSUME NEW l, Pass1Inv, Sound(l), FileOpen(lines, l.file), Fresh(lines, l), Commit(l)
  PROVE  TableStep
  <1>1. CASE Overlaps(l)
    BY <1>1, SameTable DEF Commit
  <1>2. CASE ~Overlaps(l)
    <2>1. lines' = Append(lines, l) /\ map' = Over(Bytes(l), map)
      BY <1>2 DEF Commit
    <2>2. Table(lines, map)
      BY DEF Pass1Inv
    <2>3. LinesAre(lines, map) /\ lines \in Seq(LineType) /\ l \in LineType
      BY <2>2 DEF Table, LinesAre, Sound
    <2>4. DOMAIN Bytes(l) \cap DOMAIN map = {}
      BY <1>2 DEF Overlaps
    <2>5. LinesAre(Append(lines, l), Over(Bytes(l), map))
      BY <2>3, <2>4, LineAdded
    <2>6. FileOpen(Append(lines, l), l.file)
      BY <2>3, OpenAfter
    <2>7. Table(Append(lines, l), Over(Bytes(l), map)) /\ StaysOpen(lines, Append(lines, l))
      BY <2>2, <2>5, <2>6, OneMoreLine
    <2> QED BY <2>1, <2>7 DEF TableStep
  <1> QED BY <1>1, <1>2

LEMMA NextLineStep ==
  ASSUME Pass1Inv, Reading, Top.inMacro => Len(Top.body) # 0, TableStep, NextLine
  PROVE  StackStep
  <1>1. ReadingInv
    BY DEF Pass1Inv
  <1>2. FileOpen(lines, Top.file) /\ StackOpen(Above, lines)
    BY <1>1, StackParts
  <1>3. Advanced \in FileType /\ Advanced.file = Top.file
    BY <1>1, AdvancedType
  <1>4. StaysOpen(lines, lines') /\ FileOpen(lines', Advanced.file)
    BY <1>2, <1>3 DEF TableStep, StaysOpen
  <1>5. stack' = Append(Above, Advanced)
    BY DEF NextLine
  <1>6. PICK s, f : s = Above /\ f = Advanced
    OBVIOUS
  <1>7. StackOpen(Append(s, f), lines') /\ Len(Append(s, f)) # 0
    BY <1>2, <1>3, <1>4, <1>6, StackMore
  <1> QED BY <1>5, <1>6, <1>7 DEF StackStep

LEMMA SameOthers ==
  ASSUME Pass1Inv, UNCHANGED <<source, macros, embedlist>>, address' \in 0..META
  PROVE  Others
  BY DEF Pass1Inv, ReadingInv, Others

(* A line of pass 1 with its label in the file being read.                 *)
OwnLine(src, l) == l.label = src.label /\ l.file = Top.file

LEMMA LineStep ==
  ASSUME NEW src, NEW l, Pass1Inv, Reading, Top.inMacro => Len(Top.body) # 0, LineError(src) = OK,
         Sound(l), OwnLine(src, l), Commit(l), NextLine
  PROVE  TableStep /\ StackStep
  <1>1. FileOpen(lines, l.file)
    <2>1. FileOpen(lines, Top.file)
      BY StackParts DEF Pass1Inv
    <2> QED BY <2>1 DEF OwnLine
  <1>2. Fresh(lines, l)
    BY FreshLine, AcceptedFacts DEF OwnLine
  <1>3. TableStep
    BY <1>1, <1>2, Committed
  <1> QED BY <1>3, NextLineStep

(* The line without bytes of a source line.                                *)
LEMMA PlainOf ==
  ASSUME NEW src, Pass1Inv, Reading, IsSource(src)
  PROVE  /\ address \in 0..META /\ src.label \in Names /\ Top.file \in Nat
         /\ Sound(Line(src.label, Top.file)) /\ Line(src.label, Top.file).code = <<>>
         /\ OwnLine(src, Line(src.label, Top.file))
  <1>1. ReadingInv
    BY DEF Pass1Inv
  <1>2. address \in 0..META
    BY <1>1 DEF ReadingInv
  <1>3. Top.file \in Nat
    <2>1. Top \in FileType
      BY <1>1, StackParts
    <2> QED BY <2>1 DEF FileType
  <1>4. src.label \in Names
    BY LabelName
  <1>5. PICK x, f : x = src.label /\ f = Top.file
    OBVIOUS
  <1>6. Sound(Line(x, f)) /\ Line(x, f).code = <<>> /\ Line(x, f).label = x /\ Line(x, f).file = f
    BY <1>2, <1>3, <1>4, <1>5, PlainLine
  <1> QED BY <1>2, <1>3, <1>4, <1>5, <1>6 DEF OwnLine

-------------------------------------------------------------------------------
(* Each action of pass 1.                                                  *)
LEMMA LoneStep ==
  ASSUME NEW src \in ParsedLines, Pass1Inv, Lone(src)
  PROVE  Pass1Inv'
  <1>1. Reading /\ IsSource(src) /\ (Top.inMacro => Len(Top.body) # 0) /\ LineError(src) = OK
    BY ParsedLine DEF Pass1Inv, Lone, Accepted
  <1>2. PICK l, v : l = Line(src.label, Top.file) /\ v = (src.kind = "equ")
    OBVIOUS
  <1>3. Sound(l) /\ l.code = <<>> /\ OwnLine(src, l)
    BY <1>1, <1>2, PlainOf
  <1>4. PICK m : m = [l EXCEPT !.alias = v]
    OBVIOUS
  <1>5. v \in BOOLEAN
    BY <1>2
  <1>6. Sound(m) /\ OwnLine(src, m)
    BY <1>3, <1>4, <1>5, AliasLine DEF OwnLine
  <1>7. m = [Line(src.label, Top.file) EXCEPT !.alias = src.kind = "equ"]
    BY <1>2, <1>4
  <1>8. Commit(m) /\ NextLine
    BY <1>7 DEF Lone
  <1>9. TableStep /\ StackStep
    BY <1>1, <1>6, <1>8, LineStep
  <1>10. Others
    <2>1. address \in 0..META
      BY DEF Pass1Inv, ReadingInv
    <2> QED BY <2>1, SameOthers DEF Lone, After1
  <1> QED BY <1>9, <1>10, StepInv

LEMMA EmitStep ==
  ASSUME NEW src \in ParsedLines, Pass1Inv, Emit(src)
  PROVE  Pass1Inv'
  <1>1. Reading /\ IsSource(src) /\ (Top.inMacro => Len(Top.body) # 0) /\ LineError(src) = OK
    BY ParsedLine DEF Pass1Inv, Emit, Accepted
  <1>2. src.kind \in {"cpu", "db", "dw"} /\ ReadingInv /\ Resolved(src)
    BY <1>1, AcceptedResolved DEF Emit, Accepted, Pass1Inv
  <1>3. PICK l : l = Emitted(src)
    OBVIOUS
  <1>4. Sound(l) /\ OwnLine(src, l) /\ address + Len(CodeOf(src)) \in 0..META
    BY <1>1, <1>2, <1>3, EmittedSound DEF OwnLine
  <1>5. Commit(l) /\ NextLine
    BY <1>3 DEF Emit
  <1>6. TableStep /\ StackStep
    BY <1>1, <1>4, <1>5, LineStep
  <1>7. Others
    BY <1>4, SameOthers DEF Emit, After1
  <1> QED BY <1>6, <1>7, StepInv

LEMMA WordRange == \A v \in Int : v % 65536 \in 0..META
  <1>1. \A v \in Int : v % 65536 >= 0 /\ v % 65536 < 65536 /\ v % 65536 \in Int
    OBVIOUS
  <1>2. \A v \in Int : v % 65536 <= META
    BY <1>1 DEF META
  <1> HIDE DEF META
  <1> QED BY <1>1, <1>2, MetaType

LEMMA AlignStep ==
  ASSUME NEW src \in ParsedLines, Pass1Inv, Align(src)
  PROVE  Pass1Inv'
  <1>1. Reading /\ IsSource(src) /\ (Top.inMacro => Len(Top.body) # 0) /\ LineError(src) = OK
    BY ParsedLine DEF Pass1Inv, Align, Accepted
  <1>2. address \in 0..META /\ address \in Int
    BY DEF Pass1Inv, ReadingInv
  <1>3. NextLine /\ UNCHANGED <<source, macros, embedlist>>
    BY DEF Align, After1
  <1>4. CASE UNCHANGED <<address, lines, map, err>>
    <2>1. TableStep
      BY <1>4, SameTable
    <2>2. StackStep
      BY <1>1, <1>3, <2>1, NextLineStep
    <2>3. Others
      BY <1>2, <1>3, <1>4, SameOthers
    <2> QED BY <2>1, <2>2, <2>3, StepInv
  <1>5. CASE ~(UNCHANGED <<address, lines, map, err>>)
    <2>1. /\ address' = (address - (address % Alignment(src)) + Alignment(src)) % 65536
          /\ Commit([Line(src.label, Top.file) EXCEPT !.address = address'])
      BY <1>5 DEF Align
    <2>2. PICK n : n = Alignment(src)
      OBVIOUS
    <2>3. n \in Nat /\ n > 0
      <3>1. src.kind = "align"
        BY DEF Align, Accepted
      <3>2. n \in Alignments
        BY <1>1, <2>2, <3>1, AcceptedFacts
      <3> QED BY <3>2 DEF Alignments
    <2>4. address % n \in Int
      BY <1>2, <2>3
    <2>5. address - (address % n) + n \in Int
      BY <1>2, <2>3, <2>4
    <2>6. address' \in 0..META
      BY <2>1, <2>2, <2>5, WordRange
    <2>7. PICK l, v : l = Line(src.label, Top.file) /\ v = address'
      OBVIOUS
    <2>8. Sound(l) /\ l.code = <<>> /\ OwnLine(src, l) /\ v \in 0..META
      BY <1>1, <2>6, <2>7, PlainOf
    <2>9. PICK m : m = [l EXCEPT !.address = v]
      OBVIOUS
    <2>10. Sound(m) /\ OwnLine(src, m)
      BY <2>8, <2>9, MovedLine DEF OwnLine
    <2>11. Commit(m)
      BY <2>1, <2>7, <2>9
    <2>12. TableStep /\ StackStep
      BY <1>1, <1>3, <2>10, <2>11, LineStep
    <2>13. Others
      BY <1>3, <2>6, SameOthers
    <2> QED BY <2>12, <2>13, StepInv
  <1> QED BY <1>4, <1>5

LEMMA OrgStep ==
  ASSUME NEW src \in ParsedLines, Pass1Inv, Org(src)
  PROVE  Pass1Inv'
  <1>1. Reading /\ IsSource(src) /\ (Top.inMacro => Len(Top.body) # 0) /\ LineError(src) = OK
    BY ParsedLine DEF Pass1Inv, Org, Accepted
  <1>2. /\ address' = src.value % 65536 /\ src.value \in Int
        /\ Commit([Line(src.label, Top.file) EXCEPT !.address = address'])
        /\ NextLine /\ UNCHANGED <<source, macros, embedlist>>
    BY <1>1 DEF Org, After1, Accepted, IsSource
  <1>3. address' \in 0..META
    BY <1>2, WordRange
  <1>4. PICK l, v : l = Line(src.label, Top.file) /\ v = address'
    OBVIOUS
  <1>5. Sound(l) /\ l.code = <<>> /\ OwnLine(src, l) /\ v \in 0..META
    BY <1>1, <1>3, <1>4, PlainOf
  <1>6. PICK m : m = [l EXCEPT !.address = v]
    OBVIOUS
  <1>7. Sound(m) /\ OwnLine(src, m)
    BY <1>5, <1>6, MovedLine DEF OwnLine
  <1>8. Commit(m)
    BY <1>2, <1>4, <1>6
  <1>9. TableStep /\ StackStep
    BY <1>1, <1>2, <1>7, <1>8, LineStep
  <1>10. Others
    BY <1>2, <1>3, SameOthers
  <1> QED BY <1>9, <1>10, StepInv

LEMMA SpaceStep ==
  ASSUME NEW src \in ParsedLines, Pass1Inv, Space(src)
  PROVE  Pass1Inv'
  <1>1. Reading /\ IsSource(src) /\ (Top.inMacro => Len(Top.body) # 0) /\ LineError(src) = OK
    BY ParsedLine DEF Pass1Inv, Space, Accepted
  <1>2. src.kind = "space" /\ address' = address + src.value /\ NextLine /\ UNCHANGED <<source, macros, embedlist>>
    BY DEF Space, Accepted, After1
  <1>3. address' \in 0..META
    <2>1. src.value \in Int
      BY <1>1, <1>2 DEF IsSource
    <2>2. ~(src.value <= 0) /\ ~(src.value + address >= 65536)
      BY <1>1, <1>2, AcceptedFacts
    <2>3. address \in Nat
      BY MetaType DEF Pass1Inv, ReadingInv
    <2>4. address' \in Nat /\ address' <= META
      BY <1>2, <2>1, <2>2, <2>3 DEF META
    <2> QED BY <2>4, MetaType
  <1>4. PICK l : l = Line(src.label, Top.file)
    OBVIOUS
  <1>5. Sound(l) /\ OwnLine(src, l)
    BY <1>1, <1>4, PlainOf
  <1>6. Commit(l)
    BY <1>4 DEF Space
  <1>7. TableStep /\ StackStep
    BY <1>1, <1>2, <1>5, <1>6, LineStep
  <1>8. Others
    BY <1>2, <1>3, SameOthers
  <1> QED BY <1>7, <1>8, StepInv

LEMMA EmbedFileStep ==
  ASSUME NEW src \in ParsedLines, Pass1Inv, EmbedFile(src)
  PROVE  Pass1Inv'
  <1>1. Reading /\ IsSource(src) /\ (Top.inMacro => Len(Top.body) # 0) /\ LineError(src) = OK
    BY ParsedLine DEF Pass1Inv, EmbedFile, Accepted
  <1>2. src.kind = "embed" /\ NextLine /\ UNCHANGED <<source, macros, address>>
    BY DEF EmbedFile, Accepted, After1
  <1>3. PICK l : l = Line(src.label, Top.file)
    OBVIOUS
  <1>4. Sound(l) /\ OwnLine(src, l)
    BY <1>1, <1>3, PlainOf
  <1>5. Commit(l)
    BY <1>3 DEF EmbedFile
  <1>6. TableStep /\ StackStep
    BY <1>1, <1>2, <1>4, <1>5, LineStep
  <1>7. PICK e : e = [name |-> src.name, rombank |-> src.rombank, rambank |-> src.rambank]
    OBVIOUS
  <1>8. embedlist' = Append(embedlist, e)
    BY <1>7 DEF EmbedFile
  <1>9. e \in EmbedEntry
    <2>1. EmbedError(src) = OK
      BY <1>1, <1>2, AcceptedFacts
    <2>2. src.name \in DOMAIN Embeddable /\ Embeddable[src.name] # <<>>
      BY <2>1 DEF EmbedError, OK
    <2>3. src.rombank \in Byte /\ src.rambank \in Byte
      BY <1>1, <1>2 DEF IsSource
    <2> QED BY <1>7, <2>2, <2>3 DEF EmbedEntry
  <1>10. embedlist' \in Seq(EmbedEntry)
    <2>1. embedlist \in Seq(EmbedEntry)
      BY DEF Pass1Inv, ReadingInv
    <2> QED BY <1>8, <1>9, <2>1, AppendProperties
  <1>11. Others
    BY <1>2, <1>10 DEF Others, Pass1Inv, ReadingInv
  <1> QED BY <1>6, <1>11, StepInv

LEMMA StackStepTop ==
  ASSUME NEW f, Pass1Inv, Reading, TableStep, f \in FileType, FileOpen(lines', f.file), stack' = Append(Above, f)
  PROVE  StackStep
  <1>1. StackOpen(Above, lines)
    BY StackParts DEF Pass1Inv
  <1>2. StaysOpen(lines, lines')
    BY DEF TableStep
  <1>3. PICK s : s = Above
    OBVIOUS
  <1>4. StackOpen(Append(s, f), lines') /\ Len(Append(s, f)) # 0
    BY <1>1, <1>2, <1>3, StackMore
  <1> QED BY <1>3, <1>4 DEF StackStep

LEMMA StartMacroStep ==
  ASSUME NEW src \in ParsedLines, Pass1Inv, StartMacro(src)
  PROVE  Pass1Inv'
  <1>1. Reading /\ IsSource(src) /\ (Top.inMacro => Len(Top.body) # 0)
    BY ParsedLine DEF Pass1Inv
  <1>2. TableStep
    BY SameTable DEF StartMacro
  <1>3. Advanced \in FileType /\ Advanced.file = Top.file /\ FileOpen(lines, Top.file)
    BY <1>1, AdvancedType, StackParts DEF Pass1Inv
  <1>4. PICK d, f : d = Advanced /\ f = [d EXCEPT !.recording = src.label]
    OBVIOUS
  <1>5. f \in FileType /\ f.file = Top.file
    BY <1>1, <1>3, <1>4, LabelName, RecordingType
  <1>6. stack' = Append(Above, f)
    BY <1>4 DEF StartMacro
  <1>7. FileOpen(lines', f.file)
    BY <1>3, <1>5 DEF StartMacro
  <1>8. StackStep
    BY <1>1, <1>2, <1>5, <1>6, <1>7, StackStepTop
  <1>9. \A name \in DOMAIN macros' : macros'[name] \in Seq(AllLines)
    <2>1. macros' = Over([name \in {src.label} |-> <<>>], macros)
      BY DEF StartMacro
    <2>2. \A name \in DOMAIN macros : macros[name] \in Seq(AllLines)
      BY DEF Pass1Inv, ReadingInv
    <2>3. <<>> \in Seq(AllLines)
      OBVIOUS
    <2> QED BY <2>1, <2>2, <2>3 DEF Over
  <1>10. Others
    BY <1>9 DEF Others, Pass1Inv, ReadingInv, StartMacro, After1
  <1> QED BY <1>2, <1>8, <1>10, StepInv

LEMMA RecordStep ==
  ASSUME NEW src \in RecordedLines, Pass1Inv, Record(src)
  PROVE  Pass1Inv'
  <1>1. Reading /\ src \in NextLines
    BY DEF RecordedLines
  <1>2. src \in AllLines /\ (Top.inMacro => Len(Top.body) # 0)
    BY <1>1, NextLinesAre DEF Pass1Inv
  <1>3. TableStep
    BY SameTable DEF Record
  <1>4. Advanced \in FileType /\ Advanced.file = Top.file /\ FileOpen(lines, Top.file)
    BY <1>1, <1>2, AdvancedType, StackParts DEF Pass1Inv
  <1>5. PICK d, e : d = Advanced /\ e = [d EXCEPT !.recording = NoLabel]
    OBVIOUS
  <1>6. e \in FileType /\ e.file = Top.file
    BY <1>4, <1>5, RecordingType DEF Names
  <1>7. PICK f \in {d, e} : stack' = Append(Above, f)
    BY <1>5 DEF Record
  <1>8. f \in FileType /\ FileOpen(lines', f.file)
    BY <1>4, <1>5, <1>6, <1>7 DEF Record
  <1>9. StackStep
    BY <1>1, <1>3, <1>7, <1>8, StackStepTop
  <1>10. \A name \in DOMAIN macros' : macros'[name] \in Seq(AllLines)
    <2>1. \A name \in DOMAIN macros : macros[name] \in Seq(AllLines)
      BY DEF Pass1Inv, ReadingInv
    <2>2. CASE src.kind = "endm"
      BY <2>1, <2>2 DEF Record
    <2>3. CASE src.kind # "endm"
      <3>1. macros' = [macros EXCEPT ![Top.recording] = Append(@, src)]
        BY <2>3 DEF Record
      <3>2. \A s \in Seq(AllLines) : Append(s, src) \in Seq(AllLines)
        BY <1>2, AppendProperties
      <3> QED BY <2>1, <3>1, <3>2
    <2> QED BY <2>2, <2>3
  <1>11. Others
    BY <1>10 DEF Others, Pass1Inv, ReadingInv, Record, After1
  <1> QED BY <1>3, <1>9, <1>11, StepInv

LEMMA FileLineAdded ==
  ASSUME NEW L, NEW M, NEW l, NEW f, Table(L, M), address \in 0..META, Sound(l), l.code = <<>>,
         FileOpen(L, l.file), Fresh(L, l), f = Len(L) + 2
  PROVE  /\ Table(Append(Append(L, l), FileLine(f)), M)
         /\ StaysOpen(L, Append(Append(L, l), FileLine(f)))
         /\ FileOpen(Append(Append(L, l), FileLine(f)), f) /\ f \in Nat
  <1>1. PICK A, n, m : A = Append(L, l) /\ n = Len(L) /\ m = FileLine(f)
    OBVIOUS
  <1>2. L \in Seq(LineType) /\ l \in LineType /\ LinesAre(L, M)
    BY DEF Table, LinesAre, Sound
  <1>3. LinesAre(A, M)
    BY <1>1, <1>2, EmptyAdded
  <1>4. FileOpen(A, l.file)
    BY <1>1, <1>2, OpenAfter
  <1>5. Table(A, M) /\ StaysOpen(L, A)
    BY <1>1, <1>3, <1>4, OneMoreLine
  <1>6. n \in Nat /\ A \in Seq(LineType) /\ Len(A) = n + 1
    BY <1>1, <1>2, AllBytesAppend
  <1>7. f \in Nat /\ f = Len(A) + 1
    BY <1>1, <1>6
  <1>8. Sound(m) /\ m.code = <<>> /\ m.label = FILELABEL /\ m.file = f /\ m.alias = FALSE
    <2>1. FILELABEL \in Names
      BY DEF Names
    <2>2. m = Line(FILELABEL, f)
      BY <1>1 DEF FileLine
    <2> QED BY <1>7, <2>1, <2>2, PlainLine
  <1>9. m \in LineType
    BY <1>8 DEF Sound
  <1>10. FileOpen(Append(A, m), m.file)
    BY <1>6, <1>7, <1>8, <1>9, OpenItself
  <1>11. LinesAre(Append(A, m), M)
    BY <1>3, <1>8, EmptyAdded
  <1>12. Fresh(A, m)
    BY <1>8 DEF Fresh, Unrepeated
  <1>13. Table(Append(A, m), M) /\ StaysOpen(A, Append(A, m))
    BY <1>5, <1>8, <1>10, <1>11, <1>12, OneMoreLine
  <1>14. StaysOpen(L, Append(A, m))
    BY <1>5, <1>13 DEF StaysOpen
  <1> QED BY <1>1, <1>7, <1>8, <1>10, <1>13, <1>14

LEMMA TwoMore ==
  ASSUME NEW X, NEW s \in Seq(X), NEW x \in X, NEW y \in X
  PROVE  s \o <<x, y>> = Append(Append(s, x), y)
  <1>1. PICK n, t, u, v : n = Len(s) /\ t = <<x, y>> /\ u = Append(s, x) /\ v = Append(Append(s, x), y)
    OBVIOUS
  <1>2. n \in Nat /\ t \in Seq(X) /\ Len(t) = 2 /\ t[1] = x /\ t[2] = y
    BY <1>1
  <1>3. u \in Seq(X) /\ Len(u) = n + 1 /\ u[n + 1] = x /\ \A k \in 1..n : u[k] = s[k]
    BY <1>1, <1>2, AppendProperties
  <1>4. v = Append(u, y)
    BY <1>1
  <1>5. v \in Seq(X) /\ Len(v) = n + 2 /\ v[n + 2] = y /\ \A k \in 1..n + 1 : v[k] = u[k]
    BY <1>2, <1>3, <1>4, AppendProperties
  <1>6. /\ s \o t \in Seq(X) /\ Len(s \o t) = Len(s) + Len(t)
        /\ \A k \in 1..Len(s) + Len(t) : (s \o t)[k] = IF k <= Len(s) THEN s[k] ELSE t[k - Len(s)]
    BY <1>2, ConcatProperties
  <1>7. ASSUME NEW k \in 1..n + 2 PROVE (s \o t)[k] = v[k]
    <2>1. (s \o t)[k] = IF k <= n THEN s[k] ELSE t[k - n]
      BY <1>1, <1>2, <1>6
    <2>2. CASE k <= n
      <3>1. k \in 1..n /\ k \in 1..n + 1
        BY <1>2, <2>2
      <3> QED BY <1>3, <1>5, <2>1, <2>2, <3>1
    <2>3. CASE k = n + 1
      <3>1. k \in 1..n + 1 /\ ~(k <= n) /\ k - n = 1
        BY <1>2, <2>3
      <3> QED BY <1>2, <1>3, <1>5, <2>1, <2>3, <3>1
    <2>4. CASE k = n + 2
      <3>1. ~(k <= n) /\ k - n = 2
        BY <1>2, <2>4
      <3>2. (s \o t)[k] = t[k - n]
        BY <2>1, <3>1
      <3>3. t[k - n] = y
        BY <1>2, <3>1
      <3> QED BY <1>5, <2>4, <3>2, <3>3
    <2>5. k <= n \/ k = n + 1 \/ k = n + 2
      BY <1>2, <1>7
    <2> QED BY <2>2, <2>3, <2>4, <2>5
  <1>8. Len(s \o t) = n + 2
    BY <1>1, <1>2, <1>6
  <1> QED BY <1>1, <1>5, <1>6, <1>7, <1>8, SeqEqual

LEMMA EnterStep ==
  ASSUME NEW src \in ParsedLines, Pass1Inv, Enter(src)
  PROVE  Pass1Inv'
  <1>1. Reading /\ IsSource(src) /\ (Top.inMacro => Len(Top.body) # 0) /\ LineError(src) = OK
    BY ParsedLine DEF Pass1Inv, Enter, Accepted
  <1>2. src.kind \in {"include", "call"} /\ Resolved(src) /\ ReadingInv /\ Table(lines, map)
    BY <1>1, AcceptedResolved DEF Enter, Accepted, Pass1Inv
  <1>3. PICK l, m, n, L : /\ l = Line(src.label, Top.file) /\ m = FileLine(n)
                          /\ n = Len(lines) + 2 /\ L = Append(Append(lines, l), m)
    OBVIOUS
  <1>4. Sound(l) /\ l.code = <<>> /\ OwnLine(src, l) /\ address \in 0..META
    BY <1>1, <1>3, PlainOf
  <1>5. FileOpen(lines, Top.file) /\ StackOpen(Above, lines)
    BY <1>1, <1>2, StackParts
  <1>6. FileOpen(lines, l.file) /\ Fresh(lines, l)
    BY <1>1, <1>4, <1>5, FreshLine, AcceptedFacts DEF OwnLine
  <1>7. Table(L, map) /\ StaysOpen(lines, L) /\ FileOpen(L, n) /\ n \in Nat
    <2>1. Table(Append(Append(lines, l), FileLine(n)), map) /\ n = Len(lines) + 2
      BY <1>2, <1>3, <1>4, <1>6, FileLineAdded
    <2> QED BY <1>2, <1>3, <1>4, <1>6, <2>1, FileLineAdded
  <1>8. lines' = L /\ map' = map
    <2>1. lines' = lines \o <<l, m>>
      BY <1>3 DEF Enter
    <2>2. lines \in Seq(LineType) /\ l \in LineType
      BY <1>2, <1>4 DEF Table, LinesAre, Sound
    <2>3. m \in LineType
      <3>1. FILELABEL \in Names
        BY DEF Names
      <3>2. Sound(m)
        BY <1>3, <1>4, <1>7, <3>1, PlainLine DEF FileLine
      <3> QED BY <3>2 DEF Sound
    <2>4. lines \o <<l, m>> = L
      BY <1>3, <2>2, <2>3, TwoMore
    <2> QED BY <2>1, <2>4 DEF Enter
  <1>9. TableStep
    BY <1>7, <1>8 DEF TableStep
  <1>10. PICK f : f = IF src.kind = "call" THEN File(macros[src.name], src.params, TRUE)
                      ELSE File(<<>>, <<>>, FALSE)
    OBVIOUS
  <1>11. f \in FileType /\ f.file = n
    <2>1. src.params \in Seq(Operand)
      BY <1>2 DEF Resolved
    <2>2. src.kind = "call" => macros[src.name] \in Seq(AllLines)
      BY <1>1, <1>2, AcceptedFacts DEF ReadingInv
    <2>3. NoLabel \in Names
      BY DEF Names
    <2>4. CASE src.kind = "call"
      <3>1. PICK b, p : b = macros[src.name] /\ p = src.params
        OBVIOUS
      <3>2. f = [file |-> n, body |-> b, args |-> p, inMacro |-> TRUE, recording |-> NoLabel]
        BY <1>3, <1>10, <2>4, <3>1 DEF File
      <3> QED BY <1>7, <2>1, <2>2, <2>3, <2>4, <3>1, <3>2 DEF FileType
    <2>5. CASE src.kind # "call"
      <3>1. f = [file |-> n, body |-> <<>>, args |-> <<>>, inMacro |-> FALSE, recording |-> NoLabel]
        BY <1>3, <1>10, <2>5 DEF File
      <3> QED BY <1>7, <2>3, <3>1 DEF FileType
    <2> QED BY <2>4, <2>5
  <1>12. PICK s, d : s = Above /\ d = Advanced
    OBVIOUS
  <1>13. d \in FileType /\ d.file = Top.file
    BY <1>1, <1>2, <1>12, AdvancedType
  <1>14. FileOpen(L, d.file) /\ FileOpen(L, f.file) /\ StaysOpen(L, L)
    BY <1>5, <1>7, <1>11, <1>13 DEF StaysOpen
  <1>15. StackOpen(Append(s, d), L)
    BY <1>5, <1>7, <1>12, <1>13, <1>14, StackMore
  <1>16. StackOpen(Append(Append(s, d), f), L) /\ Len(Append(Append(s, d), f)) # 0
    BY <1>11, <1>14, <1>15, StackMore
  <1>17. stack' = Append(Append(s, d), f)
    <2>1. stack' = s \o <<d, f>>
      BY <1>10, <1>12 DEF Enter
    <2>2. s \in Seq(FileType)
      BY <1>5, <1>12 DEF StackOpen
    <2> QED BY <1>11, <1>13, <2>1, <2>2, TwoMore
  <1>18. StackStep
    BY <1>8, <1>16, <1>17 DEF StackStep
  <1>19. Others
    <2>1. UNCHANGED <<source, macros, embedlist, address>>
      BY DEF Enter, After1
    <2> QED BY <1>4, <2>1, SameOthers
  <1> QED BY <1>9, <1>18, <1>19, StepInv

LEMMA RefuseStep ==
  ASSUME NEW src, Pass1Inv, Refuse(src)
  PROVE  Pass1Inv'
  BY DEF Refuse, After1, Pass1Inv, ReadingInv

LEMMA EndOfFileStep ==
  ASSUME Pass1Inv, EndOfFile
  PROVE  Pass1Inv'
  <1>1. Reading /\ stack' = Above
    BY DEF EndOfFile
  <1>2. StackOpen(Above, lines) /\ ReadingInv
    BY <1>1, StackParts DEF Pass1Inv
  <1>3. phase' = "pass1" => Len(stack') # 0
    <2>1. PICK n : n = Len(stack)
      OBVIOUS
    <2>2. stack \in Seq(FileType) /\ n \in Nat /\ n # 0
      BY <1>1, <1>2, <2>1, LenProperties DEF ReadingInv, StackOpen, Reading
    <2>3. n - 1 \in Int /\ \A i \in 1..n - 1 : i \in 1..n
      BY <2>2
    <2>4. Len(SubSeq(stack, 1, n - 1)) = IF 1 <= n - 1 THEN n - 1 - 1 + 1 ELSE 0
      BY <2>1, <2>2, <2>3, SubSeqProperties
    <2>5. n # 1 => Len(stack') # 0
      BY <1>1, <2>1, <2>2, <2>4 DEF Above
    <2>6. n = 1 => phase' = "pass2"
      BY <2>1 DEF EndOfFile
    <2> QED BY <2>5, <2>6
  <1>4. UNCHANGED <<source, macros, address, lines, map, embedlist>>
    BY DEF EndOfFile
  <1> QED BY <1>1, <1>2, <1>3, <1>4 DEF Pass1Inv, ReadingInv

LEMMA InitInv ==
  ASSUME Init
  PROVE  Pass1Inv
  <1>1. 0 \in 0..META /\ address = 0
    BY MetaType DEF Init
  <1>2. PICK l, L : /\ L = <<l>> /\ L = lines
                    /\ l = [label |-> FILELABEL, alias |-> FALSE, file |-> 1, address |-> 0, code |-> <<>>,
                            params |-> <<>>, imm |-> "none"]
    BY DEF Init
  <1>3. Sound(l) /\ l.code = <<>>
    <2>1. FILELABEL \in Names
      BY DEF Names
    <2>2. l = Line(FILELABEL, 1)
      BY <1>1, <1>2 DEF Line
    <2>3. address \in 0..META /\ 1 \in Nat
      BY <1>1
    <2> QED BY <2>1, <2>2, <2>3, PlainLine
  <1>4. LinesAre(<<>>, map)
    <2>1. map = <<>>
      BY DEF Init
    <2>2. map \in Code
      BY <2>1, NewMapMade DEF NewMap, Map
    <2>3. Filled(AllBytes(<<>>), 0, map)
      <3>1. DOMAIN map = {}
        BY <2>1
      <3> QED BY <2>2, <3>1 DEF Filled
    <2> QED BY <2>3 DEF LinesAre
  <1>5. LinesAre(lines, map)
    <2>1. Append(<<>>, l) = L
      BY <1>2
    <2>2. LinesAre(Append(<<>>, l), map)
      BY <1>3, <1>4, EmptyAdded
    <2> QED BY <1>2, <2>1, <2>2
  <1>6. Len(lines) = 1 /\ lines[1] = l /\ 1 \in 1..1
    BY <1>2
  <1>7. \A f : FileOpen(lines, f) <=> f = 1
    <2>1. l.label = FILELABEL /\ l.file = 1 /\ ~l.alias
      BY <1>2
    <2> QED BY <1>6, <2>1 DEF FileOpen
  <1>8. Scoped(lines) /\ Unique(lines)
    <2>1. l.file = 1
      BY <1>2
    <2> QED BY <1>6, <1>7, <2>1 DEF Scoped, Unique
  <1>9. StackOpen(stack, lines) /\ Len(stack) # 0
    <2>1. PICK f : f = [file |-> 1, body |-> <<>>, args |-> <<>>, inMacro |-> FALSE, recording |-> NoLabel]
      OBVIOUS
    <2>2. f \in FileType /\ f.file = 1
      BY <2>1 DEF FileType, Names
    <2>3. stack = <<f>>
      BY <2>1 DEF Init
    <2>4. stack \in Seq(FileType) /\ Len(stack) = 1 /\ stack[1] = f
      BY <2>2, <2>3
    <2> QED BY <1>7, <2>2, <2>4 DEF StackOpen
  <1>10. source \subseteq AllLines /\ (\A name \in DOMAIN macros : macros[name] \in Seq(AllLines))
         /\ embedlist \in Seq(EmbedEntry)
    BY DEF Init, AllLines
  <1> QED BY <1>1, <1>5, <1>8, <1>9, <1>10 DEF Pass1Inv, ReadingInv, Table

-------------------------------------------------------------------------------
(* The lines of labels.                                                    *)
LEMMA FirstIs ==
  ASSUME NEW n \in Nat, NEW S \in SUBSET (1..n)
  PROVE  /\ S = {} => FirstOf(S) = 0
         /\ S # {} => FirstOf(S) \in S /\ \A j \in S : FirstOf(S) <= j
         /\ FirstOf(S) # 0 => S # {}
  <1>1. ASSUME S # {} PROVE \E k \in S : \A j \in S : k <= j
    <2>1. S \in SUBSET Nat
      OBVIOUS
    <2> QED BY <1>1, <2>1, LeastNat
  <1>2. ASSUME S # {} PROVE FirstOf(S) \in S /\ \A j \in S : FirstOf(S) <= j
    BY <1>1, <1>2 DEF FirstOf
  <1> QED BY <1>2 DEF FirstOf

LEMMA LastIs ==
  ASSUME NEW n \in Nat, NEW S \in SUBSET (1..n), S # {}
  PROVE  LastOf(S) \in S /\ \A j \in S : j <= LastOf(S)
  <1>1. PICK T : T = {n - k : k \in S}
    OBVIOUS
  <1>2. T \in SUBSET Nat /\ T # {}
    <2>1. \A k \in S : n - k \in Nat
      OBVIOUS
    <2>2. T \in SUBSET Nat
      BY <1>1, <2>1
    <2>3. PICK k : k \in S
      OBVIOUS
    <2>4. n - k \in T
      BY <1>1, <2>3
    <2> QED BY <2>2, <2>4
  <1>3. PICK t \in T : \A m \in T : t <= m
    BY <1>2, LeastNat
  <1>4. PICK k \in S : t = n - k
    BY <1>1, <1>3
  <1>5. \A j \in S : j <= k
    <2>1. ASSUME NEW j \in S PROVE j <= k
      <3>1. n - j \in T
        BY <1>1, <2>1
      <3>2. n - k <= n - j
        BY <1>3, <1>4, <3>1
      <3> QED BY <1>4, <2>1, <3>2
    <2> QED BY <2>1
  <1>6. \E m \in S : \A j \in S : m >= j
    BY <1>5
  <1>7. LastOf(S) \in S /\ \A j \in S : LastOf(S) >= j
    BY <1>6 DEF LastOf
  <1> QED BY <1>7

LEMMA FirstBelowIs ==
  ASSUME NEW n \in Nat, DOMAIN lines = 1..n, NEW j, NEW name, NEW file, FirstBelow(j, name, file) # 0
  PROVE  /\ FirstBelow(j, name, file) \in 1..n /\ FirstBelow(j, name, file) > j
         /\ Named(FirstBelow(j, name, file), name) /\ lines[FirstBelow(j, name, file)].file = file
         /\ \A k \in 1..n : k > j /\ Named(k, name) /\ lines[k].file = file => FirstBelow(j, name, file) <= k
  <1>1. PICK S : S = {k \in DOMAIN lines : k > j /\ Named(k, name) /\ lines[k].file = file}
    OBVIOUS
  <1>2. S \in SUBSET (1..n) /\ FirstBelow(j, name, file) = FirstOf(S)
    BY <1>1 DEF FirstBelow
  <1>3. FirstOf(S) \in S /\ \A k \in S : FirstOf(S) <= k
    BY <1>2, FirstIs
  <1> QED BY <1>1, <1>2, <1>3

LEMMA FirstBelowFound ==
  ASSUME NEW n \in Nat, DOMAIN lines = 1..n, NEW j, NEW name, NEW file, NEW k \in 1..n,
         k > j, Named(k, name), lines[k].file = file
  PROVE  FirstBelow(j, name, file) # 0
  <1>1. PICK S : S = {m \in DOMAIN lines : m > j /\ Named(m, name) /\ lines[m].file = file}
    OBVIOUS
  <1>2. S \in SUBSET (1..n) /\ FirstBelow(j, name, file) = FirstOf(S) /\ k \in S
    BY <1>1 DEF FirstBelow
  <1>3. FirstOf(S) \in 1..n
    BY <1>2, FirstIs
  <1> QED BY <1>2, <1>3

LEMMA GlobalIs ==
  ASSUME NEW n \in Nat, DOMAIN lines = 1..n, NEW name, AtGlobal(name) # 0
  PROVE  AtGlobal(name) \in 1..n /\ IsGlobal(AtGlobal(name)) /\ Named(AtGlobal(name), name)
  <1>1. PICK S : S = {k \in DOMAIN lines : IsGlobal(k) /\ Named(k, name)}
    OBVIOUS
  <1>2. S \in SUBSET (1..n) /\ AtGlobal(name) = FirstOf(S)
    BY <1>1 DEF AtGlobal
  <1>3. FirstOf(S) \in S
    BY <1>2, FirstIs
  <1> QED BY <1>1, <1>2, <1>3

LEMMA QualifiedIs ==
  ASSUME NEW n \in Nat, DOMAIN lines = 1..n, NEW global, NEW name, NEW i, AtQualified(global, name, i) # 0
  PROVE  /\ AtQualified(global, name, i) \in 1..n /\ AtGlobal(global) # 0
         /\ AtQualified(global, name, i) > AtGlobal(global)
         /\ Named(AtQualified(global, name, i), name)
         /\ lines[AtQualified(global, name, i)].file = lines[i].file
  <1>1. PICK g, S : /\ g = AtGlobal(global)
                    /\ S = {k \in DOMAIN lines : /\ k > g /\ lines[k].file = lines[i].file
                                                 /\ IsGlobal(k) \/ Named(k, name)}
    OBVIOUS
  <1>2. PICK k : k = FirstOf(S)
    OBVIOUS
  <1>3. AtQualified(global, name, i) = IF g = 0 \/ k = 0 \/ IsGlobal(k) THEN 0 ELSE k
    BY <1>1, <1>2 DEF AtQualified
  <1>4. g # 0 /\ k # 0 /\ ~IsGlobal(k) /\ AtQualified(global, name, i) = k
    BY <1>3
  <1>5. S \in SUBSET (1..n)
    BY <1>1
  <1>6. k \in S
    BY <1>2, <1>4, <1>5, FirstIs
  <1> QED BY <1>1, <1>4, <1>6

LEMMA LocalIs ==
  ASSUME NEW n \in Nat, DOMAIN lines = 1..n, NEW name, NEW i \in 1..n, AtLocal(name, i) # 0
  PROVE  \E g \in 1..i : /\ AtLocal(name, i) = FirstBelow(g, name, lines[i].file)
                         /\ IsGlobal(g) /\ lines[g].file = lines[i].file
                         /\ FirstBelow(g, name, lines[i].file) # 0
                         /\ \A j \in 1..i : /\ IsGlobal(j) /\ lines[j].file = lines[i].file
                                            /\ FirstBelow(j, name, lines[i].file) # 0
                                            => j <= g
  <1>1. PICK file, S : /\ file = lines[i].file
                       /\ S = {j \in 1..i : IsGlobal(j) /\ lines[j].file = file
                                             /\ FirstBelow(j, name, file) # 0}
    OBVIOUS
  <1>2. AtLocal(name, i) = IF S = {} THEN 0 ELSE FirstBelow(LastOf(S), name, file)
    BY <1>1 DEF AtLocal
  <1>3. S # {} /\ AtLocal(name, i) = FirstBelow(LastOf(S), name, file)
    BY <1>2
  <1>4. S \in SUBSET (1..i) /\ i \in Nat
    BY <1>1
  <1>5. LastOf(S) \in S /\ \A j \in S : j <= LastOf(S)
    BY <1>3, <1>4, LastIs
  <1> QED BY <1>1, <1>3, <1>5

LEMMA LabelCases ==
  ASSUME NEW p \in LabelOperand, NEW i
  PROVE  AtLabel(p, i) = IF p.global = NoLabel THEN AtLocal(p.local, i)
                         ELSE IF p.local = NoLabel THEN AtGlobal(p.global)
                         ELSE AtQualified(p.global, p.local, i)
  <1>1. p.global = NoLabel => p.local # NoLabel
    BY DEF LabelOperand
  <1>2. CASE p.global = NoLabel
    BY <1>1, <1>2 DEF AtLabel
  <1>3. CASE p.global # NoLabel /\ p.local = NoLabel
    BY <1>3 DEF AtLabel
  <1>4. CASE p.global # NoLabel /\ p.local # NoLabel
    BY <1>4 DEF AtLabel
  <1> QED BY <1>2, <1>3, <1>4

LEMMA LabelIs ==
  ASSUME NEW n \in Nat, DOMAIN lines = 1..n, NEW p \in LabelOperand, NEW i \in 1..n, AtLabel(p, i) # 0
  PROVE  AtLabel(p, i) \in 1..n
  <1>1. CASE p.global = NoLabel
    <2>1. AtLabel(p, i) = AtLocal(p.local, i)
      BY <1>1, LabelCases
    <2>2. PICK g \in 1..i : /\ AtLocal(p.local, i) = FirstBelow(g, p.local, lines[i].file)
                            /\ FirstBelow(g, p.local, lines[i].file) # 0
      BY <2>1, LocalIs
    <2> QED BY <2>1, <2>2, FirstBelowIs
  <1>2. CASE p.global # NoLabel /\ p.local = NoLabel
    BY <1>2, LabelCases, GlobalIs
  <1>3. CASE p.global # NoLabel /\ p.local # NoLabel
    BY <1>3, LabelCases, QualifiedIs
  <1> QED BY <1>1, <1>2, <1>3

(* The label of a reference depends on the labels and files of the lines.  *)
SameScopes ==
  /\ DOMAIN lines' = DOMAIN lines
  /\ \A k \in DOMAIN lines : /\ lines'[k].label = lines[k].label /\ lines'[k].alias = lines[k].alias
                             /\ lines'[k].file = lines[k].file

LEMMA LabelSame ==
  ASSUME NEW n \in Nat, DOMAIN lines = 1..n, SameScopes, NEW p \in LabelOperand, NEW i \in 1..n
  PROVE  AtLabel(p, i)' = AtLabel(p, i)
  <1>1. /\ \A k \in 1..n : \A name : Named(k, name)' <=> Named(k, name)
        /\ \A k \in 1..n : IsGlobal(k)' <=> IsGlobal(k)
        /\ DOMAIN lines' = 1..n /\ \A k \in 1..n : lines'[k].file = lines[k].file
    BY DEF SameScopes, Named, IsGlobal
  <1>2. ASSUME NEW j, NEW name, NEW file
        PROVE  FirstBelow(j, name, file)' = FirstBelow(j, name, file)
    <2>1. {k \in DOMAIN lines' : k > j /\ Named(k, name)' /\ lines'[k].file = file}
            = {k \in DOMAIN lines : k > j /\ Named(k, name) /\ lines[k].file = file}
      BY <1>1
    <2> QED BY <2>1 DEF FirstBelow
  <1>3. ASSUME NEW name PROVE AtGlobal(name)' = AtGlobal(name)
    <2>1. {k \in DOMAIN lines' : IsGlobal(k)' /\ Named(k, name)'} = {k \in DOMAIN lines : IsGlobal(k) /\ Named(k, name)}
      BY <1>1
    <2> QED BY <2>1 DEF AtGlobal
  <1>4. ASSUME NEW name PROVE AtLocal(name, i)' = AtLocal(name, i)
    <2>1. PICK file : file = lines[i].file
      OBVIOUS
    <2>2. lines'[i].file = file
      BY <1>1, <2>1
    <2>3. \A j \in 1..i : j \in 1..n
      OBVIOUS
    <2>4. PICK S : S = {j \in 1..i : IsGlobal(j) /\ lines[j].file = file /\ FirstBelow(j, name, file) # 0}
      OBVIOUS
    <2>5. S = {j \in 1..i : IsGlobal(j)' /\ lines'[j].file = file /\ FirstBelow(j, name, file)' # 0}
      BY <1>1, <1>2, <2>3, <2>4
    <2>6. AtLocal(name, i) = IF S = {} THEN 0 ELSE FirstBelow(LastOf(S), name, file)
      BY <2>1, <2>4 DEF AtLocal
    <2>7. AtLocal(name, i)' = IF S = {} THEN 0 ELSE FirstBelow(LastOf(S), name, file)'
      BY <2>2, <2>5 DEF AtLocal
    <2> QED BY <1>2, <2>6, <2>7
  <1>5. ASSUME NEW global, NEW name PROVE AtQualified(global, name, i)' = AtQualified(global, name, i)
    <2>1. lines'[i].file = lines[i].file /\ AtGlobal(global)' = AtGlobal(global)
      BY <1>1, <1>3
    <2>2. PICK g : g = AtGlobal(global)
      OBVIOUS
    <2>3. PICK S : S = {k \in DOMAIN lines : /\ k > g /\ lines[k].file = lines[i].file
                                             /\ IsGlobal(k) \/ Named(k, name)}
      OBVIOUS
    <2>4. S = {k \in DOMAIN lines' : /\ k > g /\ lines'[k].file = lines'[i].file
                                     /\ IsGlobal(k)' \/ Named(k, name)'}
      BY <1>1, <2>1, <2>3
    <2>5. PICK f : f = FirstOf(S)
      OBVIOUS
    <2>6. f = 0 \/ f \in 1..n
      <3>1. S \in SUBSET (1..n)
        BY <2>3
      <3> QED BY <2>5, <3>1, FirstIs
    <2>7. AtQualified(global, name, i) = IF g = 0 \/ f = 0 \/ IsGlobal(f) THEN 0 ELSE f
      BY <2>2, <2>3, <2>5 DEF AtQualified
    <2>8. AtQualified(global, name, i)' = IF g = 0 \/ f = 0 \/ IsGlobal(f)' THEN 0 ELSE f
      BY <2>1, <2>2, <2>4, <2>5 DEF AtQualified
    <2> QED BY <1>1, <2>6, <2>7, <2>8
  <1>6. AtLabel(p, i)' = IF p.global = NoLabel THEN AtLocal(p.local, i)'
                         ELSE IF p.local = NoLabel THEN AtGlobal(p.global)'
                         ELSE AtQualified(p.global, p.local, i)'
    <2>1. p.global = NoLabel => p.local # NoLabel
      BY DEF LabelOperand
    <2>2. CASE p.global = NoLabel
      BY <2>1, <2>2 DEF AtLabel
    <2>3. CASE p.global # NoLabel /\ p.local = NoLabel
      BY <2>3 DEF AtLabel
    <2>4. CASE p.global # NoLabel /\ p.local # NoLabel
      BY <2>4 DEF AtLabel
    <2> QED BY <2>2, <2>3, <2>4
  <1> QED BY <1>3, <1>4, <1>5, <1>6, LabelCases

-------------------------------------------------------------------------------
(* The bytes pass 2 writes.                                                *)
EncodedIn(l, c, k, t) ==
  IF l.imm = "dw"
  THEN c[2 * k - 1] = Word(t)[1] /\ c[2 * k] = Word(t)[2]
  ELSE \A b \in 1..Width[l.imm] : c[Len(c) - Width[l.imm] + b] = Encode(l.imm, t, l.address + Len(c))[b]

LineOf(i, l, n) ==
  /\ n = Len(lines) /\ n \in Nat /\ DOMAIN lines = 1..n /\ i \in 1..n /\ l = lines[i] /\ Sound(l)
  /\ Labels(i) = Refers(l) /\ l.code \in Seq(Byte) /\ Len(l.code) \in Nat /\ l.params \in Seq(Operand)
  /\ l.address \in Nat /\ l.address + Len(l.code) <= META

LEMMA LineIs ==
  ASSUME Table(lines, map), NEW i \in 1..Len(lines)
  PROVE  \E l, n : LineOf(i, l, n)
  <1>1. PICK l, n : l = lines[i] /\ n = Len(lines)
    OBVIOUS
  <1>2. Sound(l) /\ lines \in Seq(LineType)
    BY <1>1 DEF Table, LinesAre
  <1>3. n \in Nat /\ DOMAIN lines = 1..n
    BY <1>1, <1>2, LenProperties
  <1>4. Labels(i) = Refers(l)
    BY <1>1 DEF Labels, Refers
  <1>5. l \in LineType /\ l.address + Len(l.code) <= META
    BY <1>2 DEF Sound
  <1>6. l.code \in Seq(Byte) /\ l.params \in Seq(Operand) /\ l.address \in Nat
    BY <1>5 DEF LineType
  <1>7. Len(l.code) \in Nat
    BY <1>6, LenProperties
  <1> QED BY <1>1, <1>2, <1>3, <1>4, <1>5, <1>6, <1>7 DEF LineOf

LEMMA ReferIs ==
  ASSUME NEW l, Sound(l), NEW k \in Refers(l)
  PROVE  /\ k \in 1..Len(l.params) /\ l.params[k] \in LabelOperand /\ Room(l)
         /\ l.code # <<>>
  <1>1. l.params \in Seq(Operand)
    BY DEF Sound, LineType
  <1>2. k \in 1..Len(l.params) /\ IsLabel(l.params[k])
    BY <1>1, LenProperties DEF Refers
  <1>3. l.params[k] \in Operand
    BY <1>1, <1>2
  <1>4. l.params[k] \notin ValueOperand
    BY <1>2 DEF ValueOperand, IsLabel
  <1> QED BY <1>2, <1>3, <1>4 DEF Operand, Sound, Refers

LEMMA TargetType ==
  ASSUME Table(lines, map), NEW i \in 1..Len(lines), NEW k \in Labels(i),
         AtLabel(lines[i].params[k], i) # 0
  PROVE  Target(i, k) \in 0..META /\ AtLabel(lines[i].params[k], i) \in 1..Len(lines)
  <1>1. PICK l, n : LineOf(i, l, n)
    BY LineIs
  <1>2. n = Len(lines) /\ n \in Nat /\ DOMAIN lines = 1..n /\ i \in 1..n /\ l = lines[i] /\ Sound(l) /\ k \in Refers(l)
    BY <1>1 DEF LineOf
  <1>3. PICK p, j : p = l.params[k] /\ j = AtLabel(p, i)
    OBVIOUS
  <1>4. p \in LabelOperand
    BY <1>2, <1>3, ReferIs
  <1>5. j # 0
    BY <1>2, <1>3
  <1>6. j \in 1..n
    BY <1>2, <1>3, <1>4, <1>5, LabelIs
  <1>7. j \in 1..Len(lines)
    BY <1>2, <1>6
  <1>8. PICK m, o : LineOf(j, m, o)
    BY <1>7, LineIs
  <1>9. m = lines[j] /\ m.address \in Nat /\ Len(m.code) \in Nat /\ m.address + Len(m.code) <= META
    BY <1>8 DEF LineOf
  <1>10. m.address <= META
    BY <1>9, MetaType
  <1>11. m.address \in 0..META
    BY <1>9, <1>10, MetaType
  <1> QED BY <1>2, <1>3, <1>7, <1>9, <1>11 DEF Target

LEMMA WordBytes == \A v \in Int : Word(v)[1] \in Byte /\ Word(v)[2] \in Byte
  <1>1. ASSUME NEW v \in Int PROVE Word(v)[1] \in Byte /\ Word(v)[2] \in Byte
    <2>1. PICK w : w = Word(v)
      OBVIOUS
    <2>2. w \in Seq(Byte) /\ Len(w) = 2
      BY <1>1, <2>1, WordType
    <2>3. w[1] \in Byte /\ w[2] \in Byte
      BY <2>2
    <2> QED BY <2>1, <2>3
  <1> QED BY <1>1

LEMMA LinkedWords ==
  ASSUME NEW i, NEW l, NEW n, LineOf(i, l, n), l.imm = "dw", Len(l.code) = 2 * Len(l.params),
         \A k \in Labels(i) : Target(i, k) \in Int, Labels(i) # {}
  PROVE  /\ Linked(i) \in Seq(Byte) /\ Len(Linked(i)) = Len(l.code)
         /\ \A k \in Labels(i) : EncodedIn(l, Linked(i), k, Target(i, k))
  <1>1. PICK c, m : c = l.code /\ m = Len(l.params)
    OBVIOUS
  <1>2. c \in Seq(Byte) /\ m \in Nat /\ Len(c) = 2 * m /\ DOMAIN c = 1..2 * m /\ l = lines[i]
    BY <1>1, LenProperties DEF LineOf
  <1>3. PICK f : f = [b \in DOMAIN c |->
             LET k == (b + 1) \div 2 IN
             IF k \in Labels(i) THEN Word(Target(i, k))[IF b % 2 = 1 THEN 1 ELSE 2] ELSE c[b]]
    OBVIOUS
  <1>4. Linked(i) = f
    BY <1>1, <1>2, <1>3 DEF Linked
  <1>5. \A v \in Int : Word(v)[1] \in Byte /\ Word(v)[2] \in Byte
    BY WordBytes
  <1>6. ASSUME NEW b \in 1..2 * m PROVE f[b] \in Byte
    <2>1. PICK k : k = (b + 1) \div 2
      OBVIOUS
    <2>2. f[b] = IF k \in Labels(i) THEN Word(Target(i, k))[IF b % 2 = 1 THEN 1 ELSE 2] ELSE c[b]
      BY <1>2, <1>3, <1>6, <2>1
    <2>3. c[b] \in Byte
      BY <1>2, <1>6
    <2>4. k \in Labels(i) => Word(Target(i, k))[1] \in Byte /\ Word(Target(i, k))[2] \in Byte
      BY <1>5
    <2> QED BY <2>2, <2>3, <2>4
  <1>7. f \in Seq(Byte) /\ Len(f) = 2 * m
    <2>1. DOMAIN f = 1..2 * m /\ 2 * m \in Nat
      BY <1>2, <1>3
    <2>2. f = [b \in 1..2 * m |-> f[b]]
      BY <1>2, <1>3
    <2> QED BY <1>6, <2>1, <2>2
  <1>8. ASSUME NEW k \in Labels(i) PROVE EncodedIn(l, f, k, Target(i, k))
    <2>1. k \in 1..m
      <3>1. k \in Refers(l) /\ Sound(l)
        BY <1>8 DEF LineOf
      <3> QED BY <1>1, <3>1, ReferIs
    <2>2. PICK x, y : x = 2 * k - 1 /\ y = 2 * k
      OBVIOUS
    <2>3. /\ x \in 1..2 * m /\ y \in 1..2 * m /\ (x + 1) \div 2 = k /\ (y + 1) \div 2 = k
          /\ x % 2 = 1 /\ y % 2 = 0
      BY <1>2, <2>1, <2>2
    <2>4. f[x] = Word(Target(i, k))[1] /\ f[y] = Word(Target(i, k))[2]
      BY <1>2, <1>3, <1>8, <2>3
    <2> QED BY <2>2, <2>4 DEF EncodedIn
  <1> QED BY <1>1, <1>2, <1>4, <1>7, <1>8

LEMMA LinkedOperand ==
  ASSUME NEW i, NEW l, NEW n, LineOf(i, l, n), l.imm \in {"w", "R", "r"}, Len(l.params) = 1,
         Width[l.imm] <= Len(l.code), \A k \in Labels(i) : Target(i, k) \in Int, Labels(i) # {}
  PROVE  /\ Linked(i) \in Seq(Byte) /\ Len(Linked(i)) = Len(l.code)
         /\ \A k \in Labels(i) : EncodedIn(l, Linked(i), k, Target(i, k))
  <1>1. PICK c, w, m, e, t : /\ c = l.code /\ w = Width[l.imm] /\ m = Len(c) /\ t = Target(i, 1)
                             /\ e = Encode(l.imm, t, l.address + m)
    OBVIOUS
  <1>2. c \in Seq(Byte) /\ m \in Nat /\ w \in 1..2 /\ w <= m /\ l = lines[i] /\ l.address \in Nat
    BY <1>1 DEF LineOf, Width
  <1>3. Labels(i) = {1}
    <2>1. \A k \in Labels(i) : k \in 1..Len(l.params)
      BY ReferIs DEF LineOf
    <2> QED BY <2>1
  <1>4. t \in Int /\ l.address + m \in Int
    BY <1>1, <1>2, <1>3
  <1>5. e \in Seq(Byte) /\ Len(e) = w
    <2>1. PICK imm, next : imm = l.imm /\ next = l.address + m
      OBVIOUS
    <2>2. imm \in {"b", "r", "R", "w"} /\ next \in Int
      BY <1>4, <2>1
    <2>3. Encode(imm, t, next) \in Seq(Byte) /\ Len(Encode(imm, t, next)) = Width[imm]
      BY <1>4, <2>2, EncodeType
    <2> QED BY <1>1, <2>1, <2>3
  <1>6. PICK h : h = SubSeq(c, 1, m - w)
    OBVIOUS
  <1>7. Linked(i) = h \o e
    <2>1. Next_(i) = l.address + m
      BY <1>1, <1>2 DEF Next_
    <2> QED BY <1>1, <1>2, <1>3, <1>6, <2>1 DEF Linked
  <1>8. h \in Seq(Byte) /\ Len(h) = m - w
    <2>1. m - w \in Int /\ \A x \in 1..m - w : x \in 1..m
      BY <1>2
    <2>2. \A x \in 1..m - w : c[x] \in Byte
      BY <1>1, <1>2, <2>1
    <2>3. h \in Seq(Byte) /\ Len(h) = IF 1 <= m - w THEN m - w - 1 + 1 ELSE 0
      BY <1>6, <2>1, <2>2, SubSeqProperties
    <2> QED BY <1>2, <2>3
  <1>9. PICK f : f = h \o e
    OBVIOUS
  <1>10. /\ f \in Seq(Byte) /\ Len(f) = Len(h) + Len(e)
         /\ \A x \in 1..Len(h) + Len(e) : f[x] = IF x <= Len(h) THEN h[x] ELSE e[x - Len(h)]
    BY <1>5, <1>8, <1>9, ConcatProperties
  <1>11. Len(f) = m /\ \A x \in 1..m : f[x] = IF x <= m - w THEN h[x] ELSE e[x - (m - w)]
    BY <1>2, <1>5, <1>8, <1>10
  <1>12. \A b \in 1..w : f[m - w + b] = e[b]
    <2>1. ASSUME NEW b \in 1..w PROVE f[m - w + b] = e[b]
      <3>1. m - w + b \in 1..m /\ ~(m - w + b <= m - w) /\ (m - w + b) - (m - w) = b
        BY <1>2, <2>1
      <3>2. f[m - w + b] = e[(m - w + b) - (m - w)]
        BY <1>11, <3>1
      <3> QED BY <3>1, <3>2
    <2> QED BY <2>1
  <1>13. EncodedIn(l, f, 1, t)
    <2>1. l.imm # "dw"
      OBVIOUS
    <2> QED BY <1>1, <1>11, <1>12, <2>1 DEF EncodedIn
  <1> QED BY <1>1, <1>3, <1>7, <1>9, <1>10, <1>11, <1>13

LEMMA LinkedIs ==
  ASSUME Table(lines, map), NEW i \in 1..Len(lines), LinkError(i) = OK
  PROVE  /\ Linked(i) \in Seq(Byte) /\ Len(Linked(i)) = Len(lines[i].code)
         /\ \A k \in Labels(i) : /\ AtLabel(lines[i].params[k], i) # 0
                                 /\ ~TooFar(lines[i].imm, Target(i, k), Next_(i))
                                 /\ EncodedIn(lines[i], Linked(i), k, Target(i, k))
  <1>1. PICK l, n : LineOf(i, l, n)
    BY LineIs
  <1>2. l = lines[i] /\ Sound(l) /\ Labels(i) = Refers(l) /\ l.code \in Seq(Byte)
    BY <1>1 DEF LineOf
  <1>3. \A k \in Labels(i) : /\ AtLabel(lines[i].params[k], i) # 0
                             /\ ~TooFar(lines[i].imm, Target(i, k), Next_(i))
    BY DEF LinkError, OK
  <1>4. \A k \in Labels(i) : Target(i, k) \in Int
    <2>1. \A k \in Labels(i) : Target(i, k) \in 0..META
      BY <1>3, TargetType
    <2>2. \A x : x \in 0..META => x \in Int
      OBVIOUS
    <2> QED BY <2>1, <2>2
  <1>5. CASE Labels(i) = {}
    <2>1. Linked(i) = l.code
      BY <1>2, <1>5 DEF Linked
    <2> QED BY <1>2, <1>5, <2>1
  <1>6. CASE Labels(i) # {}
    <2>1. Room(l)
      BY <1>2, <1>6, ReferIs
    <2>2. CASE l.imm = "dw" /\ Len(l.code) = 2 * Len(l.params)
      BY <1>1, <1>2, <1>3, <1>4, <1>6, <2>2, LinkedWords
    <2>3. CASE l.imm \in {"w", "R", "r"} /\ Len(l.params) = 1 /\ Width[l.imm] <= Len(l.code)
      BY <1>1, <1>2, <1>3, <1>4, <1>6, <2>3, LinkedOperand
    <2> QED BY <2>1, <2>2, <2>3 DEF Room
  <1> QED BY <1>5, <1>6

-------------------------------------------------------------------------------
(* A step of pass 2.                                                       *)
Bound(i) ==
  \A k \in Labels(i) : /\ AtLabel(lines[i].params[k], i) # 0
                       /\ ~TooFar(lines[i].imm, Target(i, k), Next_(i))
                       /\ EncodedIn(lines[i], lines[i].code, k, Target(i, k))
LinkInv == at \in Nat \ {0} /\ \A i \in 1..Len(lines) : i < at => Bound(i)

(* Lines that differ in their bytes only, each as long as it was.          *)
Like(m, l) ==
  /\ m.label = l.label /\ m.alias = l.alias /\ m.file = l.file /\ m.address = l.address
  /\ m.params = l.params /\ m.imm = l.imm /\ Refers(m) = Refers(l) /\ Len(m.code) = Len(l.code)
Recoded(n) ==
  /\ DOMAIN lines = 1..n /\ DOMAIN lines' = 1..n /\ Len(lines) = n /\ Len(lines') = n /\ n \in Nat
  /\ \A k \in 1..n : Like(lines'[k], lines[k])

LEMMA RecodedScopes ==
  ASSUME NEW n, Recoded(n), Scoped(lines), Unique(lines)
  PROVE  SameScopes /\ Scoped(lines') /\ Unique(lines') /\ StaysOpen(lines, lines')
  <1>1. /\ DOMAIN lines = 1..n /\ DOMAIN lines' = 1..n /\ Len(lines) = n /\ Len(lines') = n
        /\ \A k \in 1..n : /\ lines'[k].label = lines[k].label /\ lines'[k].alias = lines[k].alias
                           /\ lines'[k].file = lines[k].file
    BY DEF Recoded, Like
  <1>2. SameScopes
    BY <1>1 DEF SameScopes
  <1>3. \A f : FileOpen(lines', f) <=> FileOpen(lines, f)
    BY <1>1 DEF FileOpen
  <1>4. Scoped(lines')
    BY <1>1, <1>3 DEF Scoped
  <1>5. Unique(lines')
    BY <1>1 DEF Unique
  <1> QED BY <1>2, <1>3, <1>4, <1>5 DEF StaysOpen

LEMMA RecodedTargets ==
  ASSUME NEW n, Recoded(n), Table(lines, map), NEW i \in 1..n
  PROVE  /\ Labels(i)' = Labels(i) /\ Next_(i)' = Next_(i)
         /\ lines'[i].params = lines[i].params /\ lines'[i].imm = lines[i].imm
         /\ lines'[i].address = lines[i].address
         /\ \A k \in Labels(i) : /\ AtLabel(lines[i].params[k], i)' = AtLabel(lines[i].params[k], i)
                                 /\ AtLabel(lines[i].params[k], i) # 0 => Target(i, k)' = Target(i, k)
  <1>1. /\ DOMAIN lines = 1..n /\ Len(lines) = n /\ n \in Nat
        /\ \A k \in 1..n : Like(lines'[k], lines[k])
    BY DEF Recoded
  <1>2. Like(lines'[i], lines[i])
    BY <1>1
  <1>3. /\ lines'[i].params = lines[i].params /\ lines'[i].imm = lines[i].imm
        /\ lines'[i].address = lines[i].address
        /\ Len(lines'[i].code) = Len(lines[i].code) /\ Refers(lines'[i]) = Refers(lines[i])
    BY <1>2 DEF Like
  <1>4. Labels(i) = Refers(lines[i]) /\ Labels(i)' = Refers(lines'[i])
    BY DEF Labels, Refers
  <1>5. Next_(i)' = Next_(i)
    BY <1>3 DEF Next_
  <1>6. SameScopes
    BY RecodedScopes DEF Table
  <1>7. ASSUME NEW k \in Labels(i)
        PROVE  /\ AtLabel(lines[i].params[k], i)' = AtLabel(lines[i].params[k], i)
               /\ AtLabel(lines[i].params[k], i) # 0 => Target(i, k)' = Target(i, k)
    <2>1. PICK p : p = lines[i].params[k]
      OBVIOUS
    <2>2. p \in LabelOperand
      <3>1. i \in 1..Len(lines)
        BY <1>1
      <3>2. Sound(lines[i])
        BY <3>1 DEF Table, LinesAre
      <3> QED BY <1>4, <1>7, <2>1, <3>2, ReferIs
    <2>3. AtLabel(p, i)' = AtLabel(p, i)
      BY <1>1, <1>6, <2>2, LabelSame
    <2>4. lines'[i].params[k] = p
      BY <1>3, <2>1
    <2>5. PICK j : j = AtLabel(p, i)
      OBVIOUS
    <2>6. Target(i, k) = lines[j].address
      BY <2>1, <2>5 DEF Target
    <2>7. Target(i, k)' = lines'[j].address
      <3>1. AtLabel(p, i)' = j
        BY <2>3, <2>5
      <3> QED BY <2>4, <3>1 DEF Target
    <2>8. j # 0 => j \in 1..n
      BY <1>1, <2>2, <2>5, LabelIs
    <2>9. j # 0 => lines'[j].address = lines[j].address
      BY <1>1, <2>8 DEF Like
    <2> QED BY <2>1, <2>3, <2>4, <2>5, <2>6, <2>7, <2>9
  <1> QED BY <1>3, <1>4, <1>5, <1>7

LEMMA BoundStays ==
  ASSUME NEW n, Recoded(n), Table(lines, map), NEW i \in 1..n, Bound(i), lines'[i] = lines[i]
  PROVE  Bound(i)'
  <1>1. /\ Labels(i)' = Labels(i) /\ Next_(i)' = Next_(i)
        /\ \A k \in Labels(i) : /\ AtLabel(lines[i].params[k], i)' = AtLabel(lines[i].params[k], i)
                                /\ AtLabel(lines[i].params[k], i) # 0 => Target(i, k)' = Target(i, k)
    BY RecodedTargets
  <1>2. ASSUME NEW k \in Labels(i)
        PROVE  /\ AtLabel(lines[i].params[k], i)' # 0
               /\ ~TooFar(lines'[i].imm, Target(i, k)', Next_(i)')
               /\ EncodedIn(lines'[i], lines'[i].code, k, Target(i, k)')
    <2>1. /\ AtLabel(lines[i].params[k], i) # 0
          /\ ~TooFar(lines[i].imm, Target(i, k), Next_(i))
          /\ EncodedIn(lines[i], lines[i].code, k, Target(i, k))
      BY <1>2 DEF Bound
    <2>2. Target(i, k)' = Target(i, k) /\ AtLabel(lines[i].params[k], i)' # 0
      BY <1>1, <1>2, <2>1
    <2> QED BY <1>1, <2>1, <2>2
  <1> QED BY <1>1, <1>2 DEF Bound

LEMMA BoundNew ==
  ASSUME NEW n, Recoded(n), Table(lines, map), NEW i \in 1..n, LinkError(i) = OK, lines'[i].code = Linked(i)
  PROVE  Bound(i)'
  <1>1. /\ Labels(i)' = Labels(i) /\ Next_(i)' = Next_(i)
        /\ lines'[i].imm = lines[i].imm /\ lines'[i].address = lines[i].address
        /\ \A k \in Labels(i) : /\ AtLabel(lines[i].params[k], i)' = AtLabel(lines[i].params[k], i)
                                /\ AtLabel(lines[i].params[k], i) # 0 => Target(i, k)' = Target(i, k)
    BY RecodedTargets
  <1>2. i \in 1..Len(lines)
    BY DEF Recoded
  <1>3. \A k \in Labels(i) : /\ AtLabel(lines[i].params[k], i) # 0
                             /\ ~TooFar(lines[i].imm, Target(i, k), Next_(i))
                             /\ EncodedIn(lines[i], Linked(i), k, Target(i, k))
    BY <1>2, LinkedIs
  <1>4. ASSUME NEW k \in Labels(i)
        PROVE  /\ AtLabel(lines[i].params[k], i)' # 0
               /\ ~TooFar(lines'[i].imm, Target(i, k)', Next_(i)')
               /\ EncodedIn(lines'[i], lines'[i].code, k, Target(i, k)')
    <2>1. Target(i, k)' = Target(i, k) /\ AtLabel(lines[i].params[k], i)' # 0
      BY <1>1, <1>3, <1>4
    <2>2. EncodedIn(lines[i], Linked(i), k, Target(i, k))
      BY <1>3, <1>4
    <2>3. EncodedIn(lines'[i], Linked(i), k, Target(i, k))
      BY <1>1, <2>2 DEF EncodedIn
    <2> QED BY <1>1, <1>3, <1>4, <2>1, <2>3
  <1> QED BY <1>1, <1>4 DEF Bound

LEMMA SameBound ==
  ASSUME Table(lines, map), lines' = lines
  PROVE  \A i \in 1..Len(lines) : Bound(i) => Bound(i)'
  <1>1. PICK n : n = Len(lines)
    OBVIOUS
  <1>2. n \in Nat /\ DOMAIN lines = 1..n
    BY <1>1, LenProperties DEF Table, LinesAre
  <1>3. \A k \in 1..n : Like(lines'[k], lines[k])
    BY DEF Like
  <1>4. Recoded(n)
    BY <1>1, <1>2, <1>3 DEF Recoded
  <1>5. \A i \in 1..n : lines'[i] = lines[i]
    OBVIOUS
  <1> QED BY <1>1, <1>4, <1>5, BoundStays

LEMMA LinkStep ==
  ASSUME Pass1Inv, LinkInv, Link
  PROVE  Pass1Inv' /\ LinkInv'
  <1>1. /\ phase = "pass2" /\ phase' = phase /\ at <= Len(lines) /\ err' = LinkError(at)
        /\ UNCHANGED <<source, stack, macros, address, embedlist>>
    BY DEF Link
  <1>2. CASE err' # OK
    <2>1. UNCHANGED <<lines, map, at>>
      BY <1>2 DEF Link
    <2>2. Pass1Inv'
      BY <1>1, <2>1 DEF Pass1Inv, ReadingInv
    <2>3. LinkInv'
      <3>1. \A i \in 1..Len(lines) : Bound(i) => Bound(i)'
        BY <2>1, SameBound DEF Pass1Inv
      <3> QED BY <2>1, <3>1 DEF LinkInv
    <2> QED BY <2>2, <2>3
  <1>3. CASE err' = OK
    <2>1. /\ lines' = [lines EXCEPT ![at].code = Linked(at)]
          /\ map' = Over(Bytes(lines'[at]), map)
          /\ at' = at + 1
      BY <1>3 DEF Link
    <2>2. PICK i, n, c : i = at /\ n = Len(lines) /\ c = Linked(at)
      OBVIOUS
    <2>3. Table(lines, map) /\ LinesAre(lines, map) /\ Scoped(lines) /\ Unique(lines) /\ ReadingInv
      BY DEF Pass1Inv, Table
    <2>4. lines \in Seq(LineType) /\ n \in Nat /\ DOMAIN lines = 1..n /\ \A k \in 1..n : Sound(lines[k])
      BY <2>2, <2>3, LenProperties DEF LinesAre
    <2>5. i \in 1..n /\ i \in 1..Len(lines) /\ LinkError(i) = OK /\ i \in Nat
      <3>1. at \in Nat \ {0}
        BY DEF LinkInv
      <3>2. i \in 1..n
        BY <1>1, <2>2, <2>4, <3>1
      <3>3. LinkError(i) = OK
        BY <1>1, <1>3, <2>2
      <3> QED BY <2>2, <3>2, <3>3
    <2>6. c \in Seq(Byte) /\ Len(c) = Len(lines[i].code)
      BY <2>2, <2>3, <2>5, LinkedIs
    <2>7. PICK l : l = lines[i]
      OBVIOUS
    <2>8. Sound(l) /\ Len(c) = Len(l.code)
      BY <2>4, <2>5, <2>6, <2>7
    <2>9. PICK m : /\ m = WithCode(l, c) /\ Sound(m) /\ m.code = c /\ DOMAIN Bytes(m) = DOMAIN Bytes(l)
                   /\ m.label = l.label /\ m.alias = l.alias /\ m.file = l.file /\ m.address = l.address
                   /\ m.params = l.params /\ m.imm = l.imm /\ Refers(m) = Refers(l)
      BY <2>6, <2>8, RecodedType
    <2>10. lines' = [lines EXCEPT ![i] = m]
      BY <2>1, <2>2, <2>7, <2>9 DEF WithCode
    <2>11. m \in LineType
      BY <2>9 DEF Sound
    <2>12. /\ lines' \in Seq(LineType) /\ Len(lines') = n /\ DOMAIN lines' = 1..n
           /\ lines'[i] = m /\ \A k \in 1..n : k # i => lines'[k] = lines[k]
      BY <2>2, <2>4, <2>5, <2>10, <2>11, ExceptSeq, LenProperties
    <2>13. LinesAre(lines', map')
      <3>1. DOMAIN Bytes(m) = DOMAIN Bytes(lines[i])
        BY <2>7, <2>9
      <3>2. LinesAre([lines EXCEPT ![i] = m], Over(Bytes(m), map))
        BY <2>3, <2>5, <2>9, <3>1, LineRecoded
      <3>3. map' = Over(Bytes(m), map)
        BY <2>1, <2>2, <2>12
      <3> QED BY <2>10, <3>2, <3>3
    <2>14. Recoded(n)
      <3>1. ASSUME NEW k \in 1..n PROVE Like(lines'[k], lines[k])
        <4>1. CASE k = i
          BY <2>7, <2>8, <2>9, <2>12, <4>1 DEF Like
        <4>2. CASE k # i
          BY <2>12, <3>1, <4>2 DEF Like
        <4> QED BY <4>1, <4>2
      <3> QED BY <2>2, <2>4, <2>12, <3>1 DEF Recoded
    <2>15. Scoped(lines') /\ Unique(lines') /\ StaysOpen(lines, lines')
      BY <2>3, <2>14, RecodedScopes
    <2>16. Pass1Inv'
      <3>1. StackOpen(stack', lines')
        BY <1>1, <2>3, <2>15 DEF ReadingInv, StackOpen, StaysOpen
      <3>2. ReadingInv'
        BY <1>1, <2>3, <3>1 DEF ReadingInv
      <3> QED BY <2>13, <2>15, <3>2 DEF Pass1Inv, Table
    <2>17. ASSUME NEW k \in 1..n, k < at' PROVE Bound(k)'
      <3>1. CASE k = i
        <4>1. lines'[i].code = Linked(i)
          BY <2>2, <2>9, <2>12
        <4> QED BY <2>3, <2>5, <2>14, <3>1, <4>1, BoundNew
      <3>2. CASE k # i
        <4>1. k < at
          BY <2>1, <2>2, <2>5, <2>17, <3>2
        <4>2. Bound(k)
          BY <2>2, <2>17, <4>1 DEF LinkInv
        <4>3. lines'[k] = lines[k]
          BY <2>12, <2>17, <3>2
        <4> QED BY <2>3, <2>14, <2>17, <4>2, <4>3, BoundStays
      <3> QED BY <3>1, <3>2
    <2>18. at' \in Nat \ {0}
      BY <2>1 DEF LinkInv
    <2> QED BY <2>12, <2>16, <2>17, <2>18 DEF LinkInv
  <1> QED BY <1>2, <1>3

-------------------------------------------------------------------------------
(* The inductive invariant of the assembler and its loader.                *)
SavedInv ==
  at > Len(lines) /\ \E a, r, b : Laid(Images, Saved, a, r, b) /\ LoaderInv(Images, Saved, a, r, b, ~cut, load)
AsmInv ==
  /\ Pass1Inv /\ LinkInv
  /\ phase = "pass1" => at = 1
  /\ cut \in BOOLEAN /\ (cut => phase = "load")
  /\ phase = "load" => SavedInv

LEMMA TheProgram ==
  ASSUME Pass1Inv
  PROVE  /\ Program(map, embedlist) /\ Whole(Images) /\ IsMaps(Images) /\ Saved = FileOf(Images)
         /\ Images[1].code = map
  <1>1. PICK n, c, e : n = Len(lines) /\ c = map /\ e = embedlist
    OBVIOUS
  <1>2. Filled(AllBytes(lines), n, map) /\ lines \in Seq(LineType)
    BY <1>1 DEF Pass1Inv, Table, LinesAre
  <1>3. DOMAIN lines = 1..n
    BY <1>1, <1>2, LenProperties
  <1>4. Own.code = map /\ map \in Code
    BY <1>2, <1>3, OwnIs
  <1>5. Program(c, e)
    BY <1>1, <1>4 DEF Program, Pass1Inv, ReadingInv
  <1>6. Whole(Images) /\ Saved = FileOf(Images)
    BY <1>1, <1>5, ImagesWhole, SavedFile
  <1>7. IsMaps(Images) /\ Images[1].code = map
    BY <1>4, <1>6, MapsOfSeq DEF Whole
  <1> QED BY <1>1, <1>5, <1>6, <1>7

LEMMA SaveStep ==
  ASSUME AsmInv, SaveFile
  PROVE  AsmInv'
  <1>1. /\ phase = "pass2" /\ at > Len(lines) /\ phase' = "load"
        /\ UNCHANGED <<source, left, stack, macros, address, lines, map, embedlist, at, err, cut>>
    BY DEF SaveFile
  <1>2. Pass1Inv'
    BY <1>1 DEF AsmInv, Pass1Inv, ReadingInv
  <1>3. LinkInv'
    <2>1. \A i \in 1..Len(lines) : Bound(i) => Bound(i)'
      BY <1>1, SameBound DEF AsmInv, Pass1Inv
    <2> QED BY <1>1, <2>1 DEF AsmInv, LinkInv
  <1>4. Whole(Images) /\ IsMaps(Images) /\ Saved = FileOf(Images)
    BY TheProgram DEF AsmInv
  <1>5. Images' = Images /\ Saved' = Saved
    BY <1>1 DEF Images, Saved, Own, OneLine
  <1>6. PICK C, F : C = Images /\ F = Saved
    OBVIOUS
  <1>7. IsMaps(C) /\ F = FileOf(C) /\ C[1].rombank = UNSET /\ C[1].rambank = UNSET
    BY <1>4, <1>6 DEF Whole
  <1>8. F \in Seq(Int) /\ \E a, r, b : Laid(C, F, a, r, b)
    BY <1>7, FileLaid
  <1>9. PICK a, r, b : Laid(C, F, a, r, b)
    BY <1>8
  <1>10. PICK format \in {"BINARY", "HEXA"} : load' = Open(Saved, format)
    BY DEF SaveFile
  <1>11. LoaderInv(C, F, a, r, b, TRUE, Open(F, format))
    BY <1>7, <1>8, LoaderOpens
  <1>12. ~cut' = TRUE /\ cut' \in BOOLEAN
    BY <1>1 DEF AsmInv
  <1>13. LoaderInv(Images', Saved', a, r, b, ~cut', load')
    BY <1>5, <1>6, <1>10, <1>11, <1>12
  <1>14. Laid(Images', Saved', a, r, b)
    BY <1>5, <1>6, <1>9
  <1>15. SavedInv'
    BY <1>1, <1>13, <1>14 DEF SavedInv
  <1> QED BY <1>1, <1>2, <1>3, <1>12, <1>15 DEF AsmInv

(* What the loader does leaves the program alone.                          *)
LEMMA LoadingStep ==
  ASSUME AsmInv, phase = "load", NEW w, cut' = w, w \in BOOLEAN,
         UNCHANGED <<source, left, stack, macros, address, lines, map, embedlist, at, err, phase>>,
         \A C, F, a, r, b : /\ C = Images /\ IsMaps(C) /\ Laid(C, F, a, r, b)
                            /\ LoaderInv(C, F, a, r, b, ~cut, load)
                            => LoaderInv(C, F, a, r, b, ~w, load')
  PROVE  AsmInv'
  <1>1. Pass1Inv'
    BY DEF AsmInv, Pass1Inv, ReadingInv
  <1>2. LinkInv'
    <2>1. \A i \in 1..Len(lines) : Bound(i) => Bound(i)'
      BY SameBound DEF AsmInv, Pass1Inv
    <2> QED BY <2>1 DEF AsmInv, LinkInv
  <1>3. Images' = Images /\ Saved' = Saved
    BY DEF Images, Saved, Own, OneLine
  <1>4. IsMaps(Images)
    BY TheProgram DEF AsmInv
  <1>5. PICK a, r, b : Laid(Images, Saved, a, r, b) /\ LoaderInv(Images, Saved, a, r, b, ~cut, load)
    BY DEF AsmInv, SavedInv
  <1>6. LoaderInv(Images, Saved, a, r, b, ~w, load')
    BY <1>4, <1>5
  <1>7. LoaderInv(Images', Saved', a, r, b, ~cut', load') /\ Laid(Images', Saved', a, r, b)
    BY <1>3, <1>5, <1>6
  <1>8. SavedInv'
    <2>1. at' > Len(lines')
      BY DEF AsmInv, SavedInv
    <2> QED BY <1>7, <2>1 DEF SavedInv
  <1> QED BY <1>1, <1>2, <1>8 DEF AsmInv

LEMMA LoadStepInv ==
  ASSUME AsmInv, Load
  PROVE  AsmInv'
  <1>1. /\ phase = "load" /\ Loading(load) /\ load' = LoadStep(load) /\ cut' = cut
        /\ UNCHANGED <<source, left, stack, macros, address, lines, map, embedlist, at, err, phase>>
    BY DEF Load
  <1>2. cut \in BOOLEAN /\ (~cut) \in BOOLEAN
    <2>1. cut \in BOOLEAN
      BY DEF AsmInv
    <2> QED BY <2>1, Zenon
  <1>3. ASSUME NEW C, NEW F, NEW a, NEW r, NEW b, C = Images, IsMaps(C), Laid(C, F, a, r, b),
               LoaderInv(C, F, a, r, b, ~cut, load)
        PROVE  LoaderInv(C, F, a, r, b, ~cut, load')
    <2>1. PICK whole, ld : whole = ~cut /\ ld = load
      OBVIOUS
    <2>2. whole \in BOOLEAN
      BY <1>2, <2>1
    <2>3. Loading(ld) /\ LoaderInv(C, F, a, r, b, whole, ld)
      BY <1>1, <1>3, <2>1
    <2>4. LoaderInv(C, F, a, r, b, whole, LoadStep(ld))
      BY <1>3, <2>2, <2>3, LoaderStep
    <2> QED BY <1>1, <2>1, <2>4
  <1>4. PICK w : w = cut
    OBVIOUS
  <1>5. cut' = w /\ w \in BOOLEAN
    BY <1>1, <1>2, <1>4
  <1>6. \A C, F, a, r, b : /\ C = Images /\ IsMaps(C) /\ Laid(C, F, a, r, b)
                           /\ LoaderInv(C, F, a, r, b, ~cut, load)
                           => LoaderInv(C, F, a, r, b, ~w, load')
    BY <1>3, <1>4
  <1> QED BY <1>1, <1>5, <1>6, LoadingStep

LEMMA CutStep ==
  ASSUME AsmInv, CutFile
  PROVE  AsmInv'
  <1>1. /\ phase = "load" /\ load.at = 1 /\ Loading(load) /\ cut' = TRUE
        /\ UNCHANGED <<source, left, stack, macros, address, lines, map, embedlist, at, err, phase>>
    BY DEF CutFile
  <1>2. PICK n \in 0..(Len(load.file) - 1) : load' = [load EXCEPT !.file = SubSeq(@, 1, n)]
    BY DEF CutFile
  <1>3. cut \in BOOLEAN /\ (~cut) \in BOOLEAN
    <2>1. cut \in BOOLEAN
      BY DEF AsmInv
    <2> QED BY <2>1, Zenon
  <1>4. ASSUME NEW C, NEW F, NEW a, NEW r, NEW b, LoaderInv(C, F, a, r, b, ~cut, load)
        PROVE  LoaderInv(C, F, a, r, b, FALSE, load')
    <2>1. PICK whole, ld : whole = ~cut /\ ld = load
      OBVIOUS
    <2>2. whole \in BOOLEAN /\ n \in 0..(Len(ld.file) - 1) /\ ld.at = 1
      BY <1>1, <1>2, <1>3, <2>1
    <2>3. Loading(ld) /\ LoaderInv(C, F, a, r, b, whole, ld)
      BY <1>1, <1>4, <2>1
    <2>4. LoaderInv(C, F, a, r, b, FALSE, [ld EXCEPT !.file = SubSeq(@, 1, n)])
      BY <2>2, <2>3, LoaderCut
    <2> QED BY <1>2, <2>1, <2>4
  <1>5. PICK w : w = TRUE
    OBVIOUS
  <1>6. cut' = w /\ w \in BOOLEAN
    BY <1>1, <1>5
  <1>7. \A C, F, a, r, b : /\ C = Images /\ IsMaps(C) /\ Laid(C, F, a, r, b)
                           /\ LoaderInv(C, F, a, r, b, ~cut, load)
                           => LoaderInv(C, F, a, r, b, ~w, load')
    <2>1. (~w) = FALSE
      BY <1>5, Zenon
    <2>2. ASSUME NEW C, NEW F, NEW a, NEW r, NEW b, LoaderInv(C, F, a, r, b, ~cut, load)
          PROVE  LoaderInv(C, F, a, r, b, ~w, load')
      <3>1. LoaderInv(C, F, a, r, b, FALSE, load')
        BY <1>4, <2>2
      <3> QED BY <2>1, <3>1, Zenon
    <2> QED BY <2>2
  <1> QED BY <1>1, <1>6, <1>7, LoadingStep

(* A step of pass 1.                                                       *)
LEMMA ReadingStep ==
  ASSUME AsmInv, Reading, Pass1Inv', phase' # "load", UNCHANGED <<at, cut>>
  PROVE  AsmInv'
  <1>1. at = 1 /\ at' = 1
    BY DEF AsmInv, Reading
  <1>2. LinkInv'
    <2>1. Len(lines') \in Nat /\ \A i \in 1..Len(lines') : ~(i < 1)
      BY LenProperties DEF Pass1Inv, Table, LinesAre
    <2> QED BY <1>1, <2>1 DEF LinkInv
  <1>3. cut = FALSE
    BY DEF AsmInv, Reading
  <1> QED BY <1>1, <1>2, <1>3 DEF AsmInv

LEMMA ParsedStep ==
  ASSUME AsmInv, NEW src \in ParsedLines,
         \/ Refuse(src) \/ Lone(src) \/ Emit(src) \/ Align(src) \/ Org(src) \/ Space(src)
         \/ StartMacro(src) \/ Enter(src) \/ EmbedFile(src)
  PROVE  AsmInv'
  <1>1. Reading /\ phase = "pass1" /\ Pass1Inv
    BY DEF ParsedLines, Reading, AsmInv
  <1>2. UNCHANGED <<phase, at, cut>>
    BY DEF Refuse, Lone, Emit, Align, Org, Space, StartMacro, Enter, EmbedFile, After1
  <1>3. Pass1Inv'
    <2>1. CASE Refuse(src)
      BY <1>1, <2>1, RefuseStep
    <2>2. CASE Lone(src)
      BY <1>1, <2>2, LoneStep
    <2>3. CASE Emit(src)
      BY <1>1, <2>3, EmitStep
    <2>4. CASE Align(src)
      BY <1>1, <2>4, AlignStep
    <2>5. CASE Org(src)
      BY <1>1, <2>5, OrgStep
    <2>6. CASE Space(src)
      BY <1>1, <2>6, SpaceStep
    <2>7. CASE StartMacro(src)
      BY <1>1, <2>7, StartMacroStep
    <2>8. CASE Enter(src)
      BY <1>1, <2>8, EnterStep
    <2>9. CASE EmbedFile(src)
      BY <1>1, <2>9, EmbedFileStep
    <2> QED BY <2>1, <2>2, <2>3, <2>4, <2>5, <2>6, <2>7, <2>8, <2>9
  <1> QED BY <1>1, <1>2, <1>3, ReadingStep

LEMMA StutterStep ==
  ASSUME AsmInv, UNCHANGED vars
  PROVE  AsmInv'
  <1>1. UNCHANGED <<source, stack, macros, address, lines, map, embedlist, at, phase, cut, load>>
    BY DEF vars
  <1>2. Pass1Inv'
    BY <1>1 DEF AsmInv, Pass1Inv, ReadingInv
  <1>3. LinkInv'
    <2>1. \A i \in 1..Len(lines) : Bound(i) => Bound(i)'
      BY <1>1, SameBound DEF AsmInv, Pass1Inv
    <2> QED BY <1>1, <2>1 DEF AsmInv, LinkInv
  <1>4. Images' = Images /\ Saved' = Saved
    BY <1>1 DEF Images, Saved, Own, OneLine
  <1>5. SavedInv => SavedInv'
    BY <1>1, <1>4 DEF SavedInv
  <1> QED BY <1>1, <1>2, <1>3, <1>5 DEF AsmInv

(* The invariant holds in every state of the assembler.                    *)
THEOREM AsmInvariant == Spec => []AsmInv
  <1>1. Init => AsmInv
    <2> SUFFICES ASSUME Init PROVE AsmInv
      OBVIOUS
    <2>1. Pass1Inv
      BY InitInv
    <2>2. at = 1 /\ phase = "pass1" /\ cut = FALSE
      BY DEF Init
    <2>3. LinkInv
      <3>1. Len(lines) \in Nat /\ \A i \in 1..Len(lines) : ~(i < 1)
        BY <2>1, LenProperties DEF Pass1Inv, Table, LinesAre
      <3> QED BY <2>2, <3>1 DEF LinkInv
    <2> QED BY <2>1, <2>2, <2>3 DEF AsmInv
  <1>2. AsmInv /\ [Next]_vars => AsmInv'
    <2> SUFFICES ASSUME AsmInv, [Next]_vars PROVE AsmInv'
      OBVIOUS
    <2>1. ASSUME NEW src \in ParsedLines,
                 \/ Refuse(src) \/ Lone(src) \/ Emit(src) \/ Align(src) \/ Org(src) \/ Space(src)
                 \/ StartMacro(src) \/ Enter(src) \/ EmbedFile(src)
          PROVE  AsmInv'
      BY <2>1, ParsedStep
    <2>2. ASSUME NEW src \in RecordedLines, Record(src) PROVE AsmInv'
      <3>1. Reading /\ phase = "pass1" /\ UNCHANGED <<phase, at, cut>>
        BY <2>2 DEF RecordedLines, Reading, Record, After1
      <3>2. Pass1Inv'
        BY <2>2, RecordStep DEF AsmInv
      <3> QED BY <3>1, <3>2, ReadingStep
    <2>3. CASE EndOfFile
      <3>1. Reading /\ phase' # "load" /\ UNCHANGED <<at, cut>>
        BY <2>3 DEF EndOfFile, Reading
      <3>2. Pass1Inv'
        BY <2>3, EndOfFileStep DEF AsmInv
      <3> QED BY <3>1, <3>2, ReadingStep
    <2>4. CASE Link
      <3>1. Pass1Inv' /\ LinkInv'
        BY <2>4, LinkStep DEF AsmInv
      <3>2. phase = "pass2" /\ UNCHANGED <<phase, cut>>
        BY <2>4 DEF Link
      <3> QED BY <3>1, <3>2 DEF AsmInv
    <2>5. CASE SaveFile
      BY <2>5, SaveStep
    <2>6. CASE CutFile
      BY <2>6, CutStep
    <2>7. CASE Load
      BY <2>7, LoadStepInv
    <2>8. CASE UNCHANGED vars
      BY <2>8, StutterStep
    <2> QED BY <2>1, <2>2, <2>3, <2>4, <2>5, <2>6, <2>7, <2>8 DEF Next
  <1> QED BY <1>1, <1>2, PTL DEF Spec

(* No line is read twice into the map or lost on the way.                  *)
LEMMA AsmLoaded ==
  ASSUME AsmInv
  PROVE  LoadedAsWritten
  <1> SUFFICES ASSUME phase = "load"
               PROVE  /\ \A k, j \in DOMAIN lines : k # j => DOMAIN Bytes(lines[k]) \cap DOMAIN Bytes(lines[j]) = {}
                      /\ Len(load.maps) <= Len(Images)
                      /\ \A m \in DOMAIN load.maps : PartOf(load.maps[m], Images[m])
                      /\ load.state = "OK" /\ load.format = "HEXA" =>
                           \A m \in DOMAIN load.maps : load.maps[m].code \in {<<>>, Images[m].code}
                      /\ ~Loading(load) /\ ~cut => load.state = "OK" /\ load.maps = Images
    BY DEF LoadedAsWritten
  <1>1. \A k, j \in DOMAIN lines : k # j => DOMAIN Bytes(lines[k]) \cap DOMAIN Bytes(lines[j]) = {}
    <2>1. PICK n, B : n = Len(lines) /\ B = AllBytes(lines)
      OBVIOUS
    <2>2. Filled(B, n, map) /\ DOMAIN lines = 1..n
      BY <2>1, LenProperties DEF AsmInv, Pass1Inv, Table, LinesAre
    <2>3. \A k \in DOMAIN lines : B[k] = Bytes(lines[k])
      BY <2>1 DEF AllBytes
    <2> QED BY <2>2, <2>3 DEF Filled
  <1>2. PICK C, F, whole, ld : C = Images /\ F = Saved /\ whole = ~cut /\ ld = load
    OBVIOUS
  <1>3. C \in Seq(Map) /\ IsMaps(C) /\ whole \in BOOLEAN
    BY <1>2, TheProgram DEF AsmInv, Whole
  <1>4. PICK a, r, b : Laid(C, F, a, r, b) /\ LoaderInv(C, F, a, r, b, whole, ld)
    BY <1>2 DEF AsmInv, SavedInv
  <1>5. /\ Len(ld.maps) <= Len(C)
        /\ \A m \in DOMAIN ld.maps : PartOf(ld.maps[m], C[m])
        /\ ld.state = "OK" /\ ld.format = "HEXA" =>
             \A m \in DOMAIN ld.maps : ld.maps[m].code \in {<<>>, C[m].code}
        /\ ~Loading(ld) /\ whole => ld.state = "OK" /\ ld.maps = C
    BY <1>3, <1>4, LoaderHolds
  <1> QED BY <1>1, <1>2, <1>5

THEOREM AsmLoadedAsWritten == Spec => []LoadedAsWritten
  BY AsmInvariant, AsmLoaded, PTL

-------------------------------------------------------------------------------
(* The label found is one that was meant.                                  *)
InScope(g, i) == IsGlobal(g) /\ InSameFile(g, i)
LastGlobal(g, i) ==
  g \in 1..i /\ InScope(g, i) /\ \A j \in (g + 1)..i : InSameFile(j, i) => ~IsGlobal(j)

LEMMA FileLabelGlobal ==
  FILELABEL \notin Locals \cup {NoLabel}
  BY SourcesAssumption DEF NoLabel, FILELABEL

LEMMA TableDomain ==
  ASSUME Table(lines, map)
  PROVE  DOMAIN lines = 1..Len(lines)
  BY LenProperties DEF Table, LinesAre

LEMMA LastGlobalIs ==
  ASSUME Table(lines, map), NEW n \in Nat, DOMAIN lines = 1..n, NEW i \in 1..n
  PROVE  \E g : LastGlobal(g, i)
  <1>1. PICK f : f = lines[i].file
    OBVIOUS
  <1>2. f <= i /\ FileOpen(lines, f)
    BY <1>1, TableDomain DEF Table, Scoped
  <1>3. f \in 1..i /\ InScope(f, i)
    <2>1. f \in 1..n /\ lines[f].label = FILELABEL /\ lines[f].file = f /\ ~lines[f].alias
      BY <1>2, TableDomain DEF FileOpen
    <2> QED BY <1>1, <1>2, <2>1, FileLabelGlobal DEF InScope, IsGlobal, InSameFile
  <1>4. PICK S : S = {j \in 1..i : InScope(j, i)}
    OBVIOUS
  <1>5. S \in SUBSET (1..i) /\ i \in Nat /\ f \in S
    BY <1>3, <1>4
  <1>6. PICK g \in S : \A j \in S : j <= g
    BY <1>5, LastIs
  <1>7. g \in 1..i /\ InScope(g, i)
    BY <1>4
  <1>8. ASSUME NEW j \in (g + 1)..i, InSameFile(j, i), IsGlobal(j) PROVE FALSE
    <2>1. j \in 1..i /\ InScope(j, i)
      BY <1>7, <1>8 DEF InScope
    <2>2. j <= g
      BY <1>4, <1>6, <2>1
    <2> QED BY <1>7, <1>8, <2>2
  <1> QED BY <1>7, <1>8 DEF LastGlobal

LEMMA OwnPartIs ==
  ASSUME Table(lines, map), NEW n \in Nat, DOMAIN lines = 1..n, NEW i \in 1..n
  PROVE  \E g : LastGlobal(g, i) /\ OwnPart(i) = Part(g, lines[i].file)
  <1>1. PICK g : g = CHOOSE h \in 1..i : /\ IsGlobal(h) /\ InSameFile(h, i)
                                         /\ \A j \in (h + 1)..i : InSameFile(j, i) => ~IsGlobal(j)
    OBVIOUS
  <1>2. \E h \in 1..i : /\ IsGlobal(h) /\ InSameFile(h, i)
                        /\ \A j \in (h + 1)..i : InSameFile(j, i) => ~IsGlobal(j)
    BY LastGlobalIs DEF LastGlobal, InScope
  <1>3. LastGlobal(g, i)
    BY <1>1, <1>2 DEF LastGlobal, InScope
  <1>4. OwnPart(i) = Part(g, lines[i].file)
    BY <1>1 DEF OwnPart
  <1> QED BY <1>3, <1>4

(* A local label: where the own part of the line has it, the line upward   *)
(* stops at the label that begins this part.                               *)
LEMMA LocalMeant ==
  ASSUME Table(lines, map), NEW n \in Nat, DOMAIN lines = 1..n, NEW i \in 1..n,
         NEW name, NEW own, own = {m \in OwnPart(i) : Named(m, name)}, own # {}, AtLocal(name, i) # 0
  PROVE  AtLocal(name, i) = CHOOSE m \in own : \A j \in own : m <= j
  <1>1. PICK f, k : f = lines[i].file /\ k = AtLocal(name, i)
    OBVIOUS
  <1>2. PICK g \in 1..i : /\ k = FirstBelow(g, name, f) /\ IsGlobal(g) /\ lines[g].file = f
                          /\ FirstBelow(g, name, f) # 0
                          /\ \A j \in 1..i : /\ IsGlobal(j) /\ lines[j].file = f
                                             /\ FirstBelow(j, name, f) # 0
                                             => j <= g
    BY <1>1, LocalIs
  <1>3. PICK h : LastGlobal(h, i) /\ OwnPart(i) = Part(h, f)
    BY <1>1, OwnPartIs
  <1>4. /\ h \in 1..i /\ IsGlobal(h) /\ lines[h].file = f
        /\ \A j \in (h + 1)..i : lines[j].file = f => ~IsGlobal(j)
    BY <1>1, <1>3 DEF LastGlobal, InScope, InSameFile
  <1>5. \A m : m \in own <=> /\ m \in 1..n /\ m > h /\ lines[m].file = f /\ Named(m, name)
                             /\ \A j \in (h + 1)..m : lines[j].file = f => ~IsGlobal(j)
    BY <1>3 DEF Part
  <1>6. PICK m : m \in own
    OBVIOUS
  <1>7. FirstBelow(h, name, f) # 0
    BY <1>5, <1>6, FirstBelowFound
  <1>8. h <= g
    BY <1>2, <1>4, <1>7
  <1>9. g <= h
    <2>1. g \notin (h + 1)..i
      BY <1>2, <1>4
    <2> QED BY <1>2, <1>4, <2>1
  <1>10. g = h
    BY <1>2, <1>4, <1>8, <1>9
  <1>11. /\ k \in 1..n /\ k > h /\ Named(k, name) /\ lines[k].file = f
         /\ \A j \in 1..n : j > h /\ Named(j, name) /\ lines[j].file = f => k <= j
    <2>1. k = FirstBelow(h, name, f)
      BY <1>2, <1>10
    <2> QED BY <1>7, <2>1, FirstBelowIs
  <1>12. k <= m
    BY <1>5, <1>6, <1>11
  <1>13. k \in own
    <2>1. h \in Int /\ k \in Int /\ m \in Int
      BY <1>4, <1>5, <1>6, <1>11
    <2>2. \A j \in (h + 1)..k : j \in (h + 1)..m
      BY <1>12, <2>1
    <2> QED BY <1>5, <1>6, <1>11, <2>2
  <1>14. \A j \in own : k <= j
    BY <1>5, <1>11
  <1>15. \A j \in own : j \in Int
    BY <1>5
  <1>16. ASSUME NEW x \in own, \A j \in own : x <= j PROVE x = k
    BY <1>13, <1>14, <1>15, <1>16
  <1> QED BY <1>1, <1>13, <1>14, <1>16

LEMMA FoundIsMeant ==
  ASSUME Table(lines, map), NEW n \in Nat, DOMAIN lines = 1..n, NEW i \in 1..n,
         NEW p \in LabelOperand, AtLabel(p, i) # 0
  PROVE  AtLabel(p, i) \in Meant(p, i)
  <1>1. PICK k : k = AtLabel(p, i)
    OBVIOUS
  <1>2. p.global = NoLabel => p.local # NoLabel
    BY DEF LabelOperand
  <1>3. CASE p.global # NoLabel /\ p.local = NoLabel
    <2>1. k = AtGlobal(p.global)
      BY <1>1, <1>3, LabelCases
    <2>2. k \in 1..n /\ Named(k, p.global)
      BY <1>1, <2>1, GlobalIs
    <2> QED BY <1>1, <1>3, <2>2 DEF Meant
  <1>4. CASE p.global # NoLabel /\ p.local # NoLabel
    <2>1. k = AtQualified(p.global, p.local, i)
      BY <1>1, <1>4, LabelCases
    <2>2. PICK g : g = AtGlobal(p.global)
      OBVIOUS
    <2>3. k \in 1..n /\ g # 0 /\ k > g /\ Named(k, p.local) /\ lines[k].file = lines[i].file
      BY <1>1, <2>1, <2>2, QualifiedIs
    <2>4. g \in 1..n /\ Named(g, p.global)
      BY <2>2, <2>3, GlobalIs
    <2>5. g \in 1..k
      BY <2>3, <2>4
    <2> QED BY <1>1, <1>4, <2>3, <2>4, <2>5 DEF Meant, InSameFile
  <1>5. CASE p.global = NoLabel
    <2>1. k = AtLocal(p.local, i) /\ k # 0 /\ p.local # NoLabel
      BY <1>1, <1>2, <1>5, LabelCases
    <2>2. PICK own : own = {m \in OwnPart(i) : Named(m, p.local)}
      OBVIOUS
    <2>3. CASE own # {}
      <3>1. k = CHOOSE m \in own : \A j \in own : m <= j
        BY <2>1, <2>2, <2>3, LocalMeant
      <3> QED BY <1>1, <1>5, <2>1, <2>2, <2>3, <3>1 DEF Meant
    <2>4. CASE own = {}
      <3>1. PICK g \in 1..i : k = FirstBelow(g, p.local, lines[i].file)
        BY <2>1, LocalIs
      <3>2. k \in 1..n /\ Named(k, p.local) /\ lines[k].file = lines[i].file
        BY <2>1, <3>1, FirstBelowIs
      <3> QED BY <1>1, <1>5, <2>1, <2>2, <2>4, <3>2 DEF Meant, InSameFile
    <2> QED BY <2>3, <2>4
  <1> QED BY <1>2, <1>3, <1>4, <1>5

(* A global label is that of one line.                                     *)
LEMMA OneMeant ==
  ASSUME Table(lines, map), NEW n \in Nat, DOMAIN lines = 1..n, NEW i \in 1..n,
         NEW p \in LabelOperand, p.global # NoLabel, p.local = NoLabel, AtLabel(p, i) # 0
  PROVE  Cardinality(Meant(p, i)) = 1
  <1>1. PICK k, M : k = AtLabel(p, i) /\ M = Meant(p, i)
    OBVIOUS
  <1>2. M = {j \in 1..n : Named(j, p.global)}
    BY <1>1 DEF Meant
  <1>3. k \in M
    BY <1>1, FoundIsMeant
  <1>4. Unrepeated(p.global)
    BY DEF LabelOperand, Unrepeated
  <1>5. ASSUME NEW j \in M PROVE j = k
    <2>1. j \in 1..n /\ k \in 1..n /\ lines[j].label = p.global /\ lines[k].label = p.global
      BY <1>2, <1>3, <1>5 DEF Named
    <2> QED BY <1>4, <2>1, TableDomain DEF Table, Unique
  <1>6. M = {k}
    BY <1>3, <1>5
  <1> QED BY <1>1, <1>6, FS_Singleton

-------------------------------------------------------------------------------
(* The bytes of a reference, read by the CPU, give the address of its      *)
(* label.                                                                  *)
LEMMA ModWord ==
  ASSUME NEW s \in Int, NEW x \in Int, 0 <= x, x < 65536
  PROVE  (65536 * s + x) % 65536 = x
  BY SMT

LEMMA WordValue ==
  ASSUME NEW v \in Int
  PROVE  Word(v)[1] + 256 * Word(v)[2] = v % 65536
  <1>1. Word(v)[1] = v % 256 /\ Word(v)[2] = (v \div 256) % 256
    BY DEF Word
  <1>2. PICK q, r : q = v \div 256 /\ r = v % 256
    OBVIOUS
  <1>3. q \in Int /\ r \in Int /\ 0 <= r /\ r <= 255 /\ v = 256 * q + r
    BY <1>2, SMT
  <1>4. PICK s, t : s = q \div 256 /\ t = q % 256
    OBVIOUS
  <1>5. s \in Int /\ t \in Int /\ 0 <= t /\ t <= 255 /\ q = 256 * s + t
    BY <1>3, <1>4, SMT
  <1>6. v = 65536 * s + (r + 256 * t)
    BY <1>3, <1>5, SMT
  <1>7. r + 256 * t \in Int /\ 0 <= r + 256 * t /\ r + 256 * t < 65536
    BY <1>3, <1>5, SMT
  <1>8. PICK x : x = r + 256 * t
    OBVIOUS
  <1>9. (65536 * s + x) % 65536 = x
    BY <1>5, <1>7, <1>8, ModWord
  <1> QED BY <1>1, <1>2, <1>4, <1>6, <1>8, <1>9

LEMMA NearByte ==
  ASSUME NEW d \in Int, -128 <= d, d <= 127
  PROVE  d % 256 = IF d < 0 THEN d + 256 ELSE d
  BY SMT

LEMMA NearValue ==
  ASSUME NEW t \in Int, NEW next \in Int, NEW d \in Int, -128 <= d, d <= 127, t = next + d, 0 <= t, t < 65536
  PROVE  (next + (d % 256) - (IF d % 256 > 127 THEN 256 ELSE 0)) % 65536 = t
  <1>1. PICK b : b = d % 256
    OBVIOUS
  <1>2. b = IF d < 0 THEN d + 256 ELSE d
    BY <1>1, NearByte
  <1>3. next + b - (IF b > 127 THEN 256 ELSE 0) = 65536 * 0 + t
    BY <1>2, SMT
  <1>4. (65536 * 0 + t) % 65536 = t
    BY ModWord
  <1> QED BY <1>1, <1>3, <1>4

LEMMA FarWord ==
  ASSUME NEW d \in Int, -65536 < d, d < 65536
  PROVE  d % 65536 = IF d < 0 THEN d + 65536 ELSE d
  <1>1. CASE d < 0
    <2>1. d + 65536 \in Int /\ 0 <= d + 65536 /\ d + 65536 < 65536 /\ d = 65536 * (-1) + (d + 65536)
      BY <1>1, SMT
    <2>2. (65536 * (-1) + (d + 65536)) % 65536 = d + 65536
      BY <2>1, ModWord
    <2> QED BY <1>1, <2>1, <2>2
  <1>2. CASE ~(d < 0)
    <2>1. 0 <= d /\ d = 65536 * 0 + d
      BY <1>2, SMT
    <2>2. (65536 * 0 + d) % 65536 = d
      BY <2>1, ModWord
    <2> QED BY <1>2, <2>1, <2>2
  <1> QED BY <1>1, <1>2

LEMMA FarValue ==
  ASSUME NEW t \in Int, NEW next \in Int, NEW d \in Int, -65536 < d, d < 65536, t = next + d, 0 <= t, t < 65536
  PROVE  (next + (d % 65536)) % 65536 = t
  <1>1. PICK w : w = d % 65536
    OBVIOUS
  <1>2. w = IF d < 0 THEN d + 65536 ELSE d
    BY <1>1, FarWord
  <1>3. PICK z : z = IF d < 0 THEN 1 ELSE 0
    OBVIOUS
  <1>4. z \in Int /\ next + w = 65536 * z + t
    <2>1. CASE d < 0
      <3>1. z = 1 /\ w = d + 65536
        BY <1>2, <1>3, <2>1
      <3> QED BY <3>1, SMT
    <2>2. CASE ~(d < 0)
      <3>1. z = 0 /\ w = d
        BY <1>2, <1>3, <2>2
      <3> QED BY <3>1, SMT
    <2> QED BY <2>1, <2>2
  <1>5. (65536 * z + t) % 65536 = t
    BY <1>4, ModWord
  <1> QED BY <1>1, <1>4, <1>5

(* The bytes of a line in the map that is loaded.                          *)
LEMMA HeldBytes ==
  ASSUME Table(lines, map), NEW i \in 1..Len(lines), NEW b \in 1..Len(lines[i].code)
  PROVE  map[lines[i].address + b - 1] = lines[i].code[b]
  <1>1. PICK l, n, B : l = lines[i] /\ n = Len(lines) /\ B = AllBytes(lines)
    OBVIOUS
  <1>2. Sound(l) /\ i \in 1..n /\ Filled(B, n, map) /\ DOMAIN lines = 1..n
    BY <1>1, TableDomain DEF Table, LinesAre
  <1>3. B[i] = Bytes(l)
    BY <1>1, <1>2 DEF AllBytes
  <1>4. \A x \in DOMAIN B[i] : map[x] = B[i][x]
    BY <1>2 DEF Filled
  <1>5. /\ l.address + b - 1 \in DOMAIN Bytes(l)
        /\ Bytes(l)[l.address + b - 1] = l.code[b]
    BY SMTT(30), <1>1, <1>2, BytesOf
  <1> QED BY <1>1, <1>3, <1>4, <1>5

(* What is known of a reference when the program is loaded.                *)
Holds(c, a, m) == \A b \in 1..m : map[a + b - 1] = c[b]
Reference(l, c, a, m, t) ==
  /\ c = l.code /\ a = l.address /\ m = Len(c) /\ m \in Nat /\ a \in Nat /\ a + m <= META
  /\ t \in 0..META
  /\ Holds(c, a, m)
Within(k, m) == k \in Int /\ 1 <= k /\ 2 * k <= m
Address(x) == x \in Int /\ 0 <= x /\ x < 65536

LEMMA AddressIs ==
  ASSUME NEW x \in 0..META
  PROVE  Address(x)
  BY SMT DEF Address, META

LEMMA AddressWord ==
  ASSUME NEW x, Address(x)
  PROVE  x \in Int /\ x % 65536 = x
  <1>1. x \in Int /\ 0 <= x /\ x < 65536
    BY DEF Address
  <1>2. (65536 * 0 + x) % 65536 = x
    BY <1>1, ModWord
  <1>3. 65536 * 0 + x = x
    BY <1>1
  <1> QED BY <1>1, <1>2, <1>3

LEMMA ReferenceIs ==
  ASSUME Table(lines, map), NEW i \in 1..Len(lines), NEW k \in Labels(i),
         AtLabel(lines[i].params[k], i) # 0
  PROVE  \E c, a, m, t : t = Target(i, k) /\ Reference(lines[i], c, a, m, t)
  <1>1. PICK c, a, t : c = lines[i].code /\ a = lines[i].address /\ t = Target(i, k)
    OBVIOUS
  <1>2. PICK m : m = Len(c)
    OBVIOUS
  <1>3. m \in Nat /\ a \in Nat /\ a + m <= META
    <2>1. PICK l, n : LineOf(i, l, n)
      BY LineIs
    <2> QED BY <1>1, <1>2, <2>1 DEF LineOf
  <1>4. t \in 0..META
    BY <1>1, TargetType
  <1>5. Holds(c, a, m)
    BY <1>1, <1>2, HeldBytes DEF Holds
  <1> QED BY <1>1, <1>2, <1>3, <1>4, <1>5 DEF Reference

LEMMA PairHeld ==
  ASSUME NEW c, NEW a \in Int, NEW m \in Int, NEW k, Within(k, m), Holds(c, a, m)
  PROVE  map[a + 2 * k - 2] = c[2 * k - 1] /\ map[a + 2 * k - 1] = c[2 * k]
  <1>1. k \in Int /\ 2 * k - 1 \in 1..m /\ 2 * k \in 1..m
    BY DEF Within
  <1>2. \A b \in 1..m : map[a + b - 1] = c[b]
    BY DEF Holds
  <1>3. map[a + (2 * k - 1) - 1] = c[2 * k - 1] /\ map[a + 2 * k - 1] = c[2 * k]
    BY <1>1, <1>2
  <1>4. a + (2 * k - 1) - 1 = a + 2 * k - 2
    BY <1>1
  <1> QED BY <1>3, <1>4

LEMMA DataReached ==
  ASSUME NEW i, NEW k, NEW l, l = lines[i], NEW c, NEW a, NEW m, NEW t, Reference(l, c, a, m, t),
         l.imm = "dw", Within(k, m), EncodedIn(l, c, k, t), load.maps[1].code = map
  PROVE  Reached(i, k) = t
  <1>1. a = l.address /\ m \in Int /\ a \in Int /\ t \in 0..META /\ Holds(c, a, m)
    BY DEF Reference
  <1>2. map[a + 2 * k - 2] = c[2 * k - 1] /\ map[a + 2 * k - 1] = c[2 * k]
    BY <1>1, PairHeld
  <1>3. c[2 * k - 1] = Word(t)[1] /\ c[2 * k] = Word(t)[2]
    BY DEF EncodedIn
  <1>4. Reached(i, k) = map[a + 2 * k - 2] + 256 * map[a + 2 * k - 1]
    BY <1>1 DEF Reached
  <1>5. Reached(i, k) = Word(t)[1] + 256 * Word(t)[2]
    BY <1>2, <1>3, <1>4
  <1>6. t \in Int /\ t % 65536 = t
    BY <1>1, AddressIs, AddressWord
  <1> QED BY <1>5, <1>6, WordValue

(* The byte or the word that ends a line.                                  *)
Ends(c, m, w, e) == w \in {1, 2} /\ w <= m /\ \A b \in 1..w : c[m - w + b] = e[b]

LEMMA EndHeld ==
  ASSUME NEW c, NEW a \in Int, NEW m \in Int, NEW w, NEW e, Holds(c, a, m), Ends(c, m, w, e)
  PROVE  /\ w = 1 => map[(a + m) - 1] = e[1]
         /\ w = 2 => map[(a + m) - 2] = e[1] /\ map[(a + m) - 1] = e[2]
  <1>1. \A b \in 1..m : map[a + b - 1] = c[b]
    BY DEF Holds
  <1> USE DEF Ends
  <1>2. CASE w = 1
    <2>1. m \in 1..m /\ c[m] = e[1] /\ a + m - 1 = (a + m) - 1
      <3>1. c[m - 1 + 1] = e[1]
        BY <1>2
      <3> QED BY <1>2, <3>1
    <2> QED BY <1>1, <1>2, <2>1
  <1>3. CASE w = 2
    <2>1. /\ m - 1 \in 1..m /\ m \in 1..m
          /\ a + (m - 1) - 1 = (a + m) - 2 /\ a + m - 1 = (a + m) - 1
      BY <1>3
    <2>2. c[m - 1] = e[1] /\ c[m] = e[2]
      <3>1. c[m - 2 + 1] = e[1] /\ c[m - 2 + 2] = e[2]
        BY <1>3
      <3>2. m - 2 + 1 = m - 1 /\ m - 2 + 2 = m
        OBVIOUS
      <3> QED BY <3>1, <3>2
    <2>3. map[a + (m - 1) - 1] = c[m - 1] /\ map[a + m - 1] = c[m]
      BY <1>1, <2>1
    <2> QED BY <1>3, <2>1, <2>2, <2>3
  <1> QED BY <1>2, <1>3

LEMMA OperandReached ==
  ASSUME NEW i, NEW l, l = lines[i], NEW c, NEW a, NEW m, NEW t, Reference(l, c, a, m, t),
         l.imm \in {"w", "R", "r"}, Width[l.imm] <= m, NEW k, ~TooFar(l.imm, t, a + m),
         EncodedIn(l, c, k, t), load.maps[1].code = map
  PROVE  Reached(i, k) = t
  <1>1. /\ a = l.address /\ m = Len(l.code) /\ m = Len(c) /\ m \in Nat /\ a \in Nat /\ a + m <= META
        /\ t \in 0..META /\ Holds(c, a, m)
    BY DEF Reference
  <1>2. PICK w, last : w = Width[l.imm] /\ last = a + m
    OBVIOUS
  <1>3. PICK e : e = Encode(l.imm, t, last)
    OBVIOUS
  <1>4. \A b \in 1..w : c[m - w + b] = e[b]
    <2>1. l.imm # "dw"
      OBVIOUS
    <2> QED BY <1>1, <1>2, <1>3, <2>1 DEF EncodedIn
  <1>5. Address(last) /\ Address(t) /\ w <= m
    <2>1. last \in 0..META
      BY <1>1, <1>2, MetaType
    <2> QED BY <1>1, <1>2, <2>1, AddressIs
  <1>6. PICK d : d = t - last
    OBVIOUS
  <1>7. /\ last \in Int /\ t \in Int /\ 0 <= t /\ t < 65536 /\ d \in Int /\ t = last + d
        /\ -65536 < d /\ d < 65536
    BY <1>5, <1>6, SMT DEF Address
  <1>8. w \in {1, 2}
    BY <1>2 DEF Width
  <1>9. /\ w = 1 => map[last - 1] = e[1]
        /\ w = 2 => map[last - 2] = e[1] /\ map[last - 1] = e[2]
    <2>1. a \in Int /\ m \in Int
      BY <1>1
    <2>2. Ends(c, m, w, e)
      BY <1>4, <1>5, <1>8 DEF Ends
    <2>3. Holds(c, a, m) /\ last = a + m
      BY <1>1, <1>2
    <2> QED BY <2>1, <2>2, <2>3, EndHeld
  <1>10. PICK h, x : h = map[last - 1] /\ x = map[last - 2] + 256 * map[last - 1]
    OBVIOUS
  <1>11. CASE l.imm = "r"
    <2>1. h = e[1]
      BY <1>2, <1>9, <1>10, <1>11 DEF Width
    <2>2. e[1] = d % 256
      BY <1>3, <1>6, <1>11 DEF Encode
    <2>3. d \in -128..127
      BY <1>2, <1>6, <1>11 DEF TooFar
    <2>4. Reached(i, k) = (last + h - (IF h > 127 THEN 256 ELSE 0)) % 65536
      BY <1>1, <1>2, <1>10, <1>11 DEF Reached
    <2>5. (last + (d % 256) - (IF d % 256 > 127 THEN 256 ELSE 0)) % 65536 = t
      BY <1>7, <2>3, NearValue
    <2> QED BY <2>1, <2>2, <2>4, <2>5
  <1>12. CASE l.imm = "R"
    <2>1. x = e[1] + 256 * e[2]
      BY <1>2, <1>9, <1>10, <1>12 DEF Width
    <2>2. e = Word(d)
      BY <1>3, <1>6, <1>12 DEF Encode
    <2>3. x = d % 65536
      BY <1>7, <2>1, <2>2, WordValue
    <2>4. Reached(i, k) = (last + x) % 65536
      BY <1>1, <1>2, <1>10, <1>12 DEF Reached
    <2>5. (last + (d % 65536)) % 65536 = t
      BY <1>7, FarValue
    <2> QED BY <2>3, <2>4, <2>5
  <1>13. CASE l.imm = "w"
    <2>1. x = e[1] + 256 * e[2]
      BY <1>2, <1>9, <1>10, <1>13 DEF Width
    <2>2. e = Word(t)
      BY <1>3, <1>13 DEF Encode
    <2>3. x = t % 65536
      BY <1>7, <2>1, <2>2, WordValue
    <2>4. Reached(i, k) = x
      BY <1>1, <1>2, <1>10, <1>13 DEF Reached
    <2> QED BY <1>5, <2>3, <2>4, AddressWord
  <1> QED BY <1>11, <1>12, <1>13

-------------------------------------------------------------------------------
(* Every reference that pass 2 has bound reaches the address of its label. *)
LEMMA BoundReached ==
  ASSUME Table(lines, map), NEW i \in 1..Len(lines), Bound(i), NEW k \in Labels(i),
         load.maps[1].code = map
  PROVE  Reached(i, k) = Target(i, k)
  <1>1. /\ AtLabel(lines[i].params[k], i) # 0
        /\ ~TooFar(lines[i].imm, Target(i, k), Next_(i))
        /\ EncodedIn(lines[i], lines[i].code, k, Target(i, k))
    BY DEF Bound
  <1>2. PICK c, a, m, t : t = Target(i, k) /\ Reference(lines[i], c, a, m, t)
    BY <1>1, ReferenceIs
  <1>3. PICK l : l = lines[i]
    OBVIOUS
  <1>4. Sound(l) /\ k \in Refers(l)
    BY <1>3 DEF Table, LinesAre, Labels, Refers
  <1>5. Room(l) /\ k \in 1..Len(l.params)
    BY <1>4, ReferIs
  <1>6. c = l.code /\ a = l.address /\ m = Len(l.code)
    BY <1>2, <1>3 DEF Reference
  <1>7. Next_(i) = a + m
    BY <1>3, <1>6 DEF Next_
  <1>8. EncodedIn(l, c, k, t) /\ ~TooFar(l.imm, t, a + m) /\ Reference(l, c, a, m, t)
    BY <1>1, <1>2, <1>3, <1>6, <1>7
  <1>9. CASE l.imm = "dw" /\ Len(l.code) = 2 * Len(l.params)
    <2>1. Within(k, m)
      <3>1. PICK o : o = Len(l.params)
        OBVIOUS
      <3>2. o \in Nat
        BY <1>4, <3>1, LenProperties DEF Sound, LineType
      <3>3. k \in 1..o /\ m = 2 * o
        BY <1>5, <1>6, <1>9, <3>1
      <3> QED BY <3>2, <3>3 DEF Within
    <2> QED BY <1>2, <1>3, <1>8, <1>9, <2>1, DataReached
  <1>10. CASE l.imm \in {"w", "R", "r"} /\ Width[l.imm] <= Len(l.code)
    <2>1. Width[l.imm] <= m /\ l.imm \in {"w", "R", "r"}
      BY <1>6, <1>10
    <2> QED BY <1>2, <1>3, <1>8, <2>1, OperandReached
  <1> QED BY <1>5, <1>9, <1>10 DEF Room

LEMMA BoundMeant ==
  ASSUME Table(lines, map), NEW i \in 1..Len(lines), Bound(i), NEW k \in Labels(i)
  PROVE  \E j \in Meant(lines[i].params[k], i) :
           /\ lines[j].address = Target(i, k)
           /\ lines[i].params[k].global # NoLabel /\ lines[i].params[k].local = NoLabel
              => Cardinality(Meant(lines[i].params[k], i)) = 1
  <1>1. PICK p, j : p = lines[i].params[k] /\ j = AtLabel(p, i)
    OBVIOUS
  <1>2. j # 0
    BY <1>1 DEF Bound
  <1>3. p \in LabelOperand
    <2>1. Sound(lines[i]) /\ k \in Refers(lines[i])
      BY DEF Table, LinesAre, Labels, Refers
    <2> QED BY <1>1, <2>1, ReferIs
  <1>4. PICK n : n = Len(lines)
    OBVIOUS
  <1>5. n \in Nat /\ DOMAIN lines = 1..n /\ i \in 1..n
    BY <1>4, LenProperties DEF Table, LinesAre
  <1>6. j \in Meant(p, i)
    BY <1>1, <1>2, <1>3, <1>5, FoundIsMeant
  <1>7. p.global # NoLabel /\ p.local = NoLabel => Cardinality(Meant(p, i)) = 1
    BY <1>1, <1>2, <1>3, <1>5, OneMeant
  <1>8. lines[j].address = Target(i, k)
    BY <1>1 DEF Target
  <1> QED BY <1>1, <1>6, <1>7, <1>8

LEMMA AsmLinked ==
  ASSUME AsmInv
  PROVE  ReferencesReachLabels
  <1> SUFFICES ASSUME phase = "load", ~cut, load.state = "OK", NEW i \in DOMAIN lines, NEW k \in Labels(i)
               PROVE  /\ \E j \in Meant(lines[i].params[k], i) : lines[j].address = Reached(i, k)
                      /\ lines[i].params[k].global # NoLabel /\ lines[i].params[k].local = NoLabel
                         => Cardinality(Meant(lines[i].params[k], i)) = 1
    BY DEF ReferencesReachLabels
  <1>1. Pass1Inv /\ Table(lines, map) /\ LinkInv /\ SavedInv
    BY DEF AsmInv, Pass1Inv
  <1>2. i \in 1..Len(lines) /\ Len(lines) \in Nat
    BY <1>1, LenProperties DEF Table, LinesAre
  <1>3. Bound(i)
    <2>1. at > Len(lines) /\ at \in Nat
      BY <1>1 DEF SavedInv, LinkInv
    <2>2. i < at
      BY <1>2, <2>1
    <2> QED BY <1>1, <1>2, <2>2 DEF LinkInv
  <1>4. load.maps[1].code = map
    <2>1. ~Loading(load)
      BY DEF Loading
    <2>2. load.maps = Images
      BY <2>1, AsmLoaded DEF LoadedAsWritten
    <2> QED BY <1>1, <2>2, TheProgram
  <1>5. Reached(i, k) = Target(i, k)
    BY <1>1, <1>2, <1>3, <1>4, BoundReached
  <1> QED BY <1>1, <1>2, <1>3, <1>5, BoundMeant

(* What the CPU takes from a reference of the loaded program is the        *)
(* address of the label that was meant.                                    *)
THEOREM AsmReferencesReachLabels == Spec => []ReferencesReachLabels
  BY AsmInvariant, AsmLinked, PTL
===============================================================================
