----------------------------- MODULE PageProofs -----------------------------
(***************************************************************************)
(* Proofs about Page and the wire format of Protocol, for texts and        *)
(* replies of any length, cut into reads anywhere.                         *)
(***************************************************************************)
EXTENDS Page, SequenceTheorems, WellFoundedInduction, TLAPS

(***************************************************************************)
(* Induction, for a set of numbers: what the sequences of a length have in *)
(* common is the set of the lengths for which they have it.                *)
(***************************************************************************)
Less == {pair \in Nat \X Nat : pair[1] < pair[2]}

LEMMA LessIsWellFounded == IsWellFoundedOn(Less, Nat)
  BY NatLessThanWellFounded DEF Less, OpToRel

LEMMA Induction ==
    ASSUME NEW T, 0 \in T, \A n \in Nat : n \in T => n + 1 \in T
    PROVE  Nat \subseteq T
<1> DEFINE Rest == Nat \ T
<1>1. SUFFICES ASSUME Rest # {} PROVE FALSE
  OBVIOUS
<1>2. PICK x \in Rest : \A y \in Rest : ~(<<y, x>> \in Less)
  <2>1. Rest \subseteq Nat
    OBVIOUS
  <2> HIDE DEF Rest
  <2> QED
    BY <1>1, <2>1, LessIsWellFounded, WFMin
<1>3. x \in Nat /\ x # 0 /\ x - 1 \in Rest
  OBVIOUS
<1>4. <<x - 1, x>> \in Less
  BY <1>3 DEF Less
<1> QED
  BY <1>2, <1>3, <1>4

\* So is what all sequences have in common a set of them.
LEMMA SeqInduction ==
    ASSUME NEW S, NEW G, <<>> \in G,
           \A s \in Seq(S), e \in S : s \in G => Append(s, e) \in G
    PROVE  Seq(S) \subseteq G
<1> DEFINE T == {n \in Nat : \A s \in Seq(S) : Len(s) = n => s \in G}
<1>1. 0 \in T
  <2>1. \A s \in Seq(S) : Len(s) = 0 => s = <<>>
    BY EmptySeq
  <2> QED
    BY <2>1
<1>2. ASSUME NEW n \in Nat, n \in T PROVE n + 1 \in T
  <2> SUFFICES ASSUME NEW s \in Seq(S), Len(s) = n + 1 PROVE s \in G
    OBVIOUS
  <2>1. s # <<>>
    BY EmptySeq
  <2>2. PICK r \in Seq(S), e \in S : s = Append(r, e)
    BY <2>1, SequenceEmptyOrAppend
  <2>3. Len(r) = n
    <3>1. Len(r) \in Nat /\ Len(s) = Len(r) + 1
      BY <2>2, AppendProperties, LenProperties
    <3> QED
      BY <3>1
  <2>4. r \in G
    BY <1>2, <2>3
  <2> QED
    BY <2>2, <2>4
<1> HIDE DEF T
<1>3. Nat \subseteq T
  BY <1>1, <1>2, Induction
<1> SUFFICES ASSUME NEW s \in Seq(S) PROVE s \in G
  OBVIOUS
<1>4. Len(s) \in T
  BY <1>3, LenProperties
<1> QED
  BY <1>4 DEF T

(***************************************************************************)
(* FlattenSeq.                                                             *)
(***************************************************************************)
Flat(f, ss, m) ==
    f = [i \in 1 .. m |-> IF i = 1 THEN ss[i] ELSE f[i - 1] \o ss[i]]

\* It is well defined: there is such a function, of every length.
LEMMA FlatExists ==
    ASSUME NEW ss, NEW m \in Nat
    PROVE  \E f : Flat(f, ss, m)
<1> DEFINE T == {k \in Nat : \E f : Flat(f, ss, k)}
<1>1. 0 \in T
  <2>1. Flat([i \in 1 .. 0 |-> <<>>], ss, 0)
    BY DEF Flat
  <2> QED
    BY <2>1
<1>2. ASSUME NEW n \in Nat, n \in T PROVE n + 1 \in T
  <2>1. PICK f : Flat(f, ss, n)
    BY <1>2
  <2> DEFINE top == IF n + 1 = 1 THEN ss[n + 1] ELSE f[n] \o ss[n + 1]
             g == [i \in 1 .. n + 1 |-> IF i = n + 1 THEN top ELSE f[i]]
  <2>2. \A i \in 1 .. n : f[i] = IF i = 1 THEN ss[i] ELSE f[i - 1] \o ss[i]
    BY <2>1 DEF Flat
  <2>3. ASSUME NEW i \in 1 .. n + 1
        PROVE  g[i] = IF i = 1 THEN ss[i] ELSE g[i - 1] \o ss[i]
    BY <2>2
  <2>4. g = [i \in 1 .. n + 1 |-> g[i]]
    OBVIOUS
  <2> HIDE DEF g
  <2>5. Flat(g, ss, n + 1)
    BY <2>3, <2>4 DEF Flat
  <2> QED
    BY <2>5
<1> HIDE DEF T
<1>3. m \in T
  BY <1>1, <1>2, Induction
<1> QED
  BY <1>3 DEF T

LEMMA FlatOf ==
    ASSUME NEW ss, Len(ss) \in Nat, Len(ss) # 0
    PROVE  \E f : Flat(f, ss, Len(ss)) /\ FlattenSeq(ss) = f[Len(ss)]
<1> DEFINE f == CHOOSE f : Flat(f, ss, Len(ss))
<1>1. Flat(f, ss, Len(ss))
  BY FlatExists
<1>2. FlattenSeq(ss) = f[Len(ss)]
  BY DEF FlattenSeq, Flat
<1> QED
  BY <1>1, <1>2

\* What a step adds, as one predicate: the provers match it at once.
Adds(f, ss, i) == f[i + 1] = f[i] \o ss[i + 1]

LEMMA FlatFirst ==
    ASSUME NEW ss, NEW m \in Nat, NEW f, Flat(f, ss, m), m # 0
    PROVE  f[1] = ss[1]
  BY DEF Flat

LEMMA FlatNext ==
    ASSUME NEW ss, NEW m \in Nat, NEW f, Flat(f, ss, m), NEW i \in Nat, i # 0, i + 1 \in 1 .. m
    PROVE  Adds(f, ss, i)
<1> DEFINE F == [j \in 1 .. m |-> IF j = 1 THEN ss[j] ELSE f[j - 1] \o ss[j]]
<1>1. F[i + 1] = f[i] \o ss[i + 1]
  <2>1. i + 1 # 1 /\ (i + 1) - 1 = i
    OBVIOUS
  <2> QED
    BY <2>1
<1>2. f = F
  BY DEF Flat
<1> HIDE DEF F
<1> QED
  BY <1>1, <1>2 DEF Adds

LEMMA FlattenEmpty == FlattenSeq(<<>>) = <<>>
  BY DEF FlattenSeq

LEMMA FlattenAppend ==
    ASSUME NEW S, NEW ss \in Seq(Seq(S)), NEW t \in Seq(S)
    PROVE  FlattenSeq(Append(ss, t)) = FlattenSeq(ss) \o t
<1>1. PICK n \in Nat : n = Len(ss)
  BY LenProperties
<1>2. PICK tt \in Seq(Seq(S)) : tt = Append(ss, t)
  BY AppendProperties
<1>3. /\ Len(tt) = n + 1 /\ tt[n + 1] = t
      /\ \A i \in 1 .. n : tt[i] = ss[i]
  BY <1>1, <1>2, AppendProperties
<1>4. PICK g : Flat(g, tt, n + 1) /\ FlattenSeq(tt) = g[n + 1]
  BY <1>3, FlatOf
<1>5. CASE n = 0
  <2>1. ss = <<>>
    BY <1>1, <1>5, EmptySeq
  <2>2. Flat(g, tt, 1) /\ FlattenSeq(tt) = g[1] /\ tt[1] = t
    BY <1>3, <1>4, <1>5
  <2>3. g[1] = tt[1]
    BY <2>2, FlatFirst
  <2>4. FlattenSeq(ss) \o t = t
    BY <2>1, FlattenEmpty, ConcatEmptySeq
  <2> QED
    BY <1>2, <2>2, <2>3, <2>4
<1>6. CASE n # 0
  <2>1. PICK f : Flat(f, ss, n) /\ FlattenSeq(ss) = f[n]
    BY <1>1, <1>6, FlatOf
  <2>2. f[n] = g[n]
    <3> DEFINE T == {i \in Nat : i \in 1 .. n => f[i] = g[i]}
    <3>1. n + 1 \in Nat /\ n + 1 # 0 /\ Flat(f, ss, n) /\ Flat(g, tt, n + 1)
      BY <1>4, <2>1
    <3>2. 0 \in T
      OBVIOUS
    <3>3. ASSUME NEW i \in Nat, i \in T PROVE i + 1 \in T
      <4> SUFFICES ASSUME i + 1 \in 1 .. n PROVE f[i + 1] = g[i + 1]
        OBVIOUS
      <4>1. CASE i = 0
        <5>1. f[1] = ss[1] /\ g[1] = tt[1]
          BY <1>6, <3>1, FlatFirst
        <5> QED
          BY <1>3, <4>1, <5>1
      <4>2. CASE i # 0
        <5>1. Adds(f, ss, i)
          BY <3>1, <4>2, FlatNext
        <5>2. Adds(g, tt, i)
          <6>1. i + 1 \in 1 .. n + 1
            OBVIOUS
          <6> QED
            BY <3>1, <4>2, <6>1, FlatNext
        <5>3. f[i] = g[i] /\ ss[i + 1] = tt[i + 1]
          BY <1>3, <3>3, <4>2
        <5> QED
          BY <5>1, <5>2, <5>3 DEF Adds
      <4> QED
        BY <4>1, <4>2
    <3> HIDE DEF T
    <3>4. n \in T
      BY <3>2, <3>3, Induction
    <3> QED
      BY <1>6, <3>4 DEF T
  <2>3. Adds(g, tt, n)
    <3>1. Flat(g, tt, n + 1) /\ n + 1 \in 1 .. n + 1 /\ n + 1 \in Nat
      BY <1>4
    <3> QED
      BY <1>6, <3>1, FlatNext
  <2> QED
    BY <1>2, <1>3, <1>4, <2>1, <2>2, <2>3 DEF Adds
<1> QED
  BY <1>5, <1>6

LEMMA FlattenTypes ==
    ASSUME NEW S, NEW ss \in Seq(Seq(S))
    PROVE  FlattenSeq(ss) \in Seq(S)
<1> DEFINE G == {rr \in Seq(Seq(S)) : FlattenSeq(rr) \in Seq(S)}
<1>1. <<>> \in G
  BY FlattenEmpty, EmptySeq
<1>2. ASSUME NEW rr \in Seq(Seq(S)), NEW r \in Seq(S), rr \in G
      PROVE  Append(rr, r) \in G
  <2>1. FlattenSeq(Append(rr, r)) = FlattenSeq(rr) \o r
    BY FlattenAppend
  <2>2. FlattenSeq(rr) \o r \in Seq(S)
    BY <1>2, ConcatProperties
  <2> QED
    BY <2>1, <2>2, AppendProperties
<1> HIDE DEF G
<1>3. Seq(Seq(S)) \subseteq G
  BY <1>1, <1>2, SeqInduction
<1> QED
  BY <1>3 DEF G

LEMMA AppendToConcat ==
    ASSUME NEW S, NEW s \in Seq(S), NEW t \in Seq(S), NEW e \in S
    PROVE  s \o Append(t, e) = Append(s \o t, e)
<1>1. <<e>> \in Seq(S) /\ s \o t \in Seq(S)
  BY ConcatProperties
<1> QED
  BY <1>1, AppendIsConcat, ConcatAssociative

Associate(a, b, c) == (a \o b) \o c = a \o (b \o c)

LEMMA Associates ==
    ASSUME NEW S, NEW a \in Seq(S), NEW b \in Seq(S), NEW c \in Seq(S)
    PROVE  Associate(a, b, c)
  BY ConcatAssociative DEF Associate

LEMMA FlattenConcat ==
    ASSUME NEW S, NEW ss \in Seq(Seq(S)), NEW tt \in Seq(Seq(S))
    PROVE  FlattenSeq(ss \o tt) = FlattenSeq(ss) \o FlattenSeq(tt)
<1> DEFINE G == {rr \in Seq(Seq(S)) : FlattenSeq(ss \o rr) = FlattenSeq(ss) \o FlattenSeq(rr)}
<1>1. <<>> \in G
  <2>1. ss \o <<>> = ss /\ FlattenSeq(ss) \o <<>> = FlattenSeq(ss)
    BY FlattenTypes, ConcatEmptySeq
  <2> QED
    BY <2>1, FlattenEmpty, EmptySeq
<1>2. ASSUME NEW rr \in Seq(Seq(S)), NEW r \in Seq(S), rr \in G
      PROVE  Append(rr, r) \in G
  <2>1. FlattenSeq(Append(rr, r)) = FlattenSeq(rr) \o r
    BY FlattenAppend
  <2>2. FlattenSeq(ss \o Append(rr, r)) = FlattenSeq(ss \o rr) \o r
    <3>1. ss \o rr \in Seq(Seq(S)) /\ ss \o Append(rr, r) = Append(ss \o rr, r)
      BY ConcatProperties, AppendToConcat
    <3> QED
      BY <3>1, FlattenAppend
  <2>3. FlattenSeq(ss \o rr) = FlattenSeq(ss) \o FlattenSeq(rr)
    BY <1>2
  <2>4. (FlattenSeq(ss) \o FlattenSeq(rr)) \o r = FlattenSeq(ss) \o (FlattenSeq(rr) \o r)
    <3>1. FlattenSeq(ss) \in Seq(S) /\ FlattenSeq(rr) \in Seq(S)
      BY FlattenTypes
    <3>2. Associate(FlattenSeq(ss), FlattenSeq(rr), r)
      BY <3>1, Associates
    <3> QED
      BY <3>2 DEF Associate
  <2>5. Append(rr, r) \in Seq(Seq(S))
    BY AppendProperties
  <2> HIDE <1>2
  <2> QED
    BY <2>1, <2>2, <2>3, <2>4, <2>5
<1> HIDE DEF G
<1>3. Seq(Seq(S)) \subseteq G
  BY <1>1, <1>2, SeqInduction
<1> QED
  BY <1>3 DEF G

LEMMA FlattenOne ==
    ASSUME NEW S, NEW s \in Seq(S)
    PROVE  FlattenSeq(<< s >>) = s
<1>1. <<>> \in Seq(Seq(S)) /\ Append(<<>>, s) = << s >>
  BY EmptySeq
<1>2. FlattenSeq(Append(<<>>, s)) = <<>> \o s
  BY <1>1, FlattenAppend, FlattenEmpty
<1> QED
  BY <1>1, <1>2, ConcatEmptySeq

\* What sequences have that a concatenation keeps, their flattening has.
LEMMA FlattenClosed ==
    ASSUME NEW S, NEW H, H \subseteq Seq(S), <<>> \in H,
           \A s \in H, t \in H : s \o t \in H, NEW ss \in Seq(H)
    PROVE  FlattenSeq(ss) \in H
<1> DEFINE G == {rr \in Seq(H) : FlattenSeq(rr) \in H}
<1>1. <<>> \in G
  BY FlattenEmpty, EmptySeq
<1>2. ASSUME NEW rr \in Seq(H), NEW r \in H, rr \in G
      PROVE  Append(rr, r) \in G
  <2>1. rr \in Seq(Seq(S)) /\ r \in Seq(S)
    BY SeqMonotonic
  <2>2. FlattenSeq(Append(rr, r)) = FlattenSeq(rr) \o r
    BY <2>1, FlattenAppend
  <2>3. FlattenSeq(rr) \o r \in H
    BY <1>2
  <2> QED
    BY <2>2, <2>3, AppendProperties
<1> HIDE DEF G
<1>3. Seq(H) \subseteq G
  BY <1>1, <1>2, SeqInduction
<1> QED
  BY <1>3 DEF G

(***************************************************************************)
(* Expand(h, s): each element of s written out, as h has it.               *)
(***************************************************************************)
Spells(h, S, T) == h \in [S -> Seq(T)]
Mapped(h, s) == [i \in DOMAIN s |-> h[s[i]]]
Expand(h, s) == FlattenSeq(Mapped(h, s))

LEMMA MapTypes ==
    ASSUME NEW S, NEW T, NEW h \in [S -> T], NEW s \in Seq(S)
    PROVE  Mapped(h, s) \in Seq(T)
<1>1. Len(s) \in Nat /\ DOMAIN s = 1 .. Len(s) /\ \A i \in 1 .. Len(s) : s[i] \in S
  BY LenProperties, ElementOfSeq
<1>2. Mapped(h, s) \in [1 .. Len(s) -> T]
  BY <1>1 DEF Mapped
<1> QED
  BY <1>1, <1>2, SeqDef

LEMMA MapLen ==
    ASSUME NEW S, NEW h, NEW s \in Seq(S)
    PROVE  Len(Mapped(h, s)) = Len(s)
<1> DEFINE T == {h[e] : e \in S}
<1>1. Len(s) \in Nat /\ DOMAIN s = 1 .. Len(s) /\ \A i \in 1 .. Len(s) : s[i] \in S
  BY LenProperties, ElementOfSeq
<1>2. Mapped(h, s) \in [1 .. Len(s) -> T]
  BY <1>1 DEF Mapped
<1>3. Mapped(h, s) \in Seq(T)
  BY <1>1, <1>2, SeqDef
<1> HIDE DEF T
<1>4. DOMAIN Mapped(h, s) = 1 .. Len(s) /\ DOMAIN Mapped(h, s) = 1 .. Len(Mapped(h, s))
  BY <1>2, <1>3, LenProperties
<1>5. Len(Mapped(h, s)) \in Nat
  BY <1>3, LenProperties
<1> QED
  BY <1>1, <1>4, <1>5

LEMMA MapAt ==
    ASSUME NEW S, NEW h, NEW s \in Seq(S), NEW i \in 1 .. Len(s)
    PROVE  Mapped(h, s)[i] = h[s[i]]
  BY LenProperties DEF Mapped

LEMMA MapAppend ==
    ASSUME NEW S, NEW T, NEW h \in [S -> T], NEW s \in Seq(S), NEW e \in S
    PROVE  Mapped(h, Append(s, e)) = Append(Mapped(h, s), h[e])
<1> DEFINE a == Append(s, e)
           l == Mapped(h, a)
           r == Append(Mapped(h, s), h[e])
           n == Len(s)
<1>1. n \in Nat /\ h[e] \in T
  BY LenProperties
<1>2. /\ a \in Seq(S) /\ Len(a) = n + 1
      /\ \A i \in 1 .. n : a[i] = s[i]
      /\ a[n + 1] = e
  BY AppendProperties
<1> HIDE DEF a
<1>3. l \in Seq(T) /\ Len(l) = n + 1 /\ \A i \in 1 .. n + 1 : l[i] = h[a[i]]
  <2>1. l \in Seq(T) /\ Len(l) = n + 1
    BY <1>2, MapTypes, MapLen
  <2>2. ASSUME NEW i \in 1 .. n + 1 PROVE l[i] = h[a[i]]
    <3>1. i \in 1 .. Len(a)
      BY <1>2
    <3> QED
      BY <1>2, <3>1, MapAt
  <2> QED
    BY <2>1, <2>2
<1>4. /\ Mapped(h, s) \in Seq(T) /\ Len(Mapped(h, s)) = n
      /\ \A i \in 1 .. n : Mapped(h, s)[i] = h[s[i]]
  <2>1. Mapped(h, s) \in Seq(T) /\ Len(Mapped(h, s)) = n
    BY MapTypes, MapLen
  <2>2. ASSUME NEW i \in 1 .. n PROVE Mapped(h, s)[i] = h[s[i]]
    BY MapAt
  <2> QED
    BY <2>1, <2>2
<1>5. r \in Seq(T) /\ Len(r) = n + 1 /\ r[n + 1] = h[e] /\ \A i \in 1 .. n : r[i] = h[s[i]]
  BY <1>1, <1>4, AppendProperties
<1> HIDE DEF l, r, n
<1>6. \A i \in 1 .. n + 1 : l[i] = r[i]
  BY <1>1, <1>2, <1>3, <1>5
<1>7. l = r
  BY <1>3, <1>5, <1>6, SeqEqual
<1> QED
  BY <1>7 DEF a, l, r

LEMMA MapEmpty == ASSUME NEW h PROVE Mapped(h, <<>>) = <<>>
  BY DEF Mapped

LEMMA ExpandTypes ==
    ASSUME NEW S, NEW T, NEW h, Spells(h, S, T), NEW s \in Seq(S)
    PROVE  Expand(h, s) \in Seq(T)
<1>1. Mapped(h, s) \in Seq(Seq(T))
  BY MapTypes DEF Spells
<1> QED
  BY <1>1, FlattenTypes DEF Expand

LEMMA ExpandEmpty == ASSUME NEW h PROVE Expand(h, <<>>) = <<>>
  BY MapEmpty, FlattenEmpty DEF Expand

LEMMA ExpandAppend ==
    ASSUME NEW S, NEW T, NEW h, Spells(h, S, T), NEW s \in Seq(S), NEW e \in S
    PROVE  Expand(h, Append(s, e)) = Expand(h, s) \o h[e]
<1>1. Mapped(h, s) \in Seq(Seq(T)) /\ h[e] \in Seq(T)
  BY MapTypes DEF Spells
<1>2. Mapped(h, Append(s, e)) = Append(Mapped(h, s), h[e])
  BY MapAppend DEF Spells
<1> QED
  BY <1>1, <1>2, FlattenAppend DEF Expand

Written(h, s, e) == Expand(h, Append(s, e)) = Expand(h, s) \o h[e]

LEMMA ExpandWritten ==
    ASSUME NEW S, NEW T, NEW h, Spells(h, S, T), NEW s \in Seq(S), NEW e \in S
    PROVE  Written(h, s, e)
  BY ExpandAppend DEF Written

LEMMA ExpandOne ==
    ASSUME NEW S, NEW T, NEW h, Spells(h, S, T), NEW e \in S
    PROVE  Expand(h, << e >>) = h[e]
<1>1. <<>> \in Seq(S) /\ Append(<<>>, e) = << e >>
  BY EmptySeq
<1>2. Expand(h, Append(<<>>, e)) = <<>> \o h[e]
  <2>1. Written(h, <<>>, e)
    BY <1>1, ExpandWritten
  <2> QED
    BY <2>1, ExpandEmpty DEF Written
<1>3. h[e] \in Seq(T)
  BY DEF Spells
<1> QED
  BY <1>1, <1>2, <1>3, ConcatEmptySeq

LEMMA ExpandConcat ==
    ASSUME NEW S, NEW T, NEW h, Spells(h, S, T), NEW s \in Seq(S), NEW t \in Seq(S)
    PROVE  Expand(h, s \o t) = Expand(h, s) \o Expand(h, t)
<1> DEFINE G == {r \in Seq(S) : Expand(h, s \o r) = Expand(h, s) \o Expand(h, r)}
<1>1. <<>> \in G
  <2>1. s \o <<>> = s /\ Expand(h, s) \o <<>> = Expand(h, s)
    BY ExpandTypes, ConcatEmptySeq
  <2> QED
    BY <2>1, ExpandEmpty, EmptySeq
<1>2. ASSUME NEW r \in Seq(S), NEW e \in S, r \in G
      PROVE  Append(r, e) \in G
  <2>1. Expand(h, Append(r, e)) = Expand(h, r) \o h[e]
    BY ExpandAppend
  <2>2. Expand(h, s \o Append(r, e)) = Expand(h, s \o r) \o h[e]
    <3>1. s \o r \in Seq(S) /\ s \o Append(r, e) = Append(s \o r, e)
      BY ConcatProperties, AppendToConcat
    <3>2. Written(h, s \o r, e)
      BY <3>1, ExpandWritten
    <3> QED
      BY <3>1, <3>2 DEF Written
  <2>3. Expand(h, s \o r) = Expand(h, s) \o Expand(h, r)
    BY <1>2
  <2>4. (Expand(h, s) \o Expand(h, r)) \o h[e] = Expand(h, s) \o (Expand(h, r) \o h[e])
    <3>1. PICK u \in Seq(T) : u = h[e]
      BY DEF Spells
    <3>2. PICK v \in Seq(T) : v = Expand(h, s)
      BY ExpandTypes
    <3>3. PICK w \in Seq(T) : w = Expand(h, r)
      BY ExpandTypes
    <3>4. Associate(v, w, u)
      BY Associates
    <3> QED
      BY <3>1, <3>2, <3>3, <3>4 DEF Associate
  <2>5. Append(r, e) \in Seq(S)
    BY AppendProperties
  <2> HIDE <1>2
  <2> QED
    BY <2>1, <2>2, <2>3, <2>4, <2>5
<1> HIDE DEF G
<1>3. Seq(S) \subseteq G
  BY <1>1, <1>2, SeqInduction
<1> QED
  BY <1>3 DEF G

\* Two expansions, one after the other, are one.
LEMMA ExpandTwice ==
    ASSUME NEW R, NEW S, NEW T, NEW g, NEW h, NEW k,
           Spells(g, R, S), Spells(h, S, T), Spells(k, R, T),
           \A r \in R : Expand(h, g[r]) = k[r], NEW s \in Seq(R)
    PROVE  Expand(h, Expand(g, s)) = Expand(k, s)
<1> DEFINE G == {r \in Seq(R) : Expand(h, Expand(g, r)) = Expand(k, r)}
<1>1. <<>> \in G
  BY ExpandEmpty, EmptySeq
<1>2. ASSUME NEW r \in Seq(R), NEW e \in R, r \in G
      PROVE  Append(r, e) \in G
  <2>1. Expand(g, Append(r, e)) = Expand(g, r) \o g[e]
    BY ExpandAppend
  <2>2. Expand(k, Append(r, e)) = Expand(k, r) \o k[e]
    BY ExpandAppend
  <2>3. Expand(h, Expand(g, r) \o g[e]) = Expand(h, Expand(g, r)) \o Expand(h, g[e])
    <3>1. Expand(g, r) \in Seq(S) /\ g[e] \in Seq(S)
      BY ExpandTypes DEF Spells
    <3> QED
      BY <3>1, ExpandConcat
  <2>4. Expand(h, Expand(g, r)) = Expand(k, r) /\ Expand(h, g[e]) = k[e]
    BY <1>2
  <2>5. Append(r, e) \in Seq(R)
    BY AppendProperties
  <2> HIDE <1>2
  <2> QED
    BY <2>1, <2>2, <2>3, <2>4, <2>5
<1> HIDE DEF G
<1>3. Seq(R) \subseteq G
  BY <1>1, <1>2, SeqInduction
<1> QED
  BY <1>3 DEF G

\* If each element is written as one, nothing but the elements changes.
LEMMA ExpandSingles ==
    ASSUME NEW S, NEW T, NEW h \in [S -> T], NEW k, Spells(k, S, T),
           \A e \in S : k[e] = << h[e] >>, NEW s \in Seq(S)
    PROVE  Expand(k, s) = Mapped(h, s)
<1> DEFINE G == {r \in Seq(S) : Expand(k, r) = Mapped(h, r)}
<1>1. <<>> \in G
  BY ExpandEmpty, MapEmpty, EmptySeq
<1>2. ASSUME NEW r \in Seq(S), NEW e \in S, r \in G
      PROVE  Append(r, e) \in G
  <2>1. Expand(k, Append(r, e)) = Expand(k, r) \o << h[e] >>
    <3>1. Expand(k, Append(r, e)) = Expand(k, r) \o k[e]
      BY ExpandAppend
    <3> QED
      BY <3>1
  <2>2. Mapped(h, Append(r, e)) = Append(Mapped(h, r), h[e])
    BY MapAppend
  <2>3. Mapped(h, r) \o << h[e] >> = Append(Mapped(h, r), h[e])
    <3>1. Mapped(h, r) \in Seq(T) /\ h[e] \in T
      BY MapTypes
    <3> QED
      BY <3>1, AppendIsConcat
  <2>4. Expand(k, r) = Mapped(h, r)
    BY <1>2
  <2>5. Append(r, e) \in Seq(S)
    BY AppendProperties
  <2> HIDE <1>2
  <2> QED
    BY <2>1, <2>2, <2>3, <2>4, <2>5
<1> HIDE DEF G
<1>3. Seq(S) \subseteq G
  BY <1>1, <1>2, SeqInduction
<1> QED
  BY <1>3 DEF G

(***************************************************************************)
(* The response as the page reads it: one unit for each character.         *)
(***************************************************************************)
Plainly == Chunk({}, {})
Stops   == {"EndOfGeneration", "Limit", "ContextFull", "Cancelled", "Failed"}
Usages  == [prompt : Nat, completion : Nat, total : Nat]
Bodies  == [error : BOOLEAN, finish : SUBSET {"length", "stop"}, usage : SUBSET Usages]

Brace(fields) == [is |-> "{", fields |-> fields]
Undivided == {Unit(is) : is \in {"data: ", "}", "[DONE]", "nl", "\\n", "a", "lo"}}
             \cup {Brace(fields) : fields \in Bodies}
Units  == Undivided \cup {Unit("hi")}

Characters(units) ==
    FlattenSeq([i \in DOMAIN units |->
                  IF units[i].is = "hi" THEN <<>> ELSE << units[i] >>])
Decode == [u \in Units |-> IF u.is = "hi" THEN <<>> ELSE << u >>]

LEMMA UnitTypes ==
    /\ Unit("data: ") \in Undivided /\ Unit("}") \in Undivided /\ Unit("[DONE]") \in Undivided
    /\ LineFeed \in Undivided /\ Unit("\\n") \in Undivided /\ Unit("a") \in Undivided
    /\ Unit("lo") \in Undivided /\ Unit("hi") \in Units
    /\ \A fields \in Bodies : Brace(fields) \in Undivided
  BY DEF Undivided, Units, LineFeed

LEMMA UndividedUnits == Undivided \subseteq Units /\ \A u \in Undivided : u.is # "hi"
<1>1. Undivided \subseteq Units
  BY DEF Units
<1>2. ASSUME NEW u \in Undivided PROVE u.is # "hi"
  <2>1. CASE \E x \in {"data: ", "}", "[DONE]", "nl", "\\n", "a", "lo"} : u = Unit(x)
    <3>1. PICK x \in {"data: ", "}", "[DONE]", "nl", "\\n", "a", "lo"} : u = Unit(x)
      BY <2>1
    <3>2. Unit(x).is = x /\ x # "hi"
      BY DEF Unit
    <3> QED
      BY <3>1, <3>2
  <2>2. CASE \E fields \in Bodies : u = Brace(fields)
    <3>1. PICK fields \in Bodies : u = Brace(fields)
      BY <2>2
    <3>2. Brace(fields).is = "{"
      BY DEF Brace
    <3> QED
      BY <3>1, <3>2
  <2> QED
    BY <2>1, <2>2 DEF Undivided
<1> QED
  BY <1>1, <1>2

LEMMA SeqOfOne == ASSUME NEW S, NEW e \in S PROVE << e >> \in Seq(S)
  OBVIOUS

LEMMA SeqOfTwo == ASSUME NEW S, NEW d \in S, NEW e \in S
                  PROVE  << d, e >> \in Seq(S) /\ Append(<< d >>, e) = << d, e >>
<1>1. << d, e >> \in Seq(S)
  OBVIOUS
<1>2. Append(<< d >>, e) = << d, e >>
  <2> DEFINE a == Append(<< d >>, e)
             b == << d, e >>
  <2>1. a \in Seq(S) /\ Len(a) = 2 /\ a[1] = d /\ a[2] = e
    <3>1. << d >> \in Seq(S) /\ Len(<< d >>) = 1 /\ << d >>[1] = d
      OBVIOUS
    <3> QED
      BY <3>1, AppendProperties
  <2>2. Len(b) = 2 /\ b[1] = d /\ b[2] = e
    OBVIOUS
  <2> HIDE DEF a, b
  <2>3. a = b
    BY <1>1, <2>1, <2>2, SeqEqual DEF b
  <2> QED
    BY <2>3 DEF a, b
<1> QED
  BY <1>1, <1>2

LEMMA DecodeAt ==
    /\ \A u \in Undivided : Decode[u] = << u >>
    /\ Decode[Unit("hi")] = <<>>
<1>1. \A u \in Undivided : u \in Units /\ u.is # "hi"
  BY UndividedUnits
<1>2. Unit("hi") \in Units /\ Unit("hi").is = "hi"
  BY UnitTypes DEF Unit
<1> QED
  BY <1>1, <1>2 DEF Decode

LEMMA DecodeSpells == Spells(Decode, Units, Units)
<1>1. ASSUME NEW u \in Units
      PROVE  (IF u.is = "hi" THEN <<>> ELSE << u >>) \in Seq(Units)
  OBVIOUS
<1> QED
  BY <1>1 DEF Decode, Spells

LEMMA CharactersExpand ==
    ASSUME NEW u \in Seq(Units)
    PROVE  Characters(u) = Expand(Decode, u)
<1>1. \A i \in DOMAIN u : u[i] \in Units
  BY LenProperties, ElementOfSeq
<1>2. Mapped(Decode, u) = [i \in DOMAIN u |-> IF u[i].is = "hi" THEN <<>> ELSE << u[i] >>]
  BY <1>1 DEF Mapped, Decode
<1> QED
  BY <1>2 DEF Characters, Expand

LEMMA CharactersTypes ==
    ASSUME NEW u \in Seq(Units)
    PROVE  Characters(u) \in Seq(Units)
  BY CharactersExpand, DecodeSpells, ExpandTypes

LEMMA CharactersConcat ==
    ASSUME NEW u \in Seq(Units), NEW v \in Seq(Units)
    PROVE  Characters(u \o v) = Characters(u) \o Characters(v)
<1>1. u \o v \in Seq(Units)
  BY ConcatProperties
<1>2. Expand(Decode, u \o v) = Expand(Decode, u) \o Expand(Decode, v)
  BY DecodeSpells, ExpandConcat
<1> QED
  BY <1>1, <1>2, CharactersExpand

\* A text without the first byte of two is as it is written.
LEMMA CharactersWhole ==
    ASSUME NEW u \in Seq(Undivided)
    PROVE  u \in Seq(Units) /\ Characters(u) = u
<1> DEFINE G == {v \in Seq(Undivided) : Expand(Decode, v) = v}
<1>1. <<>> \in G
  BY EmptySeq, ExpandEmpty
<1>2. ASSUME NEW v \in Seq(Units), NEW e \in Units
      PROVE  Expand(Decode, Append(v, e)) = Expand(Decode, v) \o Decode[e]
  BY DecodeSpells, ExpandAppend
<1>3. ASSUME NEW v \in Seq(Undivided), NEW e \in Undivided, v \in G
      PROVE  Append(v, e) \in G
  <2>1. v \in Seq(Units) /\ e \in Units /\ Decode[e] = << e >>
    BY UndividedUnits, SeqMonotonic, DecodeAt
  <2>2. Expand(Decode, Append(v, e)) = Expand(Decode, v) \o Decode[e]
    BY <1>2, <2>1
  <2>3. v \o << e >> = Append(v, e)
    BY AppendIsConcat
  <2> QED
    BY <1>3, <2>1, <2>2, <2>3, AppendProperties
<1> HIDE DEF G
<1>4. Seq(Undivided) \subseteq G
  BY <1>1, <1>3, SeqInduction
<1>5. u \in Seq(Units)
  BY UndividedUnits, SeqMonotonic
<1> QED
  BY <1>4, <1>5, CharactersExpand DEF G

(***************************************************************************)
(* A text of a token, as it is sent and as it is read.                     *)
(***************************************************************************)
Letter(c)  == IF c = "nl" THEN Unit("\\n") ELSE IF c = "acute" THEN Unit("lo") ELSE Unit(c)
Letters(t) == [i \in DOMAIN t |-> Letter(t[i])]

Inline == {u \in Undivided : u.is # "nl"}

LEMMA InlineTypes ==
    /\ Unit("data: ") \in Inline /\ Unit("}") \in Inline /\ Unit("[DONE]") \in Inline
    /\ Unit("\\n") \in Inline /\ Unit("a") \in Inline /\ Unit("lo") \in Inline
    /\ \A fields \in Bodies : Brace(fields) \in Inline
<1>1. \A x \in {"data: ", "}", "[DONE]", "\\n", "a", "lo"} : Unit(x) \in Undivided /\ Unit(x).is = x
  BY UnitTypes DEF Unit
<1>2. \A fields \in Bodies : Brace(fields) \in Undivided /\ Brace(fields).is = "{"
  BY UnitTypes DEF Brace
<1> QED
  BY <1>1, <1>2 DEF Inline

LEMMA LetterTypes == \A c \in Chars : Letter(c) \in Inline
  BY InlineTypes DEF Letter, Chars

LEMMA LettersTypes ==
    ASSUME NEW t \in Seq(Chars)
    PROVE  /\ Letters(t) \in Seq(Inline) /\ Letters(t) \in Seq(Undivided)
           /\ Len(Letters(t)) = Len(t)
<1> DEFINE h == [c \in Chars |-> Letter(c)]
<1>1. h \in [Chars -> Inline]
  BY LetterTypes
<1>2. Letters(t) = Mapped(h, t)
  <2>1. \A i \in DOMAIN t : t[i] \in Chars
    BY LenProperties, ElementOfSeq
  <2> QED
    BY <2>1 DEF Letters, Mapped
<1> HIDE DEF h
<1>3. Letters(t) \in Seq(Inline) /\ Len(Letters(t)) = Len(t)
  BY <1>1, <1>2, MapTypes, MapLen
<1>4. Inline \subseteq Undivided
  BY DEF Inline
<1> QED
  BY <1>3, <1>4, SeqMonotonic

LEMMA EscapedAre ==
    /\ Escaped("nl") = << Unit("\\n") >> /\ Letter("nl") = Unit("\\n")
    /\ Escaped("acute") = << Unit("hi"), Unit("lo") >> /\ Letter("acute") = Unit("lo")
    /\ Escaped("a") = << Unit("a") >> /\ Letter("a") = Unit("a")
  BY DEF Escaped, Letter

LEMMA LettersAre ==
    Unit("\\n") \in Units /\ Unit("a") \in Units /\ Unit("hi") \in Units /\ Unit("lo") \in Units
  BY UnitTypes, UndividedUnits

LEMMA EscapedTypes == \A c \in Chars : Escaped(c) \in Seq(Units)
<1>1. Escaped("nl") \in Seq(Units)
  BY LettersAre, EscapedAre, SeqOfOne
<1>2. Escaped("acute") \in Seq(Units)
  BY LettersAre, EscapedAre, SeqOfTwo
<1>3. Escaped("a") \in Seq(Units)
  BY LettersAre, EscapedAre, SeqOfOne
<1> QED
  BY <1>1, <1>2, <1>3 DEF Chars

LEMMA EscapedLetter == \A c \in Chars : Expand(Decode, Escaped(c)) = << Letter(c) >>
<1>1. ASSUME NEW u \in Units PROVE Expand(Decode, << u >>) = Decode[u]
  BY DecodeSpells, ExpandOne
<1>2. Decode[Unit("\\n")] = << Unit("\\n") >> /\ Decode[Unit("a")] = << Unit("a") >>
      /\ Decode[Unit("lo")] = << Unit("lo") >> /\ Decode[Unit("hi")] = <<>>
  BY UnitTypes, DecodeAt
<1>3. Expand(Decode, Escaped("nl")) = << Letter("nl") >>
  BY <1>1, <1>2, LettersAre, EscapedAre
<1>4. Expand(Decode, Escaped("a")) = << Letter("a") >>
  BY <1>1, <1>2, LettersAre, EscapedAre
<1>5. Expand(Decode, Escaped("acute")) = << Letter("acute") >>
  <2>1. PICK d \in Units, e \in Units : d = Unit("hi") /\ e = Unit("lo")
    BY LettersAre
  <2>2. Expand(Decode, << d >>) = <<>> /\ Decode[e] = << e >>
    BY <1>1, <1>2, <2>1
  <2>3. Expand(Decode, Append(<< d >>, e)) = Expand(Decode, << d >>) \o Decode[e]
    BY SeqOfOne, DecodeSpells, ExpandAppend
  <2>4. <<>> \o << e >> = << e >>
    OBVIOUS
  <2>5. Expand(Decode, << d, e >>) = << e >>
    BY <2>2, <2>3, <2>4, SeqOfTwo
  <2> QED
    BY <2>1, <2>5, EscapedAre
<1> QED
  BY <1>3, <1>4, <1>5 DEF Chars

LEMMA CharactersBytes ==
    ASSUME NEW t \in Seq(Chars)
    PROVE  Bytes(t) \in Seq(Units) /\ Characters(Bytes(t)) = Letters(t)
<1> DEFINE g == [c \in Chars |-> Escaped(c)]
           h == [c \in Chars |-> Letter(c)]
           k == [c \in Chars |-> << Letter(c) >>]
<1>1. \A i \in DOMAIN t : t[i] \in Chars
  BY LenProperties, ElementOfSeq
<1>2. Bytes(t) = Expand(g, t)
  <2>1. Mapped(g, t) = [i \in DOMAIN t |-> Escaped(t[i])]
    BY <1>1 DEF Mapped
  <2> QED
    BY <2>1 DEF Bytes, Expand
<1>3. Letters(t) = Mapped(h, t)
  BY <1>1 DEF Letters, Mapped
<1>4. Spells(g, Chars, Units)
  BY EscapedTypes DEF Spells
<1>5. h \in [Chars -> Units] /\ \A c \in Chars : k[c] = << h[c] >>
  BY LetterTypes, UndividedUnits DEF Inline
<1>6. Spells(k, Chars, Units)
  <2>1. \A c \in Chars : << Letter(c) >> \in Seq(Units)
    BY LetterTypes, UndividedUnits DEF Inline
  <2> QED
    BY <2>1 DEF Spells
<1>7. \A c \in Chars : Expand(Decode, g[c]) = k[c]
  BY EscapedLetter
<1> HIDE DEF g, h, k
<1>8. Expand(Decode, Expand(g, t)) = Expand(k, t)
  BY <1>4, <1>6, <1>7, DecodeSpells, ExpandTwice
<1>9. Expand(k, t) = Mapped(h, t)
  BY <1>5, <1>6, ExpandSingles
<1>10. Bytes(t) \in Seq(Units)
  BY <1>2, <1>4, ExpandTypes
<1> QED
  BY <1>2, <1>3, <1>8, <1>9, <1>10, CharactersExpand

(***************************************************************************)
(* A frame, as it is sent and as it is read: a line, and a blank one.      *)
(***************************************************************************)
Line(fields, t)   == (<< Unit("data: "), Brace(fields) >> \o Letters(t)) \o << Unit("}") >>
DoneLine          == << Unit("data: "), Unit("[DONE]") >>
Blank             == << LineFeed, LineFeed >>
Framed(fields, t) == Line(fields, t) \o Blank
Done              == DoneLine \o Blank

LEMMA SeqOfThree ==
    ASSUME NEW S, NEW c \in S, NEW d \in S, NEW e \in S
    PROVE  << c, d, e >> \in Seq(S) /\ << c >> \o << d, e >> = << c, d, e >>
<1> DEFINE a == << c >> \o << d, e >>
           b == << c, d, e >>
<1>1. b \in Seq(S)
  OBVIOUS
<1>2. a \in Seq(S) /\ Len(a) = 3 /\ a[1] = c /\ a[2] = d /\ a[3] = e
  <2>1. << c >> \in Seq(S) /\ Len(<< c >>) = 1 /\ << c >>[1] = c
    OBVIOUS
  <2>2. << d, e >> \in Seq(S) /\ Len(<< d, e >>) = 2 /\ << d, e >>[1] = d /\ << d, e >>[2] = e
    OBVIOUS
  <2> QED
    BY <2>1, <2>2, ConcatProperties
<1>3. Len(b) = 3 /\ b[1] = c /\ b[2] = d /\ b[3] = e
  OBVIOUS
<1> HIDE DEF a, b
<1>4. a = b
  BY <1>1, <1>2, <1>3, SeqEqual
<1> QED
  BY <1>1, <1>4 DEF a, b

LEMMA SeqOfFour ==
    ASSUME NEW S, NEW c \in S, NEW d \in S, NEW e \in S, NEW f \in S
    PROVE  << c, d, e, f >> \in Seq(S) /\ << c, d >> \o << e, f >> = << c, d, e, f >>
<1> DEFINE a == << c, d >> \o << e, f >>
           b == << c, d, e, f >>
<1>1. b \in Seq(S)
  OBVIOUS
<1>2. a \in Seq(S) /\ Len(a) = 4 /\ a[1] = c /\ a[2] = d /\ a[3] = e /\ a[4] = f
  <2>1. << c, d >> \in Seq(S) /\ Len(<< c, d >>) = 2 /\ << c, d >>[1] = c /\ << c, d >>[2] = d
    OBVIOUS
  <2>2. << e, f >> \in Seq(S) /\ Len(<< e, f >>) = 2 /\ << e, f >>[1] = e /\ << e, f >>[2] = f
    OBVIOUS
  <2> QED
    BY <2>1, <2>2, ConcatProperties
<1>3. Len(b) = 4 /\ b[1] = c /\ b[2] = d /\ b[3] = e /\ b[4] = f
  OBVIOUS
<1> HIDE DEF a, b
<1>4. a = b
  BY <1>1, <1>2, <1>3, SeqEqual
<1> QED
  BY <1>1, <1>4 DEF a, b

LEMMA BlankTypes == Blank \in Seq(Undivided) /\ Done \in Seq(Undivided)
<1>1. Blank \in Seq(Undivided)
  BY UnitTypes, SeqOfTwo DEF Blank
<1>2. DoneLine \in Seq(Undivided)
  BY UnitTypes, SeqOfTwo DEF DoneLine
<1> QED
  BY <1>1, <1>2, ConcatProperties DEF Done

LEMMA LineTypes ==
    ASSUME NEW fields \in Bodies, NEW t \in Seq(Chars)
    PROVE  /\ Line(fields, t) \in Seq(Inline)
           /\ Line(fields, t) \in Seq(Undivided) /\ Framed(fields, t) \in Seq(Undivided)
<1>1. << Unit("data: "), Brace(fields) >> \in Seq(Inline)
  BY InlineTypes, SeqOfTwo
<1>2. << Unit("}") >> \in Seq(Inline)
  BY InlineTypes, SeqOfOne
<1>3. Line(fields, t) \in Seq(Inline)
  BY <1>1, <1>2, LettersTypes, ConcatProperties DEF Line
<1>4. Inline \subseteq Undivided
  BY DEF Inline
<1>5. Line(fields, t) \in Seq(Undivided)
  BY <1>3, <1>4, SeqMonotonic
<1> QED
  BY <1>3, <1>5, BlankTypes, ConcatProperties DEF Framed

LEMMA FramedIs ==
    ASSUME NEW fields \in Bodies, NEW t \in Seq(Chars)
    PROVE  Framed(fields, t) = (<< Unit("data: "), Brace(fields) >> \o Letters(t))
                                  \o << Unit("}"), LineFeed, LineFeed >>
<1>1. PICK both \in Seq(Undivided) : both = << Unit("data: "), Brace(fields) >> \o Letters(t)
  BY UnitTypes, SeqOfTwo, LettersTypes, ConcatProperties
<1>2. PICK brace \in Seq(Undivided) : brace = << Unit("}") >>
  BY UnitTypes, SeqOfOne
<1>3. PICK blank \in Seq(Undivided) : blank = Blank
  BY BlankTypes
<1>4. brace \o blank = << Unit("}"), LineFeed, LineFeed >>
  <2>1. Unit("}") \in Undivided /\ LineFeed \in Undivided
    BY UnitTypes
  <2>2. << Unit("}") >> \o << LineFeed, LineFeed >> = << Unit("}"), LineFeed, LineFeed >>
    BY <2>1, SeqOfThree
  <2> QED
    BY <1>2, <1>3, <2>2 DEF Blank
<1>5. (both \o brace) \o blank = both \o (brace \o blank)
  <2>1. Associate(both, brace, blank)
    BY Associates
  <2> QED
    BY <2>1 DEF Associate
<1> QED
  BY <1>1, <1>2, <1>3, <1>4, <1>5 DEF Framed, Line

LEMMA SseFramed ==
    ASSUME NEW fields \in Bodies, NEW t \in Seq(Chars)
    PROVE  Sse(fields, t) \in Seq(Units) /\ Characters(Sse(fields, t)) = Framed(fields, t)
<1>1. PICK first \in Seq(Undivided) : first = << Unit("data: "), Brace(fields) >>
  BY UnitTypes, SeqOfTwo
<1>2. PICK last \in Seq(Undivided) : last = << Unit("}"), LineFeed, LineFeed >>
  BY UnitTypes, SeqOfThree
<1>3. PICK bytes \in Seq(Units) : bytes = Bytes(t) /\ Characters(bytes) = Letters(t)
  BY CharactersBytes
<1>4. Sse(fields, t) = (first \o bytes) \o last
  BY <1>1, <1>2, <1>3 DEF Sse, Brace
<1>5. /\ first \in Seq(Units) /\ Characters(first) = first
      /\ last \in Seq(Units) /\ Characters(last) = last
  BY CharactersWhole
<1>6. first \o bytes \in Seq(Units)
  BY <1>5, ConcatProperties
<1>7. Characters((first \o bytes) \o last) = (first \o Letters(t)) \o last
  <2>1. Characters(first \o bytes) = first \o Letters(t)
    BY <1>3, <1>5, CharactersConcat
  <2>2. PICK both \in Seq(Units) : both = first \o bytes
    BY <1>6
  <2>3. Characters(both \o last) = Characters(both) \o Characters(last)
    BY <1>5, CharactersConcat
  <2> QED
    BY <1>5, <2>1, <2>2, <2>3
<1>8. Sse(fields, t) \in Seq(Units)
  BY <1>4, <1>5, <1>6, ConcatProperties
<1> QED
  BY <1>1, <1>2, <1>4, <1>7, <1>8, FramedIs

LEMMA DoneFramed == DoneFrame \in Seq(Units) /\ Characters(DoneFrame) = Done
<1>1. DoneFrame \in Seq(Undivided) /\ DoneFrame = Done
  <2>1. PICK c \in Undivided, d \in Undivided, e \in Undivided :
          c = Unit("data: ") /\ d = Unit("[DONE]") /\ e = LineFeed
    BY UnitTypes
  <2>2. << c, d, e, e >> \in Seq(Undivided) /\ << c, d >> \o << e, e >> = << c, d, e, e >>
    BY SeqOfFour
  <2> QED
    BY <2>1, <2>2 DEF DoneFrame, Done, DoneLine, Blank
<1> QED
  BY <1>1, CharactersWhole

(***************************************************************************)
(* A whole reply: Frames(r) are the frames the page takes, one by one.     *)
(***************************************************************************)
Reply   == [tokens : Seq(Seq(Chars)), stop : Stops, prompt : Nat, counted : Nat]
Used(r) == NewUsage(r.prompt, r.counted)
Closing(r) ==
    IF r.stop = "Failed" THEN ErrorBody ELSE Chunk({FinishReason(r.stop)}, {Used(r)})
Opening   == << Framed(Plainly, <<>>) >>
Middle(r) == [i \in DOMAIN r.tokens |-> Framed(Plainly, r.tokens[i])]
Ending(r) == << Framed(Closing(r), <<>>), Done >>
Frames(r) == (Opening \o Middle(r)) \o Ending(r)

LEMMA ClosingTypes ==
    ASSUME NEW r \in Reply
    PROVE  Closing(r) \in Bodies /\ Plainly \in Bodies
<1>1. r.stop \in Stops /\ r.prompt \in Nat /\ r.counted \in Nat
  BY DEF Reply
<1>2. ErrorBody \in Bodies /\ Plainly \in Bodies
  BY DEF Bodies, ErrorBody, Plainly, Chunk
<1>3. FinishReason(r.stop) \in {"length", "stop"} /\ Used(r) \in Usages
  BY <1>1 DEF FinishReason, Used, Usages, NewUsage
<1> QED
  BY <1>2, <1>3 DEF Closing, Bodies, Chunk

LEMMA FramesTypes ==
    ASSUME NEW r \in Reply
    PROVE  /\ Opening \in Seq(Seq(Undivided)) /\ Middle(r) \in Seq(Seq(Undivided))
           /\ Ending(r) \in Seq(Seq(Undivided)) /\ Frames(r) \in Seq(Seq(Undivided))
           /\ Len(Middle(r)) = Len(r.tokens)
<1>1. <<>> \in Seq(Chars) /\ r.tokens \in Seq(Seq(Chars))
  BY EmptySeq DEF Reply
<1>2. Opening \in Seq(Seq(Undivided))
  BY <1>1, ClosingTypes, LineTypes, SeqOfOne DEF Opening
<1>3. Ending(r) \in Seq(Seq(Undivided))
  BY <1>1, ClosingTypes, LineTypes, BlankTypes, SeqOfTwo DEF Ending
<1>4. Middle(r) \in Seq(Seq(Undivided)) /\ Len(Middle(r)) = Len(r.tokens)
  <2> DEFINE h == [t \in Seq(Chars) |-> Framed(Plainly, t)]
  <2>1. h \in [Seq(Chars) -> Seq(Undivided)]
    BY ClosingTypes, LineTypes
  <2>2. Middle(r) = Mapped(h, r.tokens)
    <3>1. \A i \in DOMAIN r.tokens : r.tokens[i] \in Seq(Chars)
      BY <1>1, LenProperties, ElementOfSeq
    <3> QED
      BY <3>1 DEF Middle, Mapped
  <2> HIDE DEF h
  <2> QED
    BY <1>1, <2>1, <2>2, MapTypes, MapLen
<1>5. Opening \o Middle(r) \in Seq(Seq(Undivided))
  BY <1>2, <1>4, ConcatProperties
<1> QED
  BY <1>2, <1>3, <1>4, <1>5, ConcatProperties DEF Frames

LEMMA FramesFlat ==
    ASSUME NEW r \in Reply
    PROVE  FlattenSeq(Frames(r)) = (Framed(Plainly, <<>>) \o FlattenSeq(Middle(r)))
                                      \o (Framed(Closing(r), <<>>) \o Done)
<1>1. PICK first \in Seq(Undivided) : first = Framed(Plainly, <<>>)
  BY EmptySeq, ClosingTypes, LineTypes
<1>2. PICK last \in Seq(Undivided) : last = Framed(Closing(r), <<>>)
  BY EmptySeq, ClosingTypes, LineTypes
<1>3. Done \in Seq(Undivided)
  BY BlankTypes
<1>4. FlattenSeq(Opening) = first
  BY <1>1, FlattenOne DEF Opening
<1>5. FlattenSeq(Ending(r)) = last \o Done
  <2>1. << last >> \in Seq(Seq(Undivided)) /\ Append(<< last >>, Done) = << last, Done >>
    BY <1>3, SeqOfOne, SeqOfTwo
  <2>2. FlattenSeq(Append(<< last >>, Done)) = FlattenSeq(<< last >>) \o Done
    BY <1>3, <2>1, FlattenAppend
  <2>3. FlattenSeq(<< last >>) = last
    BY FlattenOne
  <2> QED
    BY <1>2, <2>1, <2>2, <2>3 DEF Ending
<1>6. FlattenSeq(Opening \o Middle(r)) = FlattenSeq(Opening) \o FlattenSeq(Middle(r))
  BY FramesTypes, FlattenConcat
<1>7. Opening \o Middle(r) \in Seq(Seq(Undivided))
  BY FramesTypes, ConcatProperties
<1>8. FlattenSeq(Frames(r)) = FlattenSeq(Opening \o Middle(r)) \o FlattenSeq(Ending(r))
  BY <1>7, FramesTypes, FlattenConcat DEF Frames
<1> QED
  BY <1>1, <1>2, <1>4, <1>5, <1>6, <1>8

\* protocol.rs's stream functions, and the page's TextDecoder: for a reply of any
\* tokens, what `serve` writes to the lane decodes to the frames of the reply, in
\* order, each of them a line without a line feed (LineTypes) and a blank one.
THEOREM StreamedFrames ==
    ASSUME NEW r \in Reply
    PROVE  Streamed(r) \in Seq(Units) /\ Characters(Streamed(r)) = FlattenSeq(Frames(r))
<1> DEFINE g == [t \in Seq(Chars) |-> StreamToken(t)]
           k == [t \in Seq(Chars) |-> Framed(Plainly, t)]
           tokens == FlattenSeq([i \in DOMAIN r.tokens |-> StreamToken(r.tokens[i])])
<1>1. r.tokens \in Seq(Seq(Chars)) /\ <<>> \in Seq(Chars) /\ Plainly \in Bodies
  BY EmptySeq, ClosingTypes DEF Reply
<1>2. \A i \in DOMAIN r.tokens : r.tokens[i] \in Seq(Chars)
  BY <1>1, LenProperties, ElementOfSeq
<1>3. tokens = Expand(g, r.tokens)
  <2>1. Mapped(g, r.tokens) = [i \in DOMAIN r.tokens |-> StreamToken(r.tokens[i])]
    BY <1>2 DEF Mapped
  <2> QED
    BY <2>1 DEF Expand
<1>4. FlattenSeq(Middle(r)) = Expand(k, r.tokens)
  <2>1. Mapped(k, r.tokens) = Middle(r)
    BY <1>2 DEF Mapped, Middle
  <2> QED
    BY <2>1 DEF Expand
<1>5. ASSUME NEW t \in Seq(Chars)
      PROVE  /\ g[t] \in Seq(Units) /\ k[t] \in Seq(Units) /\ Expand(Decode, g[t]) = k[t]
  <2>1. g[t] = Sse(Plainly, t) /\ k[t] = Framed(Plainly, t)
    BY DEF StreamToken, Plainly
  <2>2. Sse(Plainly, t) \in Seq(Units) /\ Characters(Sse(Plainly, t)) = Framed(Plainly, t)
    BY <1>1, SseFramed
  <2>3. Framed(Plainly, t) \in Seq(Units)
    BY <2>2, CharactersTypes
  <2> QED
    BY <2>1, <2>2, <2>3, CharactersExpand
<1>6. Spells(g, Seq(Chars), Units) /\ Spells(k, Seq(Chars), Units)
  BY <1>5 DEF Spells
<1>7. tokens \in Seq(Units) /\ Characters(tokens) = FlattenSeq(Middle(r))
  <2>1. \A t \in Seq(Chars) : Expand(Decode, g[t]) = k[t]
    BY <1>5
  <2> HIDE DEF g, k
  <2>2. Expand(Decode, Expand(g, r.tokens)) = Expand(k, r.tokens)
    BY <1>1, <1>6, <2>1, DecodeSpells, ExpandTwice
  <2>3. Expand(g, r.tokens) \in Seq(Units)
    BY <1>1, <1>6, ExpandTypes
  <2> QED
    BY <1>3, <1>4, <2>2, <2>3, CharactersExpand
<1> HIDE DEF g, k, tokens
<1>8. PICK last \in Seq(Units) : last = Sse(Closing(r), <<>>)
                                   /\ Characters(last) = Framed(Closing(r), <<>>)
  BY <1>1, ClosingTypes, SseFramed
<1>9. PICK first \in Seq(Units) : first = StreamOpen
                                   /\ Characters(first) = Framed(Plainly, <<>>)
  BY <1>1, SseFramed DEF StreamOpen, Plainly
<1>10. Streamed(r) = (first \o tokens) \o (last \o DoneFrame)
  <2>1. CASE r.stop = "Failed"
    BY <1>8, <1>9, <2>1 DEF Streamed, Closing, ErrorFrame, tokens
  <2>2. CASE r.stop # "Failed"
    BY <1>8, <1>9, <2>2 DEF Streamed, Closing, StreamClose, Used, tokens
  <2> QED
    BY <2>1, <2>2
<1>11. PICK left \in Seq(Units) : left = first \o tokens
                                   /\ Characters(left) = Framed(Plainly, <<>>) \o FlattenSeq(Middle(r))
  <2>1. PICK mid \in Seq(Units) : mid = tokens
    BY <1>7
  <2>2. /\ first \o mid \in Seq(Units)
        /\ Characters(first \o mid) = Characters(first) \o Characters(mid)
    BY ConcatProperties, CharactersConcat
  <2> QED
    BY <1>7, <1>9, <2>1, <2>2
<1>12. PICK right \in Seq(Units) : right = last \o DoneFrame
                                   /\ Characters(right) = Framed(Closing(r), <<>>) \o Done
  <2>1. PICK done \in Seq(Units) : done = DoneFrame /\ Characters(done) = Done
    BY DoneFramed
  <2>2. /\ last \o done \in Seq(Units)
        /\ Characters(last \o done) = Characters(last) \o Characters(done)
    BY ConcatProperties, CharactersConcat
  <2> QED
    BY <1>8, <2>1, <2>2
<1>13. /\ left \o right \in Seq(Units)
       /\ Characters(left \o right) = Characters(left) \o Characters(right)
  BY ConcatProperties, CharactersConcat
<1> QED
  BY <1>10, <1>11, <1>12, <1>13, FramesFlat

(***************************************************************************)
(* A character of two bytes is sent whole: its first is never the last of  *)
(* what is left, nor followed by another first.                            *)
(***************************************************************************)
Paired(units) == \A i \in 1 .. Len(units) : units[i].is = "hi" =>
                    i + 1 \in 1 .. Len(units) /\ units[i + 1].is # "hi"
Pairs == {u \in Seq(Units) : Paired(u)}

LEMMA PairsConcat ==
    ASSUME NEW u \in Pairs, NEW v \in Pairs
    PROVE  u \o v \in Pairs
<1>1. u \in Seq(Units) /\ v \in Seq(Units) /\ Len(u) \in Nat /\ Len(v) \in Nat
  BY LenProperties DEF Pairs
<1>2. /\ u \o v \in Seq(Units) /\ Len(u \o v) = Len(u) + Len(v)
      /\ \A i \in 1 .. Len(u) + Len(v) :
           (u \o v)[i] = IF i <= Len(u) THEN u[i] ELSE v[i - Len(u)]
  BY <1>1, ConcatProperties
<1>3. ASSUME NEW i \in 1 .. Len(u) + Len(v), (u \o v)[i].is = "hi"
      PROVE  i + 1 \in 1 .. Len(u) + Len(v) /\ (u \o v)[i + 1].is # "hi"
  <2>1. CASE i <= Len(u)
    <3>1. i \in 1 .. Len(u) /\ u[i].is = "hi"
      BY <1>1, <1>2, <1>3, <2>1
    <3>2. i + 1 \in 1 .. Len(u) /\ u[i + 1].is # "hi"
      BY <3>1 DEF Pairs, Paired
    <3>3. i + 1 \in 1 .. Len(u) + Len(v) /\ i + 1 <= Len(u)
      BY <1>1, <3>2
    <3> QED
      BY <1>2, <3>2, <3>3
  <2>2. CASE i > Len(u)
    <3>1. i - Len(u) \in 1 .. Len(v) /\ v[i - Len(u)].is = "hi"
      BY <1>1, <1>2, <1>3, <2>2
    <3>2. (i - Len(u)) + 1 \in 1 .. Len(v) /\ v[(i - Len(u)) + 1].is # "hi"
      BY <3>1 DEF Pairs, Paired
    <3>3. /\ i + 1 \in 1 .. Len(u) + Len(v) /\ ~(i + 1 <= Len(u))
          /\ (i + 1) - Len(u) = (i - Len(u)) + 1
      BY <1>1, <2>2, <3>2
    <3> QED
      BY <1>2, <3>2, <3>3
  <2> QED
    BY <1>1, <2>1, <2>2
<1> QED
  BY <1>2, <1>3 DEF Pairs, Paired

LEMMA PairsWhole ==
    ASSUME NEW u \in Seq(Undivided)
    PROVE  u \in Pairs
<1>1. u \in Seq(Units) /\ \A i \in 1 .. Len(u) : u[i] \in Undivided
  BY CharactersWhole, ElementOfSeq
<1> QED
  BY <1>1, UndividedUnits DEF Pairs, Paired

LEMMA PairsFlatten ==
    ASSUME NEW ss \in Seq(Pairs)
    PROVE  FlattenSeq(ss) \in Pairs
<1>1. <<>> \in Pairs /\ Pairs \subseteq Seq(Units)
  BY EmptySeq, PairsWhole DEF Pairs
<1> QED
  BY <1>1, PairsConcat, FlattenClosed

LEMMA PairsBytes ==
    ASSUME NEW t \in Seq(Chars)
    PROVE  Bytes(t) \in Pairs
<1>1. ASSUME NEW c \in Chars PROVE Escaped(c) \in Pairs
  <2>1. << Unit("\\n") >> \in Pairs /\ << Unit("a") >> \in Pairs
    BY UnitTypes, SeqOfOne, PairsWhole
  <2>2. << Unit("hi"), Unit("lo") >> \in Pairs
    <3>1. << Unit("hi"), Unit("lo") >> \in Seq(Units)
      BY LettersAre, SeqOfTwo
    <3>2. Unit("lo").is # "hi"
      BY DEF Unit
    <3> QED
      BY <3>1, <3>2 DEF Pairs, Paired
  <2> QED
    BY <2>1, <2>2, EscapedAre DEF Chars
<1> DEFINE g == [c \in Chars |-> Escaped(c)]
<1>2. g \in [Chars -> Pairs]
  BY <1>1
<1>3. Bytes(t) = FlattenSeq(Mapped(g, t))
  <2>1. \A i \in DOMAIN t : t[i] \in Chars
    BY LenProperties, ElementOfSeq
  <2>2. Mapped(g, t) = [i \in DOMAIN t |-> Escaped(t[i])]
    BY <2>1 DEF Mapped
  <2> QED
    BY <2>2 DEF Bytes
<1> HIDE DEF g
<1> QED
  BY <1>2, <1>3, MapTypes, PairsFlatten

LEMMA PairsSse ==
    ASSUME NEW fields \in Bodies, NEW t \in Seq(Chars)
    PROVE  Sse(fields, t) \in Pairs
<1>1. << Unit("data: "), Brace(fields) >> \in Pairs
  BY UnitTypes, SeqOfTwo, PairsWhole
<1>2. << Unit("}"), LineFeed, LineFeed >> \in Pairs
  BY UnitTypes, SeqOfThree, PairsWhole
<1> QED
  BY <1>1, <1>2, PairsBytes, PairsConcat DEF Sse, Brace

LEMMA PairsStreamed ==
    ASSUME NEW r \in Reply
    PROVE  Streamed(r) \in Pairs
<1> DEFINE g == [t \in Seq(Chars) |-> StreamToken(t)]
           tokens == FlattenSeq([i \in DOMAIN r.tokens |-> StreamToken(r.tokens[i])])
<1>1. r.tokens \in Seq(Seq(Chars)) /\ <<>> \in Seq(Chars) /\ Plainly \in Bodies
  BY EmptySeq, ClosingTypes DEF Reply
<1>2. g \in [Seq(Chars) -> Pairs]
  BY <1>1, PairsSse DEF StreamToken, Plainly
<1>3. tokens = FlattenSeq(Mapped(g, r.tokens))
  <2>1. \A i \in DOMAIN r.tokens : r.tokens[i] \in Seq(Chars)
    BY <1>1, LenProperties, ElementOfSeq
  <2>2. Mapped(g, r.tokens) = [i \in DOMAIN r.tokens |-> StreamToken(r.tokens[i])]
    BY <2>1 DEF Mapped
  <2> QED
    BY <2>2
<1> HIDE DEF g
<1>4. tokens \in Pairs
  BY <1>1, <1>2, <1>3, MapTypes, PairsFlatten
<1>5. StreamOpen \in Pairs /\ Sse(Closing(r), <<>>) \in Pairs
  BY <1>1, ClosingTypes, PairsSse DEF StreamOpen, Plainly
<1>6. DoneFrame \in Pairs
  BY UnitTypes, SeqOfFour, PairsWhole DEF DoneFrame
<1> HIDE DEF tokens
<1>7. (StreamOpen \o tokens) \o (Sse(Closing(r), <<>>) \o DoneFrame) \in Pairs
  BY <1>4, <1>5, <1>6, PairsConcat
<1>8. Streamed(r) = (StreamOpen \o tokens) \o (Sse(Closing(r), <<>>) \o DoneFrame)
  <2>1. CASE r.stop = "Failed"
    BY <2>1 DEF Streamed, Closing, ErrorFrame, tokens
  <2>2. CASE r.stop # "Failed"
    BY <2>2 DEF Streamed, Closing, StreamClose, Used, tokens
  <2> QED
    BY <2>1, <2>2
<1> QED
  BY <1>7, <1>8

(***************************************************************************)
(* What is left of a reply when k of its frames are taken.                 *)
(***************************************************************************)
Final(r) == Len(r.tokens) + 3
LineAt(r, k) ==
    IF k = 1 THEN Line(Plainly, <<>>)
    ELSE IF k <= Len(r.tokens) + 1 THEN Line(Plainly, r.tokens[k - 1])
    ELSE IF k = Len(r.tokens) + 2 THEN Line(Closing(r), <<>>)
    ELSE DoneLine
Left(r, k) == FlattenSeq(SubSeq(Frames(r), k + 1, Final(r)))

LEMMA LineAtTypes ==
    ASSUME NEW r \in Reply, NEW k \in 1 .. Final(r)
    PROVE  LineAt(r, k) \in Seq(Inline)
<1>1. <<>> \in Seq(Chars) /\ Plainly \in Bodies /\ Closing(r) \in Bodies
  BY EmptySeq, ClosingTypes
<1>2. r.tokens \in Seq(Seq(Chars)) /\ Len(r.tokens) \in Nat
  BY LenProperties DEF Reply
<1>3. DoneLine \in Seq(Inline)
  BY LineTypes, InlineTypes, SeqOfTwo DEF DoneLine
<1>4. ASSUME k # 1, k <= Len(r.tokens) + 1 PROVE r.tokens[k - 1] \in Seq(Chars)
  <2>1. k - 1 \in 1 .. Len(r.tokens)
    BY <1>2, <1>4 DEF Final
  <2> QED
    BY <1>2, <2>1, ElementOfSeq
<1> QED
  BY <1>1, <1>3, <1>4, LineTypes DEF LineAt

LEMMA ConcatLeft ==
    ASSUME NEW S, NEW s \in Seq(S), NEW t \in Seq(S), NEW i \in 1 .. Len(s)
    PROVE  (s \o t)[i] = s[i]
<1>1. Len(s) \in Nat /\ Len(t) \in Nat
  BY LenProperties
<1>2. i \in 1 .. Len(s) + Len(t) /\ i <= Len(s)
  BY <1>1
<1> QED
  BY <1>2, ConcatProperties

LEMMA ConcatRight ==
    ASSUME NEW S, NEW s \in Seq(S), NEW t \in Seq(S), NEW i \in 1 .. Len(t)
    PROVE  (s \o t)[Len(s) + i] = t[i]
<1>1. Len(s) \in Nat /\ Len(t) \in Nat
  BY LenProperties
<1>2. /\ Len(s) + i \in 1 .. Len(s) + Len(t) /\ ~(Len(s) + i <= Len(s))
      /\ (Len(s) + i) - Len(s) = i
  BY <1>1
<1> QED
  BY <1>2, ConcatProperties

LEMMA FrameAt ==
    ASSUME NEW r \in Reply
    PROVE  /\ Len(Frames(r)) = Final(r) /\ Final(r) \in Nat
           /\ \A k \in 1 .. Final(r) : Frames(r)[k] = LineAt(r, k) \o Blank
<1> DEFINE n == Len(r.tokens)
<1>1. r.tokens \in Seq(Seq(Chars)) /\ n \in Nat /\ DOMAIN r.tokens = 1 .. n
  BY LenProperties DEF Reply
<1>2. /\ Opening \in Seq(Seq(Undivided)) /\ Middle(r) \in Seq(Seq(Undivided))
      /\ Ending(r) \in Seq(Seq(Undivided)) /\ Len(Middle(r)) = n
  BY FramesTypes
<1>3. Len(Opening) = 1 /\ Opening[1] = Framed(Plainly, <<>>)
  BY DEF Opening
<1>4. Len(Ending(r)) = 2 /\ Ending(r)[1] = Framed(Closing(r), <<>>) /\ Ending(r)[2] = Done
  BY DEF Ending
<1>5. \A i \in 1 .. n : Middle(r)[i] = Framed(Plainly, r.tokens[i])
  BY <1>1 DEF Middle
<1> HIDE DEF n
<1>6. PICK left \in Seq(Seq(Undivided)) : left = Opening \o Middle(r)
  BY <1>2, ConcatProperties
<1>7. Len(left) = n + 1 /\ left[1] = Opening[1]
  <2>1. Len(left) = Len(Opening) + Len(Middle(r))
    BY <1>2, <1>6, ConcatProperties
  <2>2. 1 \in 1 .. Len(Opening)
    BY <1>3
  <2> QED
    BY <1>1, <1>2, <1>3, <1>6, <2>1, <2>2, ConcatLeft
<1>8. ASSUME NEW i \in 1 .. n PROVE left[1 + i] = Middle(r)[i]
  <2>1. (Opening \o Middle(r))[Len(Opening) + i] = Middle(r)[i]
    <3>1. PICK mid \in Seq(Seq(Undivided)) : mid = Middle(r) /\ i \in 1 .. Len(mid)
      BY <1>2
    <3>2. (Opening \o mid)[Len(Opening) + i] = mid[i]
      BY <1>2, <3>1, ConcatRight
    <3> QED
      BY <3>1, <3>2
  <2> QED
    BY <1>3, <1>6, <2>1
<1>9. Frames(r) = left \o Ending(r)
  BY <1>6 DEF Frames
<1>10. Len(Frames(r)) = n + 3
  <2>1. Len(Frames(r)) = Len(left) + Len(Ending(r))
    BY <1>2, <1>9, ConcatProperties
  <2> QED
    BY <1>1, <1>4, <1>7, <2>1
<1>11. ASSUME NEW k \in 1 .. n + 1 PROVE Frames(r)[k] = left[k]
  BY <1>2, <1>7, <1>9, ConcatLeft
<1>12. ASSUME NEW i \in 1 .. 2 PROVE Frames(r)[n + 1 + i] = Ending(r)[i]
  <2>1. PICK last \in Seq(Seq(Undivided)) : last = Ending(r) /\ i \in 1 .. Len(last)
    BY <1>2, <1>4
  <2>2. (left \o last)[Len(left) + i] = last[i]
    BY <2>1, ConcatRight
  <2> QED
    BY <1>7, <1>9, <2>1, <2>2
<1>13. Final(r) = n + 3
  BY DEF Final, n
<1>14. ASSUME NEW k \in 1 .. n + 3 PROVE Frames(r)[k] = LineAt(r, k) \o Blank
  <2>1. CASE k = 1
    <3>1. Frames(r)[1] = Framed(Plainly, <<>>)
      <4>1. 1 \in 1 .. n + 1
        BY <1>1
      <4> QED
        BY <1>3, <1>7, <1>11, <4>1
    <3>2. LineAt(r, 1) = Line(Plainly, <<>>)
      BY DEF LineAt
    <3> QED
      BY <2>1, <3>1, <3>2 DEF Framed
  <2>2. CASE k \in 2 .. n + 1
    <3>1. PICK i \in 1 .. n : k = 1 + i /\ k - 1 = i /\ k \in 1 .. n + 1
      <4>1. k - 1 \in 1 .. n /\ k = 1 + (k - 1) /\ k \in 1 .. n + 1
        BY <1>1, <2>2
      <4> QED
        BY <4>1
    <3>2. Frames(r)[k] = Middle(r)[i]
      BY <1>8, <1>11, <3>1
    <3>3. LineAt(r, k) = Line(Plainly, r.tokens[i])
      BY <1>1, <2>2, <3>1 DEF LineAt, n
    <3> QED
      BY <1>5, <3>2, <3>3 DEF Framed
  <2>3. CASE k = n + 2
    <3>1. Frames(r)[n + 1 + 1] = Ending(r)[1] /\ k = n + 1 + 1
      BY <1>1, <1>12, <2>3
    <3>2. LineAt(r, k) = Line(Closing(r), <<>>)
      BY <1>1, <2>3 DEF LineAt, n
    <3> QED
      BY <1>4, <3>1, <3>2 DEF Framed
  <2>4. CASE k = n + 3
    <3>1. Frames(r)[n + 1 + 2] = Ending(r)[2] /\ k = n + 1 + 2
      BY <1>1, <1>12, <2>4
    <3>2. LineAt(r, k) = DoneLine
      BY <1>1, <2>4 DEF LineAt, n
    <3> QED
      BY <1>4, <3>1, <3>2 DEF Done
  <2> QED
    BY <1>1, <2>1, <2>2, <2>3, <2>4
<1> QED
  BY <1>1, <1>10, <1>13, <1>14

LEMMA LeftAll ==
    ASSUME NEW r \in Reply
    PROVE  Left(r, 0) = FlattenSeq(Frames(r))
<1>1. Frames(r) \in Seq(Seq(Undivided)) /\ Len(Frames(r)) = Final(r)
  BY FramesTypes, FrameAt
<1>2. SubSeq(Frames(r), 1, Len(Frames(r))) = Frames(r)
  BY <1>1, SubSeqFull
<1>3. 0 + 1 = 1
  OBVIOUS
<1> QED
  BY <1>1, <1>2, <1>3 DEF Left

LEMMA LeftTypes ==
    ASSUME NEW r \in Reply, NEW k \in 0 .. Final(r)
    PROVE  Left(r, k) \in Seq(Undivided)
<1>1. Frames(r) \in Seq(Seq(Undivided)) /\ Len(Frames(r)) = Final(r) /\ Final(r) \in Nat
  BY FramesTypes, FrameAt
<1>2. \A i \in k + 1 .. Final(r) : Frames(r)[i] \in Seq(Undivided)
  BY <1>1, ElementOfSeq
<1>3. SubSeq(Frames(r), k + 1, Final(r)) \in Seq(Seq(Undivided))
  BY <1>1, <1>2, SubSeqProperties
<1> QED
  BY <1>3, FlattenTypes DEF Left

LEMMA LeftNone ==
    ASSUME NEW r \in Reply
    PROVE  Left(r, Final(r)) = <<>>
<1>1. Final(r) \in Nat
  BY FrameAt
<1>2. SubSeq(Frames(r), Final(r) + 1, Final(r)) = <<>>
  BY <1>1, SubSeqEmpty
<1> QED
  BY <1>2, FlattenEmpty DEF Left

LEMMA LeftNext ==
    ASSUME NEW r \in Reply, NEW k \in 0 .. Final(r) - 1
    PROVE  Left(r, k) = (LineAt(r, k + 1) \o Blank) \o Left(r, k + 1)
<1>1. Frames(r) \in Seq(Seq(Undivided)) /\ Len(Frames(r)) = Final(r) /\ Final(r) \in Nat
  BY FramesTypes, FrameAt
<1>2. k + 1 \in 1 .. Len(Frames(r)) /\ Final(r) \in k + 1 .. Len(Frames(r))
  BY <1>1
<1>3. PICK frame \in Seq(Undivided) : frame = Frames(r)[k + 1]
  BY <1>1, <1>2, ElementOfSeq
<1>4. PICK rest \in Seq(Seq(Undivided)) : rest = SubSeq(Frames(r), (k + 1) + 1, Final(r))
  <2>1. \A i \in (k + 1) + 1 .. Final(r) : Frames(r)[i] \in Seq(Undivided)
    BY <1>1, ElementOfSeq
  <2>2. (k + 1) + 1 \in Int /\ Final(r) \in Int
    BY <1>1
  <2>3. SubSeq(Frames(r), (k + 1) + 1, Final(r)) \in Seq(Seq(Undivided))
    BY <2>1, <2>2, SubSeqProperties
  <2> QED
    BY <2>3
<1>5. SubSeq(Frames(r), k + 1, Final(r)) = << frame >> \o rest
  BY <1>1, <1>2, <1>3, <1>4, SubSeqRecursiveFirst
<1>6. FlattenSeq(<< frame >> \o rest) = frame \o FlattenSeq(rest)
  <2>1. << frame >> \in Seq(Seq(Undivided)) /\ FlattenSeq(<< frame >>) = frame
    BY SeqOfOne, FlattenOne
  <2> QED
    BY <2>1, FlattenConcat
<1>7. frame = LineAt(r, k + 1) \o Blank
  BY <1>1, <1>2, <1>3, FrameAt
<1> QED
  BY <1>4, <1>5, <1>6, <1>7 DEF Left

(***************************************************************************)
(* The first blank line ends the first line that is left: a line holds no  *)
(* line feed, whatever the text of the token it carries.                   *)
(***************************************************************************)
Feeds(b) == {i \in 1 .. Len(b) - 1 : b[i].is = "nl" /\ b[i + 1].is = "nl"}

LEMMA FirstFeeds ==
    ASSUME NEW line \in Seq(Inline), NEW rest \in Seq(Units), NEW all \in Seq(Units),
           all = (line \o Blank) \o rest
    PROVE  /\ Len(all) = Len(line) + 2 + Len(rest)
           /\ \A i \in 1 .. Len(line) : all[i] = line[i] /\ all[i].is # "nl"
           /\ all[Len(line) + 1].is = "nl" /\ all[Len(line) + 2].is = "nl"
           /\ \A i \in 1 .. Len(rest) : all[Len(line) + 2 + i] = rest[i]
<1>1. Inline \subseteq Units
  BY UndividedUnits DEF Inline
<1>2. PICK l \in Seq(Units) : l = line /\ Len(l) \in Nat
  BY <1>1, SeqMonotonic, LenProperties
<1>3. PICK blank \in Seq(Units) : blank = Blank
  BY BlankTypes, CharactersWhole
<1>4. Len(blank) = 2 /\ blank[1].is = "nl" /\ blank[2].is = "nl"
  BY <1>3 DEF Blank, LineFeed, Unit
<1>5. PICK frame \in Seq(Units) : frame = l \o blank /\ Len(frame) = Len(l) + 2
  <2>1. l \o blank \in Seq(Units) /\ Len(l \o blank) = Len(l) + Len(blank)
    BY ConcatProperties
  <2> QED
    BY <1>4, <2>1
<1>6. all = frame \o rest
  BY <1>2, <1>3, <1>5
<1>7. Len(all) = Len(line) + 2 + Len(rest)
  <2>1. Len(frame \o rest) = Len(frame) + Len(rest)
    BY ConcatProperties
  <2> QED
    BY <1>2, <1>5, <1>6, <2>1
<1>8. ASSUME NEW i \in 1 .. Len(line) PROVE all[i] = line[i] /\ all[i].is # "nl"
  <2>1. i \in 1 .. Len(l) /\ i \in 1 .. Len(frame)
    BY <1>2, <1>5
  <2>2. frame[i] = l[i]
    BY <1>5, <2>1, ConcatLeft
  <2>3. all[i] = frame[i]
    BY <1>6, <2>1, ConcatLeft
  <2>4. line[i] \in Inline
    BY ElementOfSeq
  <2> QED
    BY <1>2, <2>2, <2>3, <2>4 DEF Inline
<1>9. ASSUME NEW i \in 1 .. 2 PROVE all[Len(line) + i].is = "nl"
  <2>1. i \in 1 .. Len(blank) /\ Len(l) + i \in 1 .. Len(frame)
    BY <1>2, <1>4, <1>5
  <2>2. frame[Len(l) + i] = blank[i]
    BY <1>5, <2>1, ConcatRight
  <2>3. all[Len(l) + i] = frame[Len(l) + i]
    BY <1>6, <2>1, ConcatLeft
  <2> QED
    BY <1>2, <1>4, <2>2, <2>3
<1>10. ASSUME NEW i \in 1 .. Len(rest) PROVE all[Len(line) + 2 + i] = rest[i]
  <2>1. (frame \o rest)[Len(frame) + i] = rest[i]
    BY ConcatRight
  <2> QED
    BY <1>2, <1>5, <1>6, <2>1
<1>11. all[Len(line) + 1].is = "nl" /\ all[Len(line) + 2].is = "nl"
  <2>1. 1 \in 1 .. 2 /\ 2 \in 1 .. 2
    OBVIOUS
  <2> QED
    BY <1>9, <2>1
<1> QED
  BY <1>7, <1>8, <1>10, <1>11

\* Of buf and more, line and the two feeds after it are taken from buf.
Takes(line, rest, buf, more) ==
    /\ Len(line) + 1 \in Feeds(buf) /\ \A j \in Feeds(buf) : Len(line) + 1 <= j
    /\ SubSeq(buf, 1, Len(line)) = line
    /\ SubSeq(buf, Len(line) + 3, Len(buf)) \in Seq(Units)
    /\ SubSeq(buf, Len(line) + 3, Len(buf)) \o more = rest

LEMMA TakeOne ==
    ASSUME NEW line \in Seq(Inline), NEW rest \in Seq(Units), NEW buf \in Seq(Units),
           NEW more \in Seq(Units), buf \o more = (line \o Blank) \o rest, Feeds(buf) # {}
    PROVE  Takes(line, rest, buf, more)
<1> DEFINE L == Len(line)
           N == Len(buf)
<1>1. L \in Nat /\ N \in Nat /\ Len(more) \in Nat /\ Len(rest) \in Nat
  BY LenProperties
<1>2. PICK all \in Seq(Units) : all = buf \o more /\ Len(all) = N + Len(more)
  BY ConcatProperties
<1>3. /\ Len(all) = L + 2 + Len(rest)
      /\ \A i \in 1 .. L : all[i] = line[i] /\ all[i].is # "nl"
      /\ all[L + 1].is = "nl" /\ all[L + 2].is = "nl"
      /\ \A i \in 1 .. Len(rest) : all[L + 2 + i] = rest[i]
  BY <1>2, FirstFeeds
<1>4. ASSUME NEW i \in 1 .. N PROVE all[i] = buf[i] /\ buf[i] \in Units
  BY <1>2, ConcatLeft, ElementOfSeq
<1>5. ASSUME NEW i \in 1 .. Len(more) PROVE all[N + i] = more[i]
  BY <1>2, ConcatRight
<1> HIDE DEF L, N
<1>6. ASSUME NEW j \in Feeds(buf) PROVE L + 1 <= j /\ j + 1 <= N
  <2>1. j \in 1 .. N - 1 /\ buf[j].is = "nl"
    BY DEF Feeds, N
  <2>2. j \in 1 .. N /\ all[j].is = "nl"
    BY <1>1, <1>4, <2>1
  <2>3. ~(j \in 1 .. L)
    BY <1>3, <2>2
  <2> QED
    BY <1>1, <2>1, <2>3
<1>7. L + 2 <= N
  <2>1. PICK j : j \in Feeds(buf)
    OBVIOUS
  <2>2. L + 1 <= j /\ j + 1 <= N /\ j \in Nat
    BY <1>6, <2>1 DEF Feeds
  <2> QED
    BY <1>1, <2>2
<1>8. L + 1 \in Feeds(buf)
  <2>1. L + 1 \in 1 .. N - 1 /\ L + 1 \in 1 .. N /\ L + 2 \in 1 .. N /\ (L + 1) + 1 = L + 2
    BY <1>1, <1>7
  <2>2. buf[L + 1].is = "nl" /\ buf[L + 2].is = "nl"
    BY <1>3, <1>4, <2>1
  <2> QED
    BY <2>1, <2>2 DEF Feeds, N
<1>9. SubSeq(buf, 1, L) = line
  <2>1. ASSUME NEW i \in 1 .. L PROVE buf[i] \in Units /\ buf[i] = line[i]
    <3>1. i \in 1 .. N
      BY <1>1, <1>7
    <3>2. all[i] = buf[i] /\ buf[i] \in Units
      BY <1>4, <3>1
    <3> QED
      BY <1>3, <3>2
  <2>2. /\ SubSeq(buf, 1, L) \in Seq(Units) /\ Len(SubSeq(buf, 1, L)) = L
        /\ \A i \in 1 .. L : SubSeq(buf, 1, L)[i] = buf[i]
    <3>1. /\ SubSeq(buf, 1, L) \in Seq(Units)
          /\ Len(SubSeq(buf, 1, L)) = IF 1 <= L THEN L - 1 + 1 ELSE 0
          /\ \A i \in 1 .. L - 1 + 1 : SubSeq(buf, 1, L)[i] = buf[1 + i - 1]
      BY <1>1, <2>1, SubSeqProperties
    <3> QED
      BY <1>1, <3>1
  <2>3. line \in Seq(Units)
    BY UndividedUnits, SeqMonotonic DEF Inline
  <2> QED
    BY <2>1, <2>2, <2>3, SeqEqual DEF L
<1>10. PICK tail \in Seq(Units) :
         /\ tail = SubSeq(buf, L + 3, N) /\ Len(tail) = N - (L + 2)
         /\ \A i \in 1 .. N - (L + 2) : tail[i] = all[L + 2 + i]
  <2>1. \A i \in L + 3 .. N : buf[i] \in Units
    BY <1>1, <1>4
  <2>2. /\ SubSeq(buf, L + 3, N) \in Seq(Units)
        /\ Len(SubSeq(buf, L + 3, N)) = IF L + 3 <= N THEN N - (L + 3) + 1 ELSE 0
        /\ \A i \in 1 .. N - (L + 3) + 1 : SubSeq(buf, L + 3, N)[i] = buf[L + 3 + i - 1]
    BY <1>1, <2>1, SubSeqProperties
  <2>3. Len(SubSeq(buf, L + 3, N)) = N - (L + 2)
    BY <1>1, <1>7, <2>2
  <2>4. ASSUME NEW i \in 1 .. N - (L + 2) PROVE SubSeq(buf, L + 3, N)[i] = all[L + 2 + i]
    <3>1. i \in 1 .. N - (L + 3) + 1 /\ L + 3 + i - 1 = L + 2 + i /\ L + 2 + i \in 1 .. N
      BY <1>1
    <3> QED
      BY <1>4, <2>2, <3>1
  <2> QED
    BY <2>2, <2>3, <2>4
<1>11. tail \o more = rest
  <2>1. Len(tail \o more) = Len(rest) /\ tail \o more \in Seq(Units)
    <3>1. Len(tail \o more) = Len(tail) + Len(more) /\ tail \o more \in Seq(Units)
      BY ConcatProperties
    <3> QED
      BY <1>1, <1>2, <1>3, <1>10, <3>1
  <2>2. ASSUME NEW i \in 1 .. Len(rest) PROVE (tail \o more)[i] = rest[i]
    <3>1. CASE i <= Len(tail)
      <4>1. i \in 1 .. Len(tail)
        BY <1>1, <1>10, <3>1
      <4>2. (tail \o more)[i] = tail[i]
        BY <4>1, ConcatLeft
      <4> QED
        BY <1>3, <1>10, <4>1, <4>2
    <3>2. CASE i > Len(tail)
      <4>1. PICK m \in 1 .. Len(more) : i = Len(tail) + m
        <5>1. i - Len(tail) \in 1 .. Len(more) /\ i = Len(tail) + (i - Len(tail))
          BY <1>1, <1>2, <1>3, <1>10, <3>2
        <5> QED
          BY <5>1
      <4>2. (tail \o more)[i] = more[m]
        BY <4>1, ConcatRight
      <4>3. L + 2 + i = N + m
        BY <1>1, <1>10, <4>1
      <4> QED
        BY <1>3, <1>5, <4>2, <4>3
    <3>3. Len(tail) \in Nat /\ i \in Nat
      BY LenProperties
    <3>4. i <= Len(tail) \/ i > Len(tail)
      BY <3>3
    <3> QED
      BY <3>1, <3>2, <3>4
  <2> QED
    BY <2>1, <2>2, SeqEqual
<1>12. /\ Len(line) + 1 \in Feeds(buf) /\ SubSeq(buf, 1, Len(line)) = line
       /\ SubSeq(buf, Len(line) + 3, Len(buf)) = tail
  BY <1>8, <1>9, <1>10 DEF L, N
<1>13. \A j \in Feeds(buf) : Len(line) + 1 <= j
  BY <1>6 DEF L
<1> QED
  BY <1>11, <1>12, <1>13 DEF Takes

\* While a frame is left, one is there to be taken once all is read.
LEMMA FeedsThere ==
    ASSUME NEW line \in Seq(Inline), NEW rest \in Seq(Units), NEW buf \in Seq(Units),
           buf = (line \o Blank) \o rest
    PROVE  Feeds(buf) # {}
<1>1. Len(line) \in Nat /\ Len(rest) \in Nat
  BY LenProperties
<1>2. /\ Len(buf) = Len(line) + 2 + Len(rest)
      /\ buf[Len(line) + 1].is = "nl" /\ buf[Len(line) + 2].is = "nl"
  BY FirstFeeds
<1>3. Len(line) + 1 \in 1 .. Len(buf) - 1 /\ (Len(line) + 1) + 1 = Len(line) + 2
  BY <1>1, <1>2
<1>4. Len(line) + 1 \in Feeds(buf)
  BY <1>2, <1>3 DEF Feeds
<1> QED
  BY <1>4

(***************************************************************************)
(* Decoding: of what is read only the first byte of a character whose      *)
(* second is still to come is held back, and no character is replaced.     *)
(***************************************************************************)
LEMMA LastIs ==
    ASSUME NEW S, NEW s \in Seq(S), s # <<>>
    PROVE  Len(s) \in 1 .. Len(s) /\ Last(s) = s[Len(s)] /\ Last(s) \in S
<1>1. Len(s) \in 1 .. Len(s)
  BY EmptySeq
<1> QED
  BY <1>1, ElementOfSeq DEF Last

LEMMA OnlyHi == \A u \in Units : u.is = "hi" => u = Unit("hi")
  BY UndividedUnits DEF Units

LEMMA HeldTypes ==
    ASSUME NEW bytes \in Seq(Units)
    PROVE  Held(bytes) \in {<<>>, << Unit("hi") >>}
<1>1. CASE bytes # <<>> /\ Last(bytes).is = "hi"
  BY <1>1, LastIs, OnlyHi DEF Held
<1>2. CASE ~(bytes # <<>> /\ Last(bytes).is = "hi")
  BY <1>2 DEF Held
<1> QED
  BY <1>1, <1>2

LEMMA NothingHeld == Characters(<<>>) = <<>> /\ Characters(<< Unit("hi") >>) = <<>>
<1>1. <<>> \in Seq(Units) /\ << Unit("hi") >> \in Seq(Units) /\ Unit("hi") \in Units
  BY EmptySeq, LettersAre, SeqOfOne
<1>2. Expand(Decode, << Unit("hi") >>) = Decode[Unit("hi")]
  BY <1>1, DecodeSpells, ExpandOne
<1>3. Expand(Decode, <<>>) = <<>>
  BY ExpandEmpty
<1> QED
  BY <1>1, <1>2, <1>3, DecodeAt, CharactersExpand

LEMMA DecodedIs ==
    ASSUME NEW bytes \in Seq(Units), NEW rest \in Seq(Units), Paired(bytes \o rest)
    PROVE  Decoded(bytes, Held(bytes)) = Characters(bytes) /\ Paired(Held(bytes) \o rest)
<1> DEFINE N == Len(bytes)
<1>1. N \in Nat /\ Len(rest) \in Nat
  BY LenProperties
<1>2. PICK all \in Seq(Units) : all = bytes \o rest /\ Len(all) = N + Len(rest)
  BY ConcatProperties
<1>3. ASSUME NEW i \in 1 .. N PROVE all[i] = bytes[i] /\ i \in 1 .. Len(all)
  BY <1>1, <1>2, ConcatLeft
<1>4. ASSUME NEW i \in 1 .. Len(all), all[i].is = "hi"
      PROVE  i + 1 \in 1 .. Len(all) /\ all[i + 1].is # "hi"
  BY <1>2, <1>4 DEF Paired
<1>5. CASE bytes = <<>> \/ Last(bytes).is # "hi"
  <2>1. Held(bytes) = <<>>
    BY <1>5 DEF Held
  <2>2. SubSeq(bytes, 1, N - Len(<<>>)) = bytes
    <3>1. N - Len(<<>>) = N
      BY <1>1
    <3> QED
      BY <3>1, SubSeqFull
  <2>3. Len(bytes) = 0 \/ bytes[Len(bytes)].is # "hi"
    BY <1>5, LastIs
  <2>4. ASSUME NEW i \in DOMAIN bytes
        PROVE  (IF bytes[i].is # "hi" THEN << bytes[i] >>
                ELSE IF i = Len(bytes) THEN << Unit("?") >> ELSE <<>>)
                  = (IF bytes[i].is = "hi" THEN <<>> ELSE << bytes[i] >>)
    <3>1. i \in 1 .. N
      BY LenProperties
    <3>2. i = N => bytes[i].is # "hi"
      BY <2>3, <3>1
    <3> QED
      BY <3>2
  <2>5. Decoded(bytes, <<>>) = Characters(bytes)
    BY <2>2, <2>4 DEF Decoded, Characters
  <2>6. ASSUME NEW i \in 1 .. Len(rest), rest[i].is = "hi"
        PROVE  i + 1 \in 1 .. Len(rest) /\ rest[i + 1].is # "hi"
    <3>1. all[N + i] = rest[i] /\ N + i \in 1 .. Len(all)
      BY <1>1, <1>2, ConcatRight
    <3>2. (N + i) + 1 \in 1 .. Len(all) /\ all[(N + i) + 1].is # "hi"
      BY <1>4, <2>6, <3>1
    <3>3. i + 1 \in 1 .. Len(rest) /\ (N + i) + 1 = N + (i + 1)
      BY <1>1, <1>2, <3>2
    <3>4. all[N + (i + 1)] = rest[i + 1]
      BY <1>2, <3>3, ConcatRight
    <3> QED
      BY <3>2, <3>3, <3>4
  <2>7. Paired(rest) /\ <<>> \o rest = rest
    BY <2>6, ConcatEmptySeq DEF Paired
  <2> QED
    BY <2>1, <2>5, <2>7
<1>6. CASE bytes # <<>> /\ Last(bytes).is = "hi"
  <2>1. N \in 1 .. N /\ bytes[N].is = "hi" /\ Last(bytes) = Unit("hi")
    BY <1>6, LastIs, OnlyHi
  <2>2. Held(bytes) = << Unit("hi") >>
    BY <1>6, <2>1 DEF Held
  <2>3. N - Len(<< Unit("hi") >>) = N - 1
    BY <1>1
  <2>4. PICK whole \in Seq(Units) :
          /\ whole = SubSeq(bytes, 1, N - 1) /\ Len(whole) = N - 1
          /\ \A i \in 1 .. N - 1 : whole[i] = bytes[i]
    <3>1. \A i \in 1 .. N - 1 : bytes[i] \in Units
      BY <1>1, ElementOfSeq
    <3> HIDE DEF N
    <3>2. /\ SubSeq(bytes, 1, N - 1) \in Seq(Units)
          /\ Len(SubSeq(bytes, 1, N - 1)) = IF 1 <= N - 1 THEN (N - 1) - 1 + 1 ELSE 0
          /\ \A i \in 1 .. (N - 1) - 1 + 1 : SubSeq(bytes, 1, N - 1)[i] = bytes[1 + i - 1]
      BY <1>1, <2>1, <3>1, SubSeqProperties
    <3>3. Len(SubSeq(bytes, 1, N - 1)) = N - 1
      <4>1. N >= 1
        BY <1>1, <2>1
      <4>2. CASE N = 1
        BY <3>2, <4>2
      <4>3. CASE N # 1
        <5>1. 1 <= N - 1 /\ ((N - 1) - 1) + 1 = N - 1
          BY <1>1, <4>1, <4>3
        <5> QED
          BY <3>2, <5>1
      <4> QED
        BY <4>2, <4>3
    <3>4. ASSUME NEW i \in 1 .. N - 1 PROVE SubSeq(bytes, 1, N - 1)[i] = bytes[i]
      <4>1. i \in 1 .. (N - 1) - 1 + 1 /\ 1 + i - 1 = i
        BY <1>1
      <4> QED
        BY <3>2, <4>1
    <3> QED
      BY <3>2, <3>3, <3>4
  <2>5. ASSUME NEW i \in DOMAIN whole
        PROVE  (IF whole[i].is # "hi" THEN << whole[i] >>
                ELSE IF i = Len(whole) THEN << Unit("?") >> ELSE <<>>)
                  = (IF whole[i].is = "hi" THEN <<>> ELSE << whole[i] >>)
    <3>1. i \in 1 .. N - 1
      BY <2>4, LenProperties
    <3>2. i = N - 1 => whole[i].is # "hi"
      <4> SUFFICES ASSUME i = N - 1, whole[i].is = "hi" PROVE FALSE
        OBVIOUS
      <4>1. i \in 1 .. N /\ all[i].is = "hi" /\ i + 1 = N
        BY <1>1, <1>3, <2>4, <3>1
      <4>2. all[i + 1].is # "hi"
        BY <1>3, <1>4, <4>1
      <4> QED
        BY <1>3, <2>1, <4>1, <4>2
    <3> QED
      BY <2>4, <3>2
  <2>6. Decoded(bytes, << Unit("hi") >>) = Characters(whole)
    BY <2>3, <2>4, <2>5 DEF Decoded, Characters
  <2>7. Characters(bytes) = Characters(whole)
    <3>1. Unit("hi") \in Units /\ << Unit("hi") >> \in Seq(Units)
      BY LettersAre, SeqOfOne
    <3>2. bytes = whole \o << Unit("hi") >>
      <4>1. SubSeq(bytes, 1, N) = SubSeq(bytes, 1, N - 1) \o << bytes[N] >>
        BY <1>1, <2>1, SubSeqRecursiveSecond
      <4>2. SubSeq(bytes, 1, N) = bytes
        BY SubSeqFull
      <4> QED
        BY <1>6, <2>1, <2>4, <4>1, <4>2, LastIs
    <3>3. Characters(whole \o << Unit("hi") >>) = Characters(whole) \o <<>>
      BY <3>1, CharactersConcat, NothingHeld
    <3>4. Characters(whole) \o <<>> = Characters(whole)
      BY CharactersTypes, ConcatEmptySeq
    <3> QED
      BY <3>2, <3>3, <3>4
  <2>8. Paired(<< Unit("hi") >> \o rest)
    <3> DEFINE left == << Unit("hi") >> \o rest
    <3>1. << Unit("hi") >> \in Seq(Units) /\ Len(<< Unit("hi") >>) = 1
      BY LettersAre, SeqOfOne
    <3>2. Len(left) = 1 + Len(rest) /\ left[1] = Unit("hi")
      BY <3>1, ConcatProperties, ConcatLeft
    <3>3. ASSUME NEW i \in 1 .. Len(rest) PROVE left[1 + i] = rest[i] /\ all[N + i] = rest[i]
      BY <1>2, <3>1, ConcatRight
    <3> HIDE DEF left
    <3>4. ASSUME NEW i \in 1 .. Len(left)
          PROVE  left[i] = all[N - 1 + i] /\ N - 1 + i \in 1 .. Len(all)
      <4>1. CASE i = 1
        <5>1. N - 1 + i = N
          BY <1>1, <4>1
        <5> QED
          BY <1>3, <1>6, <2>1, <3>2, <4>1, <5>1, LastIs
      <4>2. CASE i # 1
        <5>1. PICK j \in 1 .. Len(rest) : i = 1 + j /\ N - 1 + i = N + j
          <6>1. i - 1 \in 1 .. Len(rest) /\ i = 1 + (i - 1) /\ N - 1 + i = N + (i - 1)
            BY <1>1, <3>2, <4>2
          <6> QED
            BY <6>1
        <5>2. N + j \in 1 .. Len(all)
          BY <1>1, <1>2
        <5> QED
          BY <3>3, <5>1, <5>2
      <4> QED
        BY <4>1, <4>2
    <3>5. ASSUME NEW i \in 1 .. Len(left), left[i].is = "hi"
          PROVE  i + 1 \in 1 .. Len(left) /\ left[i + 1].is # "hi"
      <4>1. (N - 1 + i) + 1 \in 1 .. Len(all) /\ all[(N - 1 + i) + 1].is # "hi"
        BY <1>4, <3>4, <3>5
      <4>2. i + 1 \in 1 .. Len(left) /\ (N - 1 + i) + 1 = N - 1 + (i + 1)
        BY <1>1, <1>2, <3>2, <4>1
      <4> QED
        BY <3>4, <4>1, <4>2
    <3> QED
      BY <3>5 DEF Paired, left
  <2> QED
    BY <2>2, <2>6, <2>7, <2>8
<1> QED
  BY <1>5, <1>6

\* A read of any length loses nothing, and replaces nothing.
\* Reading bytes, with rest to come, loses nothing.
Reads(buf, all, bytes, rest) ==
    /\ bytes \in Seq(Units) /\ rest \in Seq(Units) /\ Paired(Held(bytes) \o rest)
    /\ buf \o Decoded(bytes, Held(bytes)) \in Seq(Units)
    /\ (buf \o Decoded(bytes, Held(bytes))) \o Characters(Held(bytes) \o rest)
         = buf \o Characters(all)

LEMMA ReadKeeps ==
    ASSUME NEW buf \in Seq(Units), NEW part \in Seq(Units), NEW w \in Seq(Units),
           Paired(part \o w), NEW n \in 1 .. Len(w), NEW bytes, NEW rest,
           bytes = part \o SubSeq(w, 1, n), rest = SubSeq(w, n + 1, Len(w))
    PROVE  Reads(buf, part \o w, bytes, rest)
<1>1. PICK head \in Seq(Units) : head = SubSeq(w, 1, n)
  <2>1. \A i \in 1 .. n : w[i] \in Units
    BY LenProperties, ElementOfSeq
  <2>2. SubSeq(w, 1, n) \in Seq(Units)
    BY <2>1, SubSeqProperties
  <2> QED
    BY <2>2
<1>2. rest \in Seq(Units)
  <2>1. \A i \in n + 1 .. Len(w) : w[i] \in Units
    BY LenProperties, ElementOfSeq
  <2>2. Len(w) \in Int /\ n + 1 \in Int
    BY LenProperties
  <2> QED
    BY <2>1, <2>2, SubSeqProperties
<1>3. head \o rest = w
  <2>1. Len(w) \in Nat
    BY LenProperties
  <2>2. 1 \in 1 .. Len(w) + 1 /\ n \in 1 - 1 .. Len(w) /\ Len(w) \in n .. Len(w)
    BY <2>1
  <2>3. SubSeq(w, 1, n) \o SubSeq(w, n + 1, Len(w)) = SubSeq(w, 1, Len(w))
    BY <2>2, ConcatAdjacentSubSeq
  <2> QED
    BY <1>1, <2>3, SubSeqFull
<1>4. bytes \in Seq(Units) /\ bytes \o rest = part \o w
  <2>1. Associate(part, head, rest)
    BY <1>2, Associates
  <2> QED
    BY <1>1, <1>3, <2>1, ConcatProperties DEF Associate
<1>5. Decoded(bytes, Held(bytes)) = Characters(bytes) /\ Paired(Held(bytes) \o rest)
  BY <1>2, <1>4, DecodedIs
<1>6. Characters(Held(bytes) \o rest) = Characters(rest)
  <2>1. Held(bytes) \in Seq(Units) /\ Characters(Held(bytes)) = <<>>
    BY <1>4, HeldTypes, NothingHeld, EmptySeq, LettersAre, SeqOfOne
  <2>2. Characters(Held(bytes) \o rest) = Characters(Held(bytes)) \o Characters(rest)
    BY <1>2, <2>1, CharactersConcat
  <2>3. <<>> \o Characters(rest) = Characters(rest)
    BY <1>2, CharactersTypes, ConcatEmptySeq
  <2> QED
    BY <2>1, <2>2, <2>3
<1>7. Characters(part \o w) = Characters(bytes) \o Characters(rest)
  BY <1>2, <1>4, CharactersConcat
<1>8. PICK now \in Seq(Units) : now = Characters(bytes)
  BY <1>4, CharactersTypes
<1>9. PICK later \in Seq(Units) : later = Characters(rest)
  BY <1>2, CharactersTypes
<1>10. (buf \o now) \o later = buf \o (now \o later)
  <2>1. Associate(buf, now, later)
    BY Associates
  <2> QED
    BY <2>1 DEF Associate
<1>11. buf \o now \in Seq(Units)
  BY ConcatProperties
<1> QED
  BY <1>2, <1>4, <1>5, <1>6, <1>7, <1>8, <1>9, <1>10, <1>11 DEF Reads

(***************************************************************************)
(* Parsing: the page finds in a line what the line was made of.            *)
(***************************************************************************)
LEMMA Enclosed ==
    ASSUME NEW S, NEW a \in S, NEW b \in S, NEW z \in S, NEW mid \in Seq(S)
    PROVE  LET w == (<< a, b >> \o mid) \o << z >>
           IN  /\ w \in Seq(S) /\ w # <<>> /\ w[1] = a
               /\ Tail(w) \in Seq(S) /\ Len(Tail(w)) = Len(mid) + 2
               /\ Tail(w)[1] = b /\ Last(Tail(w)) = z
               /\ \A i \in 1 .. Len(mid) : Tail(w)[1 + i] = mid[i]
<1> DEFINE p == << a, b >>
           q == << z >>
           x == p \o mid
           w == x \o q
<1>1. p \in Seq(S) /\ Len(p) = 2 /\ p[1] = a /\ p[2] = b
  OBVIOUS
<1>2. q \in Seq(S) /\ Len(q) = 1 /\ q[1] = z
  OBVIOUS
<1>3. Len(mid) \in Nat
  BY LenProperties
<1> HIDE DEF p, q
<1>4. x \in Seq(S) /\ Len(x) = 2 + Len(mid)
  <2>1. x \in Seq(S) /\ Len(x) = Len(p) + Len(mid)
    <3> HIDE DEF w
    <3> QED
      BY <1>1, ConcatProperties
  <2> QED
    BY <1>1, <1>3, <2>1
<1> HIDE DEF x
<1>5. w \in Seq(S) /\ Len(w) = 3 + Len(mid)
  <2>1. w \in Seq(S) /\ Len(w) = Len(x) + Len(q)
    BY <1>2, <1>4, ConcatProperties
  <2> QED
    BY <1>2, <1>3, <1>4, <2>1
<1> HIDE DEF w
<1>6. w[1] = a /\ w[2] = b
  <2>1. 1 \in 1 .. Len(p) /\ 2 \in 1 .. Len(p) /\ 1 \in 1 .. Len(x) /\ 2 \in 1 .. Len(x)
    BY <1>1, <1>3, <1>4
  <2>2. x[1] = p[1] /\ x[2] = p[2]
    BY <1>1, <1>4, <2>1, ConcatLeft DEF x
  <2>3. w[1] = x[1] /\ w[2] = x[2]
    BY <1>2, <1>4, <1>5, <2>1, ConcatLeft DEF w
  <2> QED
    BY <1>1, <2>2, <2>3
<1>7. w[3 + Len(mid)] = z
  <2>1. (x \o q)[Len(x) + 1] = q[1]
    <3>1. x \in Seq(S) /\ q \in Seq(S) /\ 1 \in 1 .. Len(q)
      BY <1>2, <1>4
    <3> QED
      BY <3>1, ConcatRight
  <2>2. Len(x) + 1 = 3 + Len(mid)
    BY <1>3, <1>4
  <2> QED
    BY <1>2, <2>1, <2>2 DEF w
<1>8. ASSUME NEW i \in 1 .. Len(mid) PROVE w[2 + i] = mid[i]
  <2>1. (p \o mid)[Len(p) + i] = mid[i]
    <3>1. p \in Seq(S)
      BY <1>1
    <3> QED
      BY <3>1, ConcatRight
  <2>2. 2 + i \in 1 .. Len(x)
    BY <1>3, <1>4
  <2>3. w[2 + i] = x[2 + i]
    BY <1>2, <1>4, <2>2, ConcatLeft DEF w
  <2> QED
    BY <1>1, <2>1, <2>3 DEF x
<1>9. w # <<>>
  BY <1>3, <1>5, EmptySeq
<1> DEFINE d == Tail(w)
<1>10. /\ d \in Seq(S) /\ Len(d) = Len(mid) + 2
       /\ \A i \in 1 .. Len(d) : d[i] = w[i + 1]
  <2>1. /\ d \in Seq(S) /\ Len(d) = Len(w) - 1
        /\ \A i \in 1 .. Len(d) : d[i] = w[i + 1]
    BY <1>5, <1>9, HeadTailProperties
  <2> QED
    BY <1>3, <1>5, <2>1
<1> HIDE DEF d
<1>11. d[1] = b
  <2>1. 1 \in 1 .. Len(d) /\ 1 + 1 = 2
    BY <1>3, <1>10
  <2> QED
    BY <1>6, <1>10, <2>1
<1>12. Last(d) = z
  <2>1. d # <<>>
    BY <1>3, <1>10, EmptySeq
  <2>2. Len(d) \in 1 .. Len(d) /\ Last(d) = d[Len(d)]
    BY <1>10, <2>1, LastIs
  <2>3. Len(d) + 1 = 3 + Len(mid)
    BY <1>3, <1>10
  <2> QED
    BY <1>7, <1>10, <2>2, <2>3
<1>13. ASSUME NEW i \in 1 .. Len(mid) PROVE d[1 + i] = mid[i]
  <2>1. 1 + i \in 1 .. Len(d) /\ (1 + i) + 1 = 2 + i
    BY <1>3, <1>10
  <2>2. d[1 + i] = w[(1 + i) + 1]
    BY <1>10, <2>1
  <2> QED
    BY <1>8, <2>1, <2>2
<1> QED
  BY <1>5, <1>6, <1>9, <1>10, <1>11, <1>12, <1>13 DEF d, w, x, p, q

LEMMA Inner ==
    ASSUME NEW S, NEW d \in Seq(S), NEW mid \in Seq(S), Len(d) = Len(mid) + 2,
           \A i \in 1 .. Len(mid) : d[1 + i] = mid[i]
    PROVE  SubSeq(d, 2, Len(d) - 1) = mid
<1> DEFINE T == Len(mid)
<1>1. T \in Nat /\ Len(d) = T + 2 /\ Len(d) - 1 = T + 1
  BY LenProperties
<1> HIDE DEF T
<1>2. \A i \in 2 .. T + 1 : d[i] \in S
  BY <1>1, ElementOfSeq
<1>3. /\ SubSeq(d, 2, T + 1) \in Seq(S)
      /\ Len(SubSeq(d, 2, T + 1)) = IF 2 <= T + 1 THEN (T + 1) - 2 + 1 ELSE 0
      /\ \A i \in 1 .. (T + 1) - 2 + 1 : SubSeq(d, 2, T + 1)[i] = d[2 + i - 1]
  BY <1>1, <1>2, SubSeqProperties
<1>4. Len(SubSeq(d, 2, T + 1)) = T
  BY <1>1, <1>3
<1>5. ASSUME NEW i \in 1 .. T PROVE SubSeq(d, 2, T + 1)[i] = mid[i]
  <2>1. i \in 1 .. (T + 1) - 2 + 1 /\ 2 + i - 1 = 1 + i
    BY <1>1
  <2>2. d[1 + i] = mid[i]
    BY DEF T
  <2> QED
    BY <1>3, <2>1, <2>2
<1>6. PICK s \in Seq(S) : s = SubSeq(d, 2, T + 1) /\ Len(s) = Len(mid)
  BY <1>3, <1>4 DEF T
<1>7. s = mid
  BY <1>5, <1>6, SeqEqual DEF T
<1> QED
  BY <1>1, <1>6, <1>7

LEMMA LetterBack ==
    ASSUME NEW c \in Chars
    PROVE  c = IF Letter(c).is = "\\n" THEN "nl"
               ELSE IF Letter(c).is = "lo" THEN "acute" ELSE Letter(c).is
  BY DEF Letter, Unit, Chars

LEMMA ContentIs ==
    ASSUME NEW d \in Seq(Units), NEW t \in Seq(Chars), SubSeq(d, 2, Len(d) - 1) = Letters(t)
    PROVE  Content(d) = t
<1>1. DOMAIN t = 1 .. Len(t) /\ t = [i \in DOMAIN t |-> t[i]]
  BY LenProperties
<1>2. DOMAIN Letters(t) = DOMAIN t /\ \A i \in DOMAIN t : Letters(t)[i] = Letter(t[i])
  BY DEF Letters
<1>3. ASSUME NEW i \in DOMAIN t
      PROVE  (IF Letters(t)[i].is = "\\n" THEN "nl"
              ELSE IF Letters(t)[i].is = "lo" THEN "acute" ELSE Letters(t)[i].is) = t[i]
  <2>1. t[i] \in Chars
    BY <1>1, ElementOfSeq
  <2> QED
    BY <1>2, <2>1, LetterBack
<1>4. Content(d) = [i \in DOMAIN t |->
                      IF Letters(t)[i].is = "\\n" THEN "nl"
                      ELSE IF Letters(t)[i].is = "lo" THEN "acute" ELSE Letters(t)[i].is]
  BY <1>2 DEF Content
<1> QED
  BY <1>1, <1>3, <1>4

LEMMA LineData ==
    ASSUME NEW fields \in Bodies, NEW t \in Seq(Chars)
    PROVE  /\ Line(fields, t) # <<>> /\ Line(fields, t)[1].is = "data: "
           /\ Tail(Line(fields, t)) # << Unit("[DONE]") >>
           /\ Parses(Tail(Line(fields, t)))
           /\ Tail(Line(fields, t))[1].fields = fields
           /\ Content(Tail(Line(fields, t))) = t
<1>1. PICK a \in Undivided : a = Unit("data: ")
  BY UnitTypes
<1>2. PICK b \in Undivided : b = Brace(fields)
  BY UnitTypes
<1>3. PICK z \in Undivided : z = Unit("}")
  BY UnitTypes
<1>4. PICK mid \in Seq(Undivided) : mid = Letters(t)
  BY LettersTypes
<1>5. PICK w : w = (<< a, b >> \o mid) \o << z >>
  OBVIOUS
<1>6. /\ w # <<>> /\ w[1] = a /\ Tail(w) \in Seq(Undivided) /\ Len(Tail(w)) = Len(mid) + 2
      /\ Tail(w)[1] = b /\ Last(Tail(w)) = z
  BY <1>5, Enclosed
<1>7. \A i \in 1 .. Len(mid) : Tail(w)[1 + i] = mid[i]
  BY <1>5, Enclosed
<1>8. PICK d \in Seq(Undivided) : d = Tail(w)
  BY <1>6
<1>9. SubSeq(d, 2, Len(d) - 1) = Letters(t)
  BY <1>4, <1>6, <1>7, <1>8, Inner
<1>10. Len(mid) \in Nat
  BY LenProperties
<1>11. Len(d) >= 2 /\ Len(d) # 1
  <2>1. Len(d) = Len(mid) + 2
    BY <1>6, <1>8
  <2> QED
    BY <1>10, <2>1
<1>12. d \in Seq(Units)
  BY UndividedUnits, SeqMonotonic
<1>13. Content(d) = t
  BY <1>9, <1>12, ContentIs
<1>14. d # << Unit("[DONE]") >>
  <2>1. \A u : Len(<< u >>) = 1
    OBVIOUS
  <2> QED
    BY <1>11, <2>1
<1>15. a.is = "data: " /\ b.is = "{" /\ b.fields = fields /\ z.is = "}"
  BY <1>1, <1>2, <1>3 DEF Unit, Brace
<1>16. Parses(d)
  BY <1>6, <1>8, <1>11, <1>15 DEF Parses
<1>17. w = Line(fields, t)
  BY <1>1, <1>2, <1>3, <1>4, <1>5 DEF Line
<1> QED
  BY <1>6, <1>8, <1>13, <1>14, <1>15, <1>16, <1>17

LEMMA DoneData ==
    DoneLine # <<>> /\ DoneLine[1].is = "data: " /\ Tail(DoneLine) = << Unit("[DONE]") >>
<1>1. ASSUME NEW a, NEW b
      PROVE  << a, b >> # <<>> /\ << a, b >>[1] = a /\ Tail(<< a, b >>) = << b >>
  OBVIOUS
<1>2. Unit("data: ").is = "data: "
  BY DEF Unit
<1> QED
  BY <1>1, <1>2 DEF DoneLine

(***************************************************************************)
(* What is shown and noted when k frames are taken, and what the next      *)
(* frame adds.                                                             *)
(***************************************************************************)
TextAt(r, k)   == IF k \in 2 .. Len(r.tokens) + 1 THEN r.tokens[k - 1] ELSE <<>>
FieldsAt(r, k) == IF k = Len(r.tokens) + 2 THEN Closing(r) ELSE Plainly

Shown(r, k) ==
    IF k <= Len(r.tokens) THEN FlattenSeq(SubSeq(r.tokens, 1, k - 1)) ELSE Whole(r)
Noted(r, k) ==
    IF k < Len(r.tokens) + 2 THEN NoNote
    ELSE [kind |-> "finished", why |-> FinishReason(r.stop), used |-> Used(r)]

Carries(l) == l # <<>> /\ l[1].is = "data: " /\ Tail(l) # << Unit("[DONE]") >>

LEMMA SplitAt ==
    ASSUME NEW S, NEW s \in Seq(S), NEW k \in 0 .. Len(s)
    PROVE  /\ SubSeq(s, 1, k) \in Seq(S) /\ SubSeq(s, k + 1, Len(s)) \in Seq(S)
           /\ SubSeq(s, 1, k) \o SubSeq(s, k + 1, Len(s)) = s
<1>1. Len(s) \in Nat /\ Len(s) \in Int /\ k \in Int /\ k + 1 \in Int
  BY LenProperties
<1>2. \A i \in 1 .. k : s[i] \in S
  BY <1>1, ElementOfSeq
<1>3. \A i \in k + 1 .. Len(s) : s[i] \in S
  BY <1>1, ElementOfSeq
<1>4. SubSeq(s, 1, k) \in Seq(S)
  BY <1>1, <1>2, SubSeqProperties
<1>5. SubSeq(s, k + 1, Len(s)) \in Seq(S)
  BY <1>1, <1>3, SubSeqProperties
<1>6. 1 \in 1 .. Len(s) + 1 /\ k \in 1 - 1 .. Len(s) /\ Len(s) \in k .. Len(s)
  BY <1>1
<1>7. SubSeq(s, 1, k) \o SubSeq(s, k + 1, Len(s)) = SubSeq(s, 1, Len(s))
  BY <1>6, ConcatAdjacentSubSeq
<1> QED
  BY <1>4, <1>5, <1>7, SubSeqFull

LEMMA PrefixOfConcat ==
    ASSUME NEW S, NEW s \in Seq(S), NEW t \in Seq(S)
    PROVE  IsPrefix(s, s \o t)
<1>1. Len(s) \in Nat /\ Len(t) \in Nat
  BY LenProperties
<1>2. Len(s \o t) = Len(s) + Len(t)
  BY ConcatProperties
<1>3. Len(s) <= Len(s \o t)
  BY <1>1, <1>2
<1>4. CASE Len(s) = 0
  <2>1. \A w : SubSeq(w, 1, 0) = <<>>
    BY SubSeqEmpty
  <2> QED
    BY <1>3, <1>4, <2>1 DEF IsPrefix
<1>5. CASE Len(s) # 0
  <2>1. 1 \in 1 .. Len(s) /\ Len(s) \in 1 .. Len(s)
    BY <1>1, <1>5
  <2>2. SubSeq(s \o t, 1, Len(s)) = SubSeq(s, 1, Len(s))
    BY <2>1, SubSeqOfConcat1
  <2> QED
    BY <1>3, <2>2 DEF IsPrefix
<1> QED
  BY <1>4, <1>5

LEMMA WholeTypes ==
    ASSUME NEW r \in Reply
    PROVE  r.tokens \in Seq(Seq(Chars)) /\ Len(r.tokens) \in Nat /\ Whole(r) \in Seq(Chars)
<1>1. r.tokens \in Seq(Seq(Chars)) /\ Len(r.tokens) \in Nat
  BY LenProperties DEF Reply
<1> QED
  BY <1>1, FlattenTypes DEF Whole

LEMMA ShownTypes ==
    ASSUME NEW r \in Reply, NEW k \in 0 .. Final(r)
    PROVE  Shown(r, k) \in Seq(Chars) /\ IsPrefix(Shown(r, k), Whole(r))
<1>1. r.tokens \in Seq(Seq(Chars)) /\ Len(r.tokens) \in Nat /\ Whole(r) \in Seq(Chars)
  BY WholeTypes
<1>2. CASE k = 0
  <2>1. SubSeq(r.tokens, 1, k - 1) = <<>>
    <3>1. k - 1 \in Int /\ k - 1 < 1
      BY <1>2
    <3> QED
      BY <3>1, SubSeqEmpty
  <2>2. Shown(r, k) = <<>>
    <3>1. k <= Len(r.tokens)
      BY <1>1, <1>2
    <3>2. Shown(r, k) = FlattenSeq(SubSeq(r.tokens, 1, k - 1))
      BY <3>1 DEF Shown
    <3> QED
      BY <2>1, <3>2, FlattenEmpty
  <2>3. <<>> \in Seq(Chars) /\ <<>> \o Whole(r) = Whole(r)
    BY <1>1, EmptySeq, ConcatEmptySeq
  <2>4. IsPrefix(<<>>, <<>> \o Whole(r))
    BY <1>1, <2>3, PrefixOfConcat
  <2> QED
    BY <2>2, <2>3, <2>4
<1>3. CASE k # 0 /\ k <= Len(r.tokens)
  <2>1. k - 1 \in 0 .. Len(r.tokens)
    BY <1>1, <1>3
  <2>2. PICK n \in 0 .. Len(r.tokens) : n = k - 1
    BY <2>1
  <2>3. PICK front \in Seq(Seq(Chars)), back \in Seq(Seq(Chars)) :
          front = SubSeq(r.tokens, 1, n) /\ front \o back = r.tokens
    <3>1. /\ SubSeq(r.tokens, 1, n) \in Seq(Seq(Chars))
          /\ SubSeq(r.tokens, n + 1, Len(r.tokens)) \in Seq(Seq(Chars))
          /\ SubSeq(r.tokens, 1, n) \o SubSeq(r.tokens, n + 1, Len(r.tokens)) = r.tokens
      BY <1>1, SplitAt
    <3> QED
      BY <3>1
  <2>4. FlattenSeq(front) \in Seq(Chars) /\ FlattenSeq(back) \in Seq(Chars)
    BY FlattenTypes
  <2>5. Whole(r) = FlattenSeq(front) \o FlattenSeq(back)
    BY <2>3, FlattenConcat DEF Whole
  <2>6. Shown(r, k) = FlattenSeq(front)
    BY <1>3, <2>2, <2>3 DEF Shown
  <2>7. IsPrefix(FlattenSeq(front), FlattenSeq(front) \o FlattenSeq(back))
    BY <2>4, PrefixOfConcat
  <2> QED
    BY <2>4, <2>5, <2>6, <2>7
<1>4. CASE ~(k <= Len(r.tokens))
  <2>1. Shown(r, k) = Whole(r)
    BY <1>4 DEF Shown
  <2>2. <<>> \in Seq(Chars) /\ Whole(r) \o <<>> = Whole(r)
    BY <1>1, EmptySeq, ConcatEmptySeq
  <2>3. IsPrefix(Whole(r), Whole(r) \o <<>>)
    BY <1>1, <2>2, PrefixOfConcat
  <2> QED
    BY <1>1, <2>1, <2>2, <2>3
<1> QED
  BY <1>2, <1>3, <1>4

LEMMA ShownNext ==
    ASSUME NEW r \in Reply, NEW k \in 0 .. Final(r) - 1
    PROVE  Shown(r, k + 1) = Shown(r, k) \o TextAt(r, k + 1)
<1>1. r.tokens \in Seq(Seq(Chars)) /\ Len(r.tokens) \in Nat /\ Whole(r) \in Seq(Chars)
  BY WholeTypes
<1>2. Shown(r, k) \in Seq(Chars)
  <2>1. k \in 0 .. Final(r)
    BY <1>1 DEF Final
  <2> QED
    BY <2>1, ShownTypes
<1>3. Shown(r, k) \o <<>> = Shown(r, k)
  BY <1>2, ConcatEmptySeq
<1>4. CASE k = 0
  <2>1. SubSeq(r.tokens, 1, 0) = <<>> /\ SubSeq(r.tokens, 1, k - 1) = <<>>
    <3>1. k - 1 \in Int /\ k - 1 < 1
      BY <1>4
    <3> QED
      BY <3>1, SubSeqEmpty
  <2>2. TextAt(r, k + 1) = <<>>
    BY <1>1, <1>4 DEF TextAt
  <2>3. Shown(r, k) = <<>>
    <3>1. k <= Len(r.tokens)
      BY <1>1, <1>4
    <3>2. Shown(r, k) = FlattenSeq(SubSeq(r.tokens, 1, k - 1))
      BY <3>1 DEF Shown
    <3> QED
      BY <2>1, <3>2, FlattenEmpty
  <2>4. CASE Len(r.tokens) = 0
    <3>1. r.tokens = <<>>
      BY <1>1, <2>4, EmptySeq
    <3>2. Whole(r) = <<>>
      BY <3>1, FlattenEmpty DEF Whole
    <3>3. ~(k + 1 <= Len(r.tokens))
      BY <1>4, <2>4
    <3>4. Shown(r, k + 1) = <<>>
      BY <3>2, <3>3 DEF Shown
    <3> QED
      BY <1>3, <2>2, <2>3, <3>4
  <2>5. CASE Len(r.tokens) # 0
    <3>1. k + 1 <= Len(r.tokens) /\ (k + 1) - 1 = 0
      BY <1>1, <1>4, <2>5
    <3>2. Shown(r, k + 1) = <<>>
      BY <2>1, <3>1, FlattenEmpty DEF Shown
    <3> QED
      BY <1>3, <2>2, <2>3, <3>2
  <2> QED
    BY <2>4, <2>5
<1>5. CASE k # 0 /\ k <= Len(r.tokens)
  <2>1. k \in 1 .. Len(r.tokens) /\ 1 \in 1 .. Len(r.tokens)
    BY <1>1, <1>5
  <2>2. TextAt(r, k + 1) = r.tokens[k]
    <3>1. k + 1 \in 2 .. Len(r.tokens) + 1 /\ (k + 1) - 1 = k
      BY <1>1, <2>1
    <3> QED
      BY <3>1 DEF TextAt
  <2>3. PICK e \in Seq(Chars) : e = r.tokens[k]
    BY <1>1, <2>1, ElementOfSeq
  <2>4. SubSeq(r.tokens, 1, k) = SubSeq(r.tokens, 1, k - 1) \o << e >>
    BY <1>1, <2>1, <2>3, SubSeqRecursiveSecond
  <2>5. SubSeq(r.tokens, 1, k - 1) \in Seq(Seq(Chars))
    <3>1. k - 1 \in 0 .. Len(r.tokens)
      BY <1>1, <2>1
    <3> QED
      BY <1>1, <3>1, SplitAt
  <2>6. << e >> \in Seq(Seq(Chars)) /\ FlattenSeq(<< e >>) = e
    BY SeqOfOne, FlattenOne
  <2>7. FlattenSeq(SubSeq(r.tokens, 1, k)) = FlattenSeq(SubSeq(r.tokens, 1, k - 1)) \o e
    BY <2>4, <2>5, <2>6, FlattenConcat
  <2>8. Shown(r, k) = FlattenSeq(SubSeq(r.tokens, 1, k - 1))
    BY <2>1 DEF Shown
  <2>9. Shown(r, k + 1) = FlattenSeq(SubSeq(r.tokens, 1, k))
    <3>1. CASE k = Len(r.tokens)
      <4>1. ~(k + 1 <= Len(r.tokens))
        BY <1>1, <3>1
      <4>2. SubSeq(r.tokens, 1, k) = r.tokens
        BY <1>1, <3>1, SubSeqFull
      <4> QED
        BY <4>1, <4>2 DEF Shown, Whole
    <3>2. CASE k # Len(r.tokens)
      <4>1. k + 1 <= Len(r.tokens) /\ (k + 1) - 1 = k
        BY <1>1, <2>1, <3>2
      <4> QED
        BY <4>1 DEF Shown
    <3> QED
      BY <3>1, <3>2
  <2> QED
    BY <2>2, <2>3, <2>7, <2>8, <2>9
<1>6. CASE ~(k <= Len(r.tokens))
  <2>1. ~(k + 1 <= Len(r.tokens)) /\ ~(k + 1 \in 2 .. Len(r.tokens) + 1)
    BY <1>1, <1>6
  <2>2. Shown(r, k) = Whole(r) /\ Shown(r, k + 1) = Whole(r) /\ TextAt(r, k + 1) = <<>>
    BY <1>6, <2>1 DEF Shown, TextAt
  <2> QED
    BY <1>3, <2>2
<1> QED
  BY <1>4, <1>5, <1>6

LEMMA LineOf ==
    ASSUME NEW r \in Reply, NEW k \in 1 .. Final(r)
    PROVE  /\ k # Final(r) => LineAt(r, k) = Line(FieldsAt(r, k), TextAt(r, k))
           /\ k = Final(r) => LineAt(r, k) = DoneLine /\ TextAt(r, k) = <<>>
           /\ FieldsAt(r, k) \in Bodies /\ TextAt(r, k) \in Seq(Chars)
<1> DEFINE N == Len(r.tokens)
<1>1. r.tokens \in Seq(Seq(Chars)) /\ N \in Nat
  BY WholeTypes
<1>2. <<>> \in Seq(Chars) /\ Plainly \in Bodies /\ Closing(r) \in Bodies
  BY EmptySeq, ClosingTypes
<1>3. ASSUME k \in 2 .. N + 1 PROVE TextAt(r, k) = r.tokens[k - 1] /\ TextAt(r, k) \in Seq(Chars)
  <2>1. k - 1 \in 1 .. Len(r.tokens)
    BY <1>1, <1>3
  <2>2. r.tokens[k - 1] \in Seq(Chars)
    BY <1>1, <2>1, ElementOfSeq
  <2> QED
    BY <1>3, <2>2 DEF TextAt
<1>4. ASSUME ~(k \in 2 .. N + 1) PROVE TextAt(r, k) = <<>>
  BY <1>4 DEF TextAt
<1>5. FieldsAt(r, k) = IF k = N + 2 THEN Closing(r) ELSE Plainly
  BY DEF FieldsAt
<1>6. LineAt(r, k) = IF k = 1 THEN Line(Plainly, <<>>)
                     ELSE IF k <= N + 1 THEN Line(Plainly, r.tokens[k - 1])
                     ELSE IF k = N + 2 THEN Line(Closing(r), <<>>)
                     ELSE DoneLine
  BY DEF LineAt
<1>7. Final(r) = N + 3
  BY DEF Final
<1> HIDE DEF N
<1>8. CASE k = 1
  <2>1. ~(k \in 2 .. N + 1) /\ k # N + 2 /\ k # N + 3
    BY <1>1, <1>8
  <2> QED
    BY <1>2, <1>4, <1>5, <1>6, <1>7, <1>8, <2>1
<1>9. CASE k \in 2 .. N + 1
  <2>1. k # 1 /\ k <= N + 1 /\ k # N + 2 /\ k # N + 3
    BY <1>1, <1>9
  <2> QED
    BY <1>2, <1>3, <1>5, <1>6, <1>7, <1>9, <2>1
<1>10. CASE k = N + 2
  <2>1. ~(k \in 2 .. N + 1) /\ k # 1 /\ ~(k <= N + 1) /\ k # N + 3
    BY <1>1, <1>10
  <2> QED
    BY <1>2, <1>4, <1>5, <1>6, <1>7, <1>10, <2>1
<1>11. CASE k = N + 3
  <2>1. ~(k \in 2 .. N + 1) /\ k # 1 /\ ~(k <= N + 1) /\ k # N + 2
    BY <1>1, <1>11
  <2> QED
    BY <1>2, <1>4, <1>5, <1>6, <1>7, <1>11, <2>1
<1>12. k = 1 \/ k \in 2 .. N + 1 \/ k = N + 2 \/ k = N + 3
  BY <1>1, <1>7
<1> QED
  BY <1>8, <1>9, <1>10, <1>11, <1>12

LEMMA FrameCarries ==
    ASSUME NEW r \in Reply, NEW k \in 1 .. Final(r)
    PROVE  /\ Carries(LineAt(r, k)) <=> k # Final(r)
           /\ k # Final(r) => /\ Parses(Tail(LineAt(r, k)))
                              /\ Tail(LineAt(r, k))[1].fields = FieldsAt(r, k)
                              /\ Content(Tail(LineAt(r, k))) = TextAt(r, k)
<1>1. FieldsAt(r, k) \in Bodies /\ TextAt(r, k) \in Seq(Chars)
  BY LineOf
<1>2. CASE k # Final(r)
  <2>1. PICK fields \in Bodies, t \in Seq(Chars) :
          fields = FieldsAt(r, k) /\ t = TextAt(r, k) /\ LineAt(r, k) = Line(fields, t)
    BY <1>1, <1>2, LineOf
  <2>2. /\ Line(fields, t) # <<>> /\ Line(fields, t)[1].is = "data: "
        /\ Tail(Line(fields, t)) # << Unit("[DONE]") >>
        /\ Parses(Tail(Line(fields, t))) /\ Tail(Line(fields, t))[1].fields = fields
        /\ Content(Tail(Line(fields, t))) = t
    BY LineData
  <2>3. Carries(Line(fields, t))
    BY <2>2 DEF Carries
  <2> QED
    BY <1>2, <2>1, <2>2, <2>3
<1>3. CASE k = Final(r)
  <2>1. LineAt(r, k) = DoneLine
    BY <1>3, LineOf
  <2> QED
    BY <1>3, <2>1, DoneData DEF Carries
<1> QED
  BY <1>2, <1>3

LEMMA NotedNext ==
    ASSUME NEW r \in Reply, NEW k \in 0 .. Final(r) - 1
    PROVE  /\ FieldsAt(r, k + 1).error <=> (k + 1 = Len(r.tokens) + 2 /\ r.stop = "Failed")
           /\ ~FieldsAt(r, k + 1).error =>
                Noted(r, k + 1) = IF FieldsAt(r, k + 1).finish = {} THEN Noted(r, k)
                                  ELSE [kind |-> "finished",
                                        why |-> UnwrapOr(FieldsAt(r, k + 1).finish, ""),
                                        used |-> UnwrapOr(FieldsAt(r, k + 1).usage, NewUsage(0, 0))]
<1> DEFINE N == Len(r.tokens)
<1>1. N \in Nat /\ Final(r) = N + 3
  BY WholeTypes DEF Final
<1>2. CASE k + 1 # N + 2
  <2>1. FieldsAt(r, k + 1) = Plainly
    BY <1>2 DEF FieldsAt
  <2>2. Plainly.error = FALSE /\ Plainly.finish = {}
    BY DEF Plainly, Chunk
  <2>3. k + 1 < N + 2 <=> k < N + 2
    BY <1>1, <1>2
  <2>4. Noted(r, k + 1) = Noted(r, k)
    BY <2>3 DEF Noted
  <2> QED
    BY <1>2, <2>1, <2>2, <2>4
<1>3. CASE k + 1 = N + 2
  <2>1. FieldsAt(r, k + 1) = Closing(r)
    BY <1>3 DEF FieldsAt
  <2>2. CASE r.stop = "Failed"
    <3>1. Closing(r).error = TRUE
      BY <2>2 DEF Closing, ErrorBody
    <3> QED
      BY <1>3, <2>1, <2>2, <3>1
  <2>3. CASE r.stop # "Failed"
    <3>1. Closing(r) = Chunk({FinishReason(r.stop)}, {Used(r)})
      BY <2>3 DEF Closing
    <3>2. /\ Closing(r).error = FALSE /\ Closing(r).finish = {FinishReason(r.stop)}
          /\ Closing(r).usage = {Used(r)}
      BY <3>1 DEF Chunk
    <3>3. ASSUME NEW x, NEW y PROVE UnwrapOr({x}, y) = x /\ {x} # {}
      BY DEF UnwrapOr
    <3>4. ~(k + 1 < N + 2)
      BY <1>1, <1>3
    <3>5. Noted(r, k + 1) = [kind |-> "finished", why |-> FinishReason(r.stop), used |-> Used(r)]
      BY <3>4 DEF Noted
    <3>6. /\ UnwrapOr(Closing(r).finish, "") = FinishReason(r.stop)
          /\ Closing(r).finish # {}
      BY <3>2, <3>3
    <3>7. UnwrapOr(Closing(r).usage, NewUsage(0, 0)) = Used(r)
      BY <3>2, <3>3
    <3> QED
      BY <2>1, <2>3, <3>2, <3>5, <3>6, <3>7
  <2> QED
    BY <2>2, <2>3
<1> QED
  BY <1>2, <1>3

(***************************************************************************)
(* The inductive invariant: while the page reads, what it has and what is  *)
(* still to come are the frames it has not taken, no character is split    *)
(* but between what it holds back and what comes next, and it shows the    *)
(* tokens of the frames it has taken.                                      *)
(***************************************************************************)
Message == [role : {"user", "assistant"}, content : Seq(Chars)]

Conversation ==
    /\ messages \in Seq(Message) /\ text \in Seq(Chars)
    /\ asking \in {"no", "fetching", "reading"} /\ trouble \in BOOLEAN
    /\ note.kind \in {"none", "cancelled", "failed", "finished"}
    /\ partial \in {<<>>, << Unit("hi") >>}

Requested == asking # "no" => \E limit \in Limits : request = Body(messages, limit)

Fetching == asking = "fetching" =>
    /\ reply = NoReply /\ note = NoNote
    /\ text = <<>> /\ partial = <<>> /\ buffer = <<>>

Answered ==
    /\ reply \in Reply
    /\ reply.stop = "Limit" => \A limit \in request.max_tokens : reply.counted >= limit
    /\ reply.stop # "Failed" => [to |-> messages, text |-> Whole(reply)] \in given

Taken(k) ==
    /\ buffer \o Characters(partial \o wire) = Left(reply, k)
    /\ text = Shown(reply, k) /\ note = Noted(reply, k)
    /\ reply.stop = "Failed" => k < Len(reply.tokens) + 2

Receiving == asking = "reading" =>
    /\ Answered
    /\ wire \in Seq(Units) /\ buffer \in Seq(Units) /\ Paired(partial \o wire)
    /\ \E k \in 0 .. Final(reply) : Taken(k)

PageInv ==
    /\ Conversation /\ Requested /\ Fetching /\ Receiving
    /\ ShownIsTheReply /\ NoteIsTrue /\ HistoryIsReplies

(***************************************************************************)
(* What the page asks for is what the engine is asked for.                 *)
(***************************************************************************)
LEMMA PlainText ==
    ASSUME NEW c \in Seq(Chars)
    PROVE  ContentText(Plain(c)) = c
<1> DEFINE part == [kind |-> "text", text |-> {c}]
<1>1. part.kind = "text" /\ part.text = {c}
  OBVIOUS
<1>2. UnwrapOr({c}, <<>>) = c
  BY DEF UnwrapOr
<1> HIDE DEF part
<1>3. DOMAIN << part >> = {1} /\ << part >>[1] = part
  OBVIOUS
<1>4. [i \in DOMAIN << part >> |->
         IF << part >>[i].kind = "text" THEN UnwrapOr(<< part >>[i].text, <<>>) ELSE <<>>]
      = << c >>
  <2>1. ASSUME NEW i \in {1}
        PROVE  (IF << part >>[i].kind = "text" THEN UnwrapOr(<< part >>[i].text, <<>>)
                ELSE <<>>) = c
    BY <1>1, <1>2, <1>3
  <2>2. << c >> = [i \in {1} |-> c]
    OBVIOUS
  <2> QED
    BY <1>3, <2>1, <2>2
<1>5. Plain(c) = << part >>
  BY DEF Plain, part
<1> QED
  BY <1>4, <1>5, FlattenOne DEF ContentText

LEMMA BodyAsks ==
    ASSUME NEW h \in Seq(Message), NEW limit, request = Body(h, limit)
    PROVE  Asked.messages = h /\ Asked.max_tokens = limit /\ request.max_tokens = {limit}
<1> DEFINE sent == [i \in DOMAIN h |-> Says(h[i].role, Plain(h[i].content))]
<1>1. /\ request.messages = sent /\ request.max_tokens = {limit}
      /\ request.max_completion_tokens = {}
  BY DEF Body
<1>2. DOMAIN sent = DOMAIN h /\ DOMAIN h = 1 .. Len(h) /\ h = [i \in DOMAIN h |-> h[i]]
  BY LenProperties
<1>3. ASSUME NEW i \in DOMAIN h
      PROVE  [role |-> sent[i].role, content |-> ContentText(sent[i].content)] = h[i]
  <2>1. sent[i].role = h[i].role /\ sent[i].content = Plain(h[i].content)
    BY <1>3 DEF Says
  <2>2. h[i] \in Message
    BY <1>2, ElementOfSeq
  <2>3. /\ h[i].content \in Seq(Chars)
        /\ h[i] = [role |-> h[i].role, content |-> h[i].content]
    BY <2>2 DEF Message
  <2> QED
    BY <2>1, <2>3, PlainText
<1>4. Asked.messages =
        [i \in DOMAIN request.messages |->
           [role |-> request.messages[i].role,
            content |-> ContentText(request.messages[i].content)]]
  BY DEF Asked, ToGenerateRequest
<1> HIDE DEF sent
<1>5. Asked.messages = [i \in DOMAIN h |-> h[i]]
  BY <1>1, <1>2, <1>3, <1>4
<1>6. Asked.max_tokens = limit
  <2>1. Asked.max_tokens = UnwrapOr(Or({}, {limit}), Defaults.max_tokens)
    BY <1>1 DEF Asked, ToGenerateRequest, MaxTokens
  <2>2. Or({}, {limit}) = {limit} /\ UnwrapOr({limit}, Defaults.max_tokens) = limit
    BY DEF Or, UnwrapOr
  <2> QED
    BY <2>1, <2>2
<1> QED
  BY <1>1, <1>2, <1>5, <1>6

LEMMA ReplyTypes ==
    ASSUME NEW h \in Seq(Message), NEW limit, request = Body(h, limit), NEW r \in Replies
    PROVE  r \in Reply /\ (r.stop = "Limit" => r.counted >= limit)
<1>1. Len(h) \in Nat /\ MostTokens \in Nat
  BY LenProperties, PageAssumption
<1>2. /\ r \in [tokens : UNION {[1 .. n -> Texts] : n \in 0 .. MostTokens},
                stop : {"EndOfGeneration", "Limit", "ContextFull", "Cancelled", "Failed"},
                prompt : {Len(Asked.messages)}, counted : 0 .. MostTokens + 1]
      /\ r.stop = "Limit" => r.counted >= Asked.max_tokens
  BY DEF Replies
<1>3. PICK n \in 0 .. MostTokens : r.tokens \in [1 .. n -> Texts]
  BY <1>2
<1>4. r.tokens \in Seq(Seq(Chars))
  <2>1. n \in Nat
    BY <1>1
  <2>2. r.tokens \in [1 .. n -> Seq(Chars)]
    BY <1>3, PageAssumption
  <2> QED
    BY <2>1, <2>2, SeqDef
<1>5. r.prompt \in Nat /\ r.counted \in Nat
  BY <1>1, <1>2, BodyAsks
<1>6. r = [tokens |-> r.tokens, stop |-> r.stop, prompt |-> r.prompt, counted |-> r.counted]
  BY <1>2
<1>7. r.stop \in Stops
  BY <1>2 DEF Stops
<1>8. r \in Reply
  BY <1>4, <1>5, <1>6, <1>7 DEF Reply
<1> QED
  BY <1>2, <1>8, BodyAsks

(***************************************************************************)
(* It holds at first, and every step keeps it.                             *)
(***************************************************************************)
LEMMA EmptyPrefix == ASSUME NEW t \in Seq(Chars) PROVE IsPrefix(<<>>, t)
<1>1. <<>> \in Seq(Chars) /\ <<>> \o t = t
  BY EmptySeq, ConcatEmptySeq
<1>2. IsPrefix(<<>>, <<>> \o t)
  BY <1>1, PrefixOfConcat
<1> QED
  BY <1>1, <1>2

LEMMA FrontOfAppend ==
    ASSUME NEW S, NEW s \in Seq(S), NEW e \in S, NEW i \in 1 .. Len(s) + 1
    PROVE  SubSeq(Append(s, e), 1, i - 1) = SubSeq(s, 1, i - 1)
<1>1. Len(s) \in Nat
  BY LenProperties
<1>2. CASE i = 1
  <2>1. i - 1 \in Int /\ i - 1 < 1
    BY <1>2
  <2> QED
    BY <2>1, SubSeqEmpty
<1>3. CASE i # 1
  <2>1. i - 1 \in 1 .. Len(s) /\ 1 \in 1 .. Len(s)
    BY <1>1, <1>3
  <2>2. << e >> \in Seq(S) /\ Append(s, e) = s \o << e >>
    BY SeqOfOne, AppendIsConcat
  <2>3. SubSeq(s \o << e >>, 1, i - 1) = SubSeq(s, 1, i - 1)
    BY <2>1, <2>2, SubSeqOfConcat1
  <2> QED
    BY <2>2, <2>3
<1> QED
  BY <1>2, <1>3

LEMMA NoReplyIs == Whole(NoReply) = <<>> /\ NoReply.stop = "None"
  BY FlattenEmpty DEF Whole, NoReply

LEMMA AtFirst == Init => PageInv
<1> SUFFICES ASSUME Init PROVE PageInv
  OBVIOUS
<1> USE DEF Init
<1>1. <<>> \in Seq(Chars) /\ <<>> \in Seq(Message)
  BY EmptySeq
<1>2. note.kind = "none"
  BY DEF NoNote
<1>3. Conversation
  BY <1>1, <1>2 DEF Conversation
<1>4. Requested /\ Fetching /\ Receiving
  BY DEF Requested, Fetching, Receiving
<1>5. ShownIsTheReply
  BY <1>1, <1>2, EmptyPrefix, NoReplyIs DEF ShownIsTheReply
<1>6. NoteIsTrue
  BY <1>2 DEF NoteIsTrue
<1>7. HistoryIsReplies
  BY DEF HistoryIsReplies
<1> QED
  BY <1>3, <1>4, <1>5, <1>6, <1>7 DEF PageInv

LEMMA SubmitKeeps ==
    ASSUME PageInv, NEW limit \in Limits, Submit(limit)
    PROVE  PageInv'
<1>1. /\ messages' = Append(messages, Says("user", <<"a">>))
      /\ request' = Body(messages', limit) /\ asking' = "fetching"
      /\ text' = <<>> /\ note' = NoNote /\ partial' = <<>> /\ buffer' = <<>>
      /\ reply' = NoReply /\ trouble' = FALSE /\ given' = given
  BY DEF Submit
<1>2. messages \in Seq(Message) /\ HistoryIsReplies
  BY DEF PageInv, Conversation
<1>3. <<>> \in Seq(Chars) /\ <<"a">> \in Seq(Chars)
  BY EmptySeq, SeqOfOne DEF Chars
<1>4. PICK said \in Message : said = Says("user", <<"a">>) /\ said.role = "user"
  <2>1. ASSUME NEW c \in Seq(Chars)
        PROVE  Says("user", c) \in Message /\ Says("user", c).role = "user"
    BY DEF Message, Says
  <2>2. Says("user", <<"a">>) \in Message /\ Says("user", <<"a">>).role = "user"
    BY <1>3, <2>1
  <2> QED
    BY <2>2
<1>5. /\ messages' \in Seq(Message) /\ Len(messages') = Len(messages) + 1
      /\ messages'[Len(messages) + 1] = said
  BY <1>1, <1>2, <1>4, AppendProperties
<1>6. \A i \in 1 .. Len(messages) : messages'[i] = messages[i]
  BY <1>1, <1>2, <1>4, AppendProperties
<1>7. NoNote.kind = "none"
  BY DEF NoNote
<1>8. Conversation'
  BY <1>1, <1>3, <1>5, <1>7 DEF Conversation
<1>9. Requested' /\ Fetching' /\ Receiving'
  BY <1>1 DEF Requested, Fetching, Receiving
<1>10. ShownIsTheReply'
  BY <1>1, <1>3, <1>7, EmptyPrefix, NoReplyIs DEF ShownIsTheReply
<1>11. NoteIsTrue'
  BY <1>1, <1>7 DEF NoteIsTrue
<1>12. HistoryIsReplies'
  <2> SUFFICES ASSUME NEW i \in DOMAIN messages', messages'[i].role = "assistant"
               PROVE  [to |-> SubSeq(messages', 1, i - 1), text |-> messages'[i].content] \in given'
    BY DEF HistoryIsReplies
  <2>1. Len(messages) \in Nat /\ i \in 1 .. Len(messages) + 1
    BY <1>2, <1>5, LenProperties
  <2>2. i # Len(messages) + 1
    BY <1>4, <1>5
  <2>3. i \in 1 .. Len(messages)
    BY <2>1, <2>2
  <2>4. messages'[i] = messages[i]
    BY <1>6, <2>3
  <2>5. SubSeq(messages', 1, i - 1) = SubSeq(messages, 1, i - 1)
    BY <1>1, <1>2, <1>4, <2>3, FrontOfAppend
  <2>6. i \in DOMAIN messages
    BY <1>2, <2>3, LenProperties
  <2> QED
    BY <1>1, <1>2, <2>4, <2>5, <2>6 DEF HistoryIsReplies
<1> QED
  BY <1>8, <1>9, <1>10, <1>11, <1>12 DEF PageInv

LEMMA RespondKeeps ==
    ASSUME PageInv, Respond
    PROVE  PageInv'
<1>1. /\ asking = "fetching" /\ asking' = "reading" /\ reply' \in Replies
      /\ wire' = Streamed(reply') /\ messages' = messages /\ request' = request
      /\ partial' = partial /\ buffer' = buffer /\ text' = text /\ note' = note
      /\ trouble' = trouble
      /\ given' = given \cup (IF reply'.stop = "Failed" THEN {}
                              ELSE {[to |-> Asked.messages, text |-> Whole(reply')]})
  BY DEF Respond
<1>2. /\ Conversation /\ HistoryIsReplies
      /\ note = NoNote /\ text = <<>> /\ partial = <<>> /\ buffer = <<>>
  BY <1>1 DEF PageInv, Fetching
<1>3. PICK limit \in Limits : request = Body(messages, limit)
  BY <1>1 DEF PageInv, Requested
<1>4. messages \in Seq(Message)
  BY <1>2 DEF Conversation
<1>5. Asked.messages = messages /\ request.max_tokens = {limit}
  BY <1>3, <1>4, BodyAsks
<1>6. PICK r \in Reply : r = reply' /\ (r.stop = "Limit" => r.counted >= limit)
  BY <1>1, <1>3, <1>4, ReplyTypes
<1>7. Answered'
  BY <1>1, <1>5, <1>6 DEF Answered
<1>8. Whole(r) \in Seq(Chars) /\ Len(r.tokens) \in Nat
  BY WholeTypes
<1>9. 0 \in 0 .. Final(r)
  BY <1>8 DEF Final
<1>10. /\ Streamed(r) \in Seq(Units) /\ Paired(Streamed(r))
       /\ Characters(Streamed(r)) = Left(r, 0)
  BY StreamedFrames, PairsStreamed, LeftAll DEF Pairs
<1>11. <<>> \o Streamed(r) = Streamed(r)
  BY <1>10, ConcatEmptySeq
<1>12. <<>> \o Left(r, 0) = Left(r, 0)
  BY <1>9, LeftTypes, ConcatEmptySeq
<1>13. Shown(r, 0) = <<>>
  <2>1. SubSeq(r.tokens, 1, 0 - 1) = <<>>
    BY SubSeqEmpty
  <2>2. 0 <= Len(r.tokens)
    BY <1>8
  <2>3. Shown(r, 0) = FlattenSeq(SubSeq(r.tokens, 1, 0 - 1))
    BY <2>2 DEF Shown
  <2> QED
    BY <2>1, <2>3, FlattenEmpty
<1>14. Noted(r, 0) = NoNote /\ 0 < Len(r.tokens) + 2
  BY <1>8 DEF Noted
<1>15. Taken(0)'
  BY <1>1, <1>2, <1>6, <1>10, <1>11, <1>12, <1>13, <1>14 DEF Taken
<1>16. <<>> \in Seq(Units)
  BY EmptySeq
<1>17. Receiving'
  BY <1>1, <1>2, <1>6, <1>7, <1>9, <1>10, <1>11, <1>15, <1>16 DEF Receiving
<1>18. Conversation'
  BY <1>1, <1>2 DEF Conversation
<1>19. Requested' /\ Fetching'
  BY <1>1, <1>3 DEF Requested, Fetching
<1>20. NoNote.kind = "none"
  BY DEF NoNote
<1>21. ShownIsTheReply'
  BY <1>1, <1>2, <1>6, <1>8, <1>20, EmptyPrefix DEF ShownIsTheReply
<1>22. NoteIsTrue'
  BY <1>1, <1>2, <1>20 DEF NoteIsTrue
<1>23. HistoryIsReplies'
  BY <1>1, <1>2 DEF HistoryIsReplies
<1> QED
  BY <1>17, <1>18, <1>19, <1>21, <1>22, <1>23 DEF PageInv

\* A question that is given up leaves what is shown, and says why.
LEMMA CaughtKeeps ==
    ASSUME PageInv, NEW why \in {"failed", "cancelled"}, Caught(why), trouble' \in BOOLEAN,
           trouble => trouble', why = "failed" => trouble' \/ reply.stop = "Failed"
    PROVE  PageInv'
<1>1. /\ asking' = "no" /\ note' = [kind |-> why] /\ messages' = messages
      /\ request' = request /\ partial' = partial /\ text' = text
      /\ reply' = reply /\ given' = given
  BY DEF Caught
<1>2. Conversation /\ ShownIsTheReply /\ HistoryIsReplies
  BY DEF PageInv
<1>3. note'.kind = why
  BY <1>1
<1>4. Conversation'
  BY <1>1, <1>2, <1>3 DEF Conversation
<1>5. Requested' /\ Fetching' /\ Receiving'
  BY <1>1 DEF Requested, Fetching, Receiving
<1>6. ShownIsTheReply'
  BY <1>1, <1>2, <1>3 DEF ShownIsTheReply
<1>7. NoteIsTrue'
  BY <1>1, <1>3 DEF NoteIsTrue
<1>8. HistoryIsReplies'
  BY <1>1, <1>2 DEF HistoryIsReplies
<1> QED
  BY <1>4, <1>5, <1>6, <1>7, <1>8 DEF PageInv

LEMMA GivenUpKeeps ==
    ASSUME PageInv, Broken \/ Stop
    PROVE  PageInv'
<1>1. trouble \in BOOLEAN
  BY DEF PageInv, Conversation
<1>2. CASE Broken
  BY <1>1, <1>2, CaughtKeeps DEF Broken
<1>3. CASE Stop
  BY <1>1, <1>3, CaughtKeeps DEF Stop
<1> QED
  BY <1>2, <1>3

LEMMA PartialTypes ==
    ASSUME partial \in {<<>>, << Unit("hi") >>}
    PROVE  partial \in Seq(Units)
<1>1. <<>> \in Seq(Units)
  BY EmptySeq
<1>2. << Unit("hi") >> \in Seq(Units)
  BY UnitTypes, SeqOfOne
<1> QED
  BY <1>1, <1>2

LEMMA ReadStep ==
    ASSUME PageInv, NEW n \in 1 .. Len(wire), Read(n)
    PROVE  PageInv'
<1> DEFINE bytes == partial \o SubSeq(wire, 1, n)
<1>1. /\ asking = "reading" /\ asking' = asking /\ messages' = messages /\ request' = request
      /\ text' = text /\ note' = note /\ reply' = reply /\ trouble' = trouble /\ given' = given
      /\ partial' = Held(bytes) /\ buffer' = buffer \o Decoded(bytes, Held(bytes))
      /\ wire' = SubSeq(wire, n + 1, Len(wire))
  BY DEF Read
<1>2. /\ Conversation /\ Requested /\ ShownIsTheReply /\ NoteIsTrue /\ HistoryIsReplies
      /\ Answered /\ wire \in Seq(Units) /\ buffer \in Seq(Units) /\ Paired(partial \o wire)
  BY <1>1 DEF PageInv, Receiving
<1>3. PICK k \in 0 .. Final(reply) : Taken(k)
  BY <1>1 DEF PageInv, Receiving
<1>4. partial \in Seq(Units)
  BY <1>2, PartialTypes DEF Conversation
<1>5. /\ bytes \in Seq(Units) /\ wire' \in Seq(Units) /\ Paired(Held(bytes) \o wire')
      /\ buffer \o Decoded(bytes, Held(bytes)) \in Seq(Units)
      /\ (buffer \o Decoded(bytes, Held(bytes))) \o Characters(Held(bytes) \o wire')
           = buffer \o Characters(partial \o wire)
  <2>1. wire \in Seq(Units) /\ partial \in Seq(Units) /\ buffer \in Seq(Units)
        /\ Paired(partial \o wire)
    BY <1>2, <1>4
  <2>2. PICK w \in Seq(Units), part \in Seq(Units), buf \in Seq(Units) :
          w = wire /\ part = partial /\ buf = buffer
    BY <2>1
  <2>3. PICK rest : rest = SubSeq(w, n + 1, Len(w))
    OBVIOUS
  <2>4. PICK read : read = part \o SubSeq(w, 1, n)
    OBVIOUS
  <2>5. Paired(part \o w) /\ n \in 1 .. Len(w)
    BY <2>1, <2>2
  <2>6. Reads(buf, part \o w, read, rest)
    BY <2>3, <2>4, <2>5, ReadKeeps
  <2>7. wire' = rest /\ bytes = read
    BY <1>1, <2>2, <2>3, <2>4
  <2> QED
    BY <2>2, <2>6, <2>7 DEF Reads
<1>6. Held(bytes) \in {<<>>, << Unit("hi") >>}
  BY <1>5, HeldTypes
<1> HIDE DEF bytes
<1>7. Taken(k)'
  BY <1>1, <1>3, <1>5 DEF Taken
<1>8. Answered'
  BY <1>1, <1>2 DEF Answered
<1>9. Receiving'
  BY <1>1, <1>3, <1>5, <1>7, <1>8 DEF Receiving
<1>10. Conversation'
  BY <1>1, <1>2, <1>6 DEF Conversation
<1>11. Requested' /\ Fetching'
  BY <1>1, <1>2 DEF Requested, Fetching
<1>12. ShownIsTheReply' /\ NoteIsTrue' /\ HistoryIsReplies'
  BY <1>1, <1>2 DEF ShownIsTheReply, NoteIsTrue, HistoryIsReplies
<1> QED
  BY <1>9, <1>10, <1>11, <1>12 DEF PageInv

\* What k frames say is true of the reply.
LEMMA TakenSays ==
    ASSUME NEW r \in Reply, NEW k \in 0 .. Final(r), r.stop = "Failed" => k < Len(r.tokens) + 2,
           NEW limits, r.stop = "Limit" => \A limit \in limits : r.counted >= limit
    PROVE  /\ Shown(r, k) \in Seq(Chars) /\ IsPrefix(Shown(r, k), Whole(r))
           /\ Noted(r, k).kind \in {"none", "finished"}
           /\ Noted(r, k).kind = "finished" =>
                [content |-> Shown(r, k), finish |-> Noted(r, k).why, usage |-> Noted(r, k).used]
                  = Completion(Whole(r), r.stop, NewUsage(r.prompt, r.counted))
           /\ Noted(r, k).kind = "finished" /\ Noted(r, k).why = "length" =>
                r.stop = "ContextFull"
                \/ \A limit \in limits : Noted(r, k).used.completion >= limit
<1>1. Len(r.tokens) \in Nat
  BY WholeTypes
<1>2. Shown(r, k) \in Seq(Chars) /\ IsPrefix(Shown(r, k), Whole(r))
  BY ShownTypes
<1>3. CASE k < Len(r.tokens) + 2
  <2>1. Noted(r, k).kind = "none"
    BY <1>3 DEF Noted, NoNote
  <2> QED
    BY <1>2, <2>1
<1>4. CASE ~(k < Len(r.tokens) + 2)
  <2>1. Noted(r, k) = [kind |-> "finished", why |-> FinishReason(r.stop), used |-> Used(r)]
    BY <1>4 DEF Noted
  <2>2. /\ Noted(r, k).kind = "finished" /\ Noted(r, k).why = FinishReason(r.stop)
        /\ Noted(r, k).used = Used(r)
    BY <2>1
  <2>3. Shown(r, k) = Whole(r)
    <3>1. ~(k <= Len(r.tokens))
      BY <1>1, <1>4
    <3> QED
      BY <3>1 DEF Shown
  <2>4. [content |-> Shown(r, k), finish |-> Noted(r, k).why, usage |-> Noted(r, k).used]
          = Completion(Whole(r), r.stop, NewUsage(r.prompt, r.counted))
    BY <2>2, <2>3 DEF Completion, Used
  <2>5. ASSUME Noted(r, k).why = "length"
        PROVE  r.stop = "ContextFull" \/ \A limit \in limits : Noted(r, k).used.completion >= limit
    <3>1. r.stop \in {"Limit", "ContextFull"}
      BY <2>2, <2>5 DEF FinishReason
    <3>2. Noted(r, k).used.completion = r.counted
      BY <2>2 DEF Used, NewUsage
    <3> QED
      BY <3>1, <3>2
  <2> QED
    BY <1>2, <2>2, <2>4, <2>5
<1> QED
  BY <1>3, <1>4

\* The first frame in the buffer is the next of the reply.
LEMMA NextFrame ==
    ASSUME NEW r \in Reply, NEW k \in 0 .. Final(r), buffer \in Seq(Units),
           NEW more \in Seq(Units), buffer \o more = Left(r, k), Cuts # {}
    PROVE  /\ k + 1 \in 1 .. Final(r) /\ SubSeq(buffer, 1, Cut - 1) = LineAt(r, k + 1)
           /\ AfterCut(buffer, Cut) \in Seq(Units)
           /\ AfterCut(buffer, Cut) \o more = Left(r, k + 1)
<1>1. Cuts = Feeds(buffer)
  BY DEF Cuts, Feeds
<1>2. Len(buffer) \in Nat /\ Len(more) \in Nat /\ Final(r) \in Nat
  BY LenProperties, WholeTypes DEF Final
<1>3. k # Final(r)
  <2> SUFFICES ASSUME k = Final(r) PROVE FALSE
    OBVIOUS
  <2>1. buffer \o more = <<>>
    BY LeftNone
  <2>2. Len(buffer \o more) = Len(buffer) + Len(more)
    BY ConcatProperties
  <2>3. Len(<<>>) = 0
    OBVIOUS
  <2>4. Len(buffer) = 0
    BY <1>2, <2>1, <2>2, <2>3
  <2>5. 1 .. Len(buffer) - 1 = {}
    BY <2>4
  <2> QED
    BY <2>5 DEF Cuts
<1>4. k \in 0 .. Final(r) - 1 /\ k + 1 \in 1 .. Final(r) /\ k + 1 \in 0 .. Final(r)
  BY <1>2, <1>3
<1>5. PICK line \in Seq(Inline) : line = LineAt(r, k + 1)
  BY <1>4, LineAtTypes
<1>6. PICK rest \in Seq(Units) : rest = Left(r, k + 1)
  <2>1. Left(r, k + 1) \in Seq(Undivided)
    BY <1>4, LeftTypes
  <2> QED
    BY <2>1, UndividedUnits, SeqMonotonic
<1>7. buffer \o more = (line \o Blank) \o rest
  BY <1>4, <1>5, <1>6, LeftNext
<1>8. /\ Len(line) + 1 \in Feeds(buffer) /\ \A j \in Feeds(buffer) : Len(line) + 1 <= j
      /\ SubSeq(buffer, 1, Len(line)) = line
      /\ SubSeq(buffer, Len(line) + 3, Len(buffer)) \in Seq(Units)
      /\ SubSeq(buffer, Len(line) + 3, Len(buffer)) \o more = rest
  <2>1. PICK buf \in Seq(Units) : buf = buffer
    OBVIOUS
  <2>2. buf \o more = (line \o Blank) \o rest /\ Feeds(buf) # {}
    BY <1>1, <1>7, <2>1
  <2>3. Takes(line, rest, buf, more)
    BY <2>2, TakeOne
  <2> QED
    BY <2>1, <2>3 DEF Takes
<1>9. Len(line) \in Nat
  BY LenProperties
<1>10. Cut = Len(line) + 1
  <2>1. Cut \in Cuts /\ \A j \in Cuts : Cut <= j
    BY <1>1, <1>8 DEF Cut
  <2>2. Cut <= Len(line) + 1 /\ Len(line) + 1 <= Cut
    BY <1>1, <1>8, <2>1
  <2>3. Cut \in Nat
    BY <2>1 DEF Cuts
  <2> QED
    BY <1>9, <2>2, <2>3
<1>11. Cut - 1 = Len(line) /\ Cut + 2 = Len(line) + 3
  BY <1>9, <1>10
<1> QED
  BY <1>4, <1>5, <1>6, <1>8, <1>11 DEF AfterCut

LEMMA TakeFrameStep ==
    ASSUME PageInv, TakeFrame
    PROVE  PageInv'
<1>1. /\ asking = "reading" /\ Cuts # {} /\ buffer' = AfterCut(buffer, Cut)
      /\ trouble' = trouble
  BY DEF TakeFrame
<1>2. /\ Conversation /\ Requested /\ ShownIsTheReply /\ NoteIsTrue /\ HistoryIsReplies
      /\ Answered /\ wire \in Seq(Units) /\ buffer \in Seq(Units) /\ Paired(partial \o wire)
  BY <1>1 DEF PageInv, Receiving
<1>3. PICK k \in 0 .. Final(reply) : Taken(k)
  BY <1>1 DEF PageInv, Receiving
<1>4. PICK r \in Reply : r = reply
  BY <1>2 DEF Answered
<1>5. PICK more \in Seq(Units) : more = Characters(partial \o wire)
  <2>1. partial \in Seq(Units)
    BY <1>2, PartialTypes DEF Conversation
  <2>2. partial \o wire \in Seq(Units)
    BY <1>2, <2>1, ConcatProperties
  <2> QED
    BY <2>2, CharactersTypes
<1>6. /\ k + 1 \in 1 .. Final(r) /\ SubSeq(buffer, 1, Cut - 1) = LineAt(r, k + 1)
      /\ buffer' \in Seq(Units) /\ buffer' \o more = Left(r, k + 1)
  <2>1. buffer \o more = Left(r, k)
    BY <1>3, <1>4, <1>5 DEF Taken
  <2> QED
    BY <1>1, <1>2, <1>3, <1>4, <2>1, NextFrame
<1>7. Len(r.tokens) \in Nat /\ Final(r) = Len(r.tokens) + 3 /\ k \in 0 .. Final(r) - 1
  <2>1. Len(r.tokens) \in Nat /\ Final(r) = Len(r.tokens) + 3
    BY WholeTypes DEF Final
  <2> QED
    BY <1>3, <1>4, <1>6, <2>1
<1>8. PICK l : l = LineAt(r, k + 1)
  OBVIOUS
<1>9. PICK fields : fields = FieldsAt(r, k + 1)
  OBVIOUS
<1>10. /\ Carries(l) <=> k + 1 # Final(r)
       /\ k + 1 # Final(r) => /\ Parses(Tail(l)) /\ Tail(l)[1].fields = fields
                              /\ Content(Tail(l)) = TextAt(r, k + 1)
  BY <1>6, <1>8, <1>9, FrameCarries
<1>11. /\ Shown(r, k + 1) = Shown(r, k) \o TextAt(r, k + 1)
       /\ fields.error <=> (k + 1 = Len(r.tokens) + 2 /\ r.stop = "Failed")
       /\ ~fields.error =>
            Noted(r, k + 1) = IF fields.finish = {} THEN Noted(r, k)
                              ELSE [kind |-> "finished", why |-> UnwrapOr(fields.finish, ""),
                                    used |-> UnwrapOr(fields.usage, NewUsage(0, 0))]
  BY <1>7, <1>9, ShownNext, NotedNext
<1>12. text = Shown(r, k) /\ note = Noted(r, k) /\ (r.stop = "Failed" => k < Len(r.tokens) + 2)
  BY <1>3, <1>4 DEF Taken
<1>13. ASSUME asking' = asking, messages' = messages, request' = request, wire' = wire,
              partial' = partial, reply' = reply, given' = given,
              text' = Shown(r, k + 1), note' = Noted(r, k + 1),
              r.stop = "Failed" => k + 1 < Len(r.tokens) + 2
       PROVE  PageInv'
  <2>3. Answered'
    BY <1>2, <1>13 DEF Answered
  <2>4. k + 1 \in 0 .. Final(r)
    BY <1>6, <1>7
  <2>5. /\ ShownIsTheReply' /\ NoteIsTrue'
        /\ text' \in Seq(Chars) /\ note'.kind \in {"none", "finished"}
    <3>1. r.stop = "Limit" => \A limit \in request.max_tokens : r.counted >= limit
      BY <1>2, <1>4 DEF Answered
    <3>2. PICK j \in 0 .. Final(r) : j = k + 1
      BY <2>4
    <3>3. PICK limits : limits = request.max_tokens
      OBVIOUS
    <3>4. /\ Shown(r, j) \in Seq(Chars) /\ IsPrefix(Shown(r, j), Whole(r))
          /\ Noted(r, j).kind \in {"none", "finished"}
          /\ Noted(r, j).kind = "finished" =>
               [content |-> Shown(r, j), finish |-> Noted(r, j).why, usage |-> Noted(r, j).used]
                 = Completion(Whole(r), r.stop, NewUsage(r.prompt, r.counted))
          /\ Noted(r, j).kind = "finished" /\ Noted(r, j).why = "length" =>
               r.stop = "ContextFull"
               \/ \A limit \in limits : Noted(r, j).used.completion >= limit
      BY <1>13, <3>1, <3>2, <3>3, TakenSays
    <3>5. /\ text' = Shown(r, j) /\ note' = Noted(r, j) /\ reply' = r
          /\ request'.max_tokens = limits
      BY <1>4, <1>13, <3>2, <3>3
    <3> QED
      BY <3>4, <3>5 DEF ShownIsTheReply, NoteIsTrue
  <2>6. Taken(k + 1)'
    BY <1>4, <1>5, <1>6, <1>13 DEF Taken
  <2>7. Receiving'
    BY <1>2, <1>4, <1>6, <1>13, <2>3, <2>4, <2>6 DEF Receiving
  <2>8. Conversation'
    BY <1>1, <1>2, <1>13, <2>5 DEF Conversation
  <2>9. Requested' /\ Fetching'
    BY <1>1, <1>2, <1>13 DEF Requested, Fetching
  <2>10. HistoryIsReplies'
    BY <1>2, <1>13 DEF HistoryIsReplies
  <2> QED
    BY <2>5, <2>7, <2>8, <2>9, <2>10 DEF PageInv
<1>14. \/ /\ ~Carries(l)
          /\ UNCHANGED <<messages, asking, request, text, note, wire, partial, reply, given>>
       \/ Carries(l) /\ Parses(Tail(l)) /\ ~Tail(l)[1].fields.error /\ Show(Tail(l))
       \/ Carries(l) /\ (Parses(Tail(l)) => Tail(l)[1].fields.error) /\ Caught("failed")
  BY <1>6, <1>8 DEF TakeFrame, Carries
<1>15. CASE /\ ~Carries(l)
            /\ UNCHANGED <<messages, asking, request, text, note, wire, partial, reply, given>>
  <2>1. k + 1 = Final(r) /\ TextAt(r, k + 1) = <<>>
    BY <1>6, <1>10, <1>15, LineOf
  <2>2. k \in 0 .. Final(r)
    BY <1>3, <1>4
  <2>3. Shown(r, k + 1) = Shown(r, k)
    BY <1>11, <2>1, <2>2, ShownTypes, ConcatEmptySeq
  <2>4. ~(k < Len(r.tokens) + 2) /\ ~(k + 1 < Len(r.tokens) + 2)
    BY <1>7, <2>1
  <2>5. Noted(r, k + 1) = Noted(r, k)
    BY <2>4 DEF Noted
  <2> QED
    BY <1>12, <1>13, <1>15, <2>3, <2>4, <2>5
<1>16. CASE Carries(l) /\ Parses(Tail(l)) /\ ~Tail(l)[1].fields.error /\ Show(Tail(l))
  <2>1. k + 1 # Final(r) /\ Tail(l)[1].fields = fields /\ ~fields.error
    BY <1>10, <1>16
  <2>2. /\ text' = text \o Content(Tail(l))
        /\ note' = IF fields.finish = {} THEN note
                   ELSE [kind |-> "finished", why |-> UnwrapOr(fields.finish, ""),
                         used |-> UnwrapOr(fields.usage, NewUsage(0, 0))]
        /\ messages' = messages /\ asking' = asking /\ request' = request /\ wire' = wire
        /\ partial' = partial /\ reply' = reply /\ given' = given
    BY <1>16, <2>1 DEF Show
  <2>3. text' = Shown(r, k + 1) /\ note' = Noted(r, k + 1)
    BY <1>10, <1>11, <1>12, <2>1, <2>2
  <2>4. r.stop = "Failed" => k + 1 < Len(r.tokens) + 2
    <3>1. ASSUME r.stop = "Failed" PROVE k + 1 < Len(r.tokens) + 2
      <4>1. k + 1 # Len(r.tokens) + 2 /\ k < Len(r.tokens) + 2
        BY <1>11, <1>12, <2>1, <3>1
      <4> QED
        BY <1>7, <4>1
    <3> QED
      BY <3>1
  <2> QED
    BY <1>13, <2>2, <2>3, <2>4
<1>17. CASE Carries(l) /\ (Parses(Tail(l)) => Tail(l)[1].fields.error) /\ Caught("failed")
  <2>1. r.stop = "Failed"
    BY <1>10, <1>11, <1>17
  <2>2. trouble \in BOOLEAN
    BY <1>2 DEF Conversation
  <2> QED
    BY <1>1, <1>4, <1>17, <2>1, <2>2, CaughtKeeps
<1> QED
  BY <1>14, <1>15, <1>16, <1>17

\* A response read to its end has been taken whole, and was no failure.
LEMMA ReadToTheEnd ==
    ASSUME PageInv, asking = "reading", Cuts = {}, wire = <<>>
    PROVE  [to |-> messages, text |-> text] \in given
<1>1. asking = "reading" /\ Cuts = {} /\ wire = <<>>
  OBVIOUS
<1>2. /\ Conversation /\ ShownIsTheReply /\ NoteIsTrue /\ HistoryIsReplies
      /\ Answered /\ buffer \in Seq(Units) /\ Paired(partial \o wire)
  BY <1>1 DEF PageInv, Receiving
<1>3. PICK k \in 0 .. Final(reply) : Taken(k)
  BY <1>1 DEF PageInv, Receiving
<1>4. PICK r \in Reply : r = reply
  BY <1>2 DEF Answered
<1>5. partial = <<>>
  <2> SUFFICES ASSUME partial = << Unit("hi") >> PROVE FALSE
    BY <1>2 DEF Conversation
  <2>1. partial \o wire = << Unit("hi") >>
    BY <1>1, <1>2, PartialTypes, ConcatEmptySeq DEF Conversation
  <2>2. ASSUME NEW u PROVE Len(<< u >>) = 1 /\ << u >>[1] = u
    OBVIOUS
  <2>3. Unit("hi").is = "hi"
    BY DEF Unit
  <2>4. 1 \in 1 .. Len(partial \o wire) /\ (partial \o wire)[1].is = "hi"
    BY <2>1, <2>2, <2>3
  <2>5. 1 + 1 \in 1 .. Len(partial \o wire)
    BY <1>2, <2>4 DEF Paired
  <2> QED
    BY <2>1, <2>2, <2>5
<1>6. buffer = Left(r, k)
  <2>1. partial \o wire = <<>>
    BY <1>1, <1>5, EmptySeq, ConcatEmptySeq
  <2>2. buffer \o <<>> = buffer
    BY <1>2, ConcatEmptySeq
  <2>3. buffer \o Characters(partial \o wire) = Left(r, k)
    BY <1>3, <1>4 DEF Taken
  <2> QED
    BY <2>1, <2>2, <2>3, NothingHeld
<1>7. Len(r.tokens) \in Nat /\ Final(r) = Len(r.tokens) + 3
  BY WholeTypes DEF Final
<1>8. k = Final(r)
  <2> SUFFICES ASSUME k # Final(r) PROVE FALSE
    OBVIOUS
  <2>1. k \in 0 .. Final(r) - 1 /\ k + 1 \in 1 .. Final(r) /\ k + 1 \in 0 .. Final(r)
    BY <1>3, <1>4, <1>7
  <2>2. PICK line \in Seq(Inline) : line = LineAt(r, k + 1)
    BY <2>1, LineAtTypes
  <2>3. PICK rest \in Seq(Units) : rest = Left(r, k + 1)
    <3>1. Left(r, k + 1) \in Seq(Undivided)
      BY <2>1, LeftTypes
    <3> QED
      BY <3>1, UndividedUnits, SeqMonotonic
  <2>4. buffer = (line \o Blank) \o rest
    BY <1>6, <2>1, <2>2, <2>3, LeftNext
  <2>5. Feeds(buffer) # {}
    BY <1>2, <2>4, FeedsThere
  <2> QED
    BY <1>1, <2>5 DEF Cuts, Feeds
<1>9. text = Whole(r) /\ r.stop # "Failed"
  <2>1. ~(k <= Len(r.tokens)) /\ ~(k < Len(r.tokens) + 2)
    BY <1>7, <1>8
  <2> QED
    BY <1>3, <1>4, <2>1 DEF Taken, Shown
<1> QED
  BY <1>2, <1>4, <1>9 DEF Answered

\* The response ends: whole, or, as far as the page can tell, whole.
LEMMA ReadDoneStep ==
    ASSUME PageInv, ReadDone
    PROVE  PageInv'
<1>1. /\ asking = "reading" /\ Cuts = {} /\ asking' = "no"
      /\ messages' = (IF text = <<>> THEN messages ELSE Append(messages, Says("assistant", text)))
      /\ request' = request /\ partial' = partial /\ text' = text /\ note' = note
      /\ reply' = reply /\ trouble' = trouble
      /\ given' = IF wire = <<>> THEN given ELSE given \cup {[to |-> messages, text |-> text]}
  BY DEF ReadDone, Awaiting
<1>2. Conversation /\ ShownIsTheReply /\ NoteIsTrue /\ HistoryIsReplies
  BY DEF PageInv
<1>3. given \subseteq given'
  BY <1>1
<1>4. [to |-> messages, text |-> text] \in given'
  <2>1. CASE wire = <<>>
    BY <1>1, <1>3, <2>1, ReadToTheEnd
  <2>2. CASE wire # <<>>
    BY <1>1, <2>2
  <2> QED
    BY <2>1, <2>2
<1>5. messages \in Seq(Message) /\ text \in Seq(Chars)
  BY <1>2 DEF Conversation
<1>6. PICK said \in Message : said = Says("assistant", text) /\ said.content = text
  <2>1. Says("assistant", text) \in Message /\ Says("assistant", text).content = text
    BY <1>5 DEF Message, Says
  <2> QED
    BY <2>1
<1>7. messages' \in Seq(Message)
  BY <1>1, <1>5, <1>6, AppendProperties
<1>8. Conversation'
  BY <1>1, <1>2, <1>7 DEF Conversation
<1>9. Requested' /\ Fetching' /\ Receiving'
  BY <1>1 DEF Requested, Fetching, Receiving
<1>10. ShownIsTheReply' /\ NoteIsTrue'
  BY <1>1, <1>2 DEF ShownIsTheReply, NoteIsTrue
<1>11. HistoryIsReplies'
  <2>1. CASE text = <<>>
    BY <1>1, <1>2, <1>3, <2>1 DEF HistoryIsReplies
  <2>2. CASE text # <<>>
    <3>1. messages' = Append(messages, said)
      BY <1>1, <1>6, <2>2
    <3>2. /\ Len(messages') = Len(messages) + 1 /\ messages'[Len(messages) + 1] = said
          /\ Len(messages) \in Nat
      BY <1>5, <3>1, AppendProperties, LenProperties
    <3>3. \A i \in 1 .. Len(messages) : messages'[i] = messages[i]
      BY <1>5, <3>1, AppendProperties
    <3> SUFFICES ASSUME NEW i \in DOMAIN messages', messages'[i].role = "assistant"
                 PROVE  [to |-> SubSeq(messages', 1, i - 1), text |-> messages'[i].content]
                          \in given'
      BY DEF HistoryIsReplies
    <3>4. i \in 1 .. Len(messages) + 1
      BY <1>7, <3>2, LenProperties
    <3>5. SubSeq(messages', 1, i - 1) = SubSeq(messages, 1, i - 1)
      BY <1>5, <3>1, <3>4, FrontOfAppend
    <3>6. CASE i = Len(messages) + 1
      <4>1. i - 1 = Len(messages)
        BY <3>2, <3>6
      <4>2. SubSeq(messages, 1, i - 1) = messages
        BY <1>5, <4>1, SubSeqFull
      <4> QED
        BY <1>1, <1>4, <1>6, <3>2, <3>5, <3>6, <4>2
    <3>7. CASE i # Len(messages) + 1
      <4>1. i \in 1 .. Len(messages) /\ i \in DOMAIN messages
        BY <1>5, <3>2, <3>4, <3>7, LenProperties
      <4>2. messages'[i] = messages[i]
        BY <3>3, <4>1
      <4> QED
        BY <1>2, <1>3, <3>5, <4>1, <4>2 DEF HistoryIsReplies
    <3> QED
      BY <3>6, <3>7
  <2> QED
    BY <2>1, <2>2
<1> QED
  BY <1>8, <1>9, <1>10, <1>11 DEF PageInv

LEMMA StutterKeeps == ASSUME PageInv, UNCHANGED vars PROVE PageInv'
  BY DEF PageInv, Conversation, Requested, Fetching, Receiving, Answered, Taken, vars, pageVars,
         ShownIsTheReply, NoteIsTrue, HistoryIsReplies

\* However the response is cut into reads, index.html's `ask` has taken the
\* first k frames of the reply, shows what those say, and will read the others.
THEOREM PageInvariant == Spec => []PageInv
<1>1. Init => PageInv
  BY AtFirst
<1>2. PageInv /\ [Next]_vars => PageInv'
  <2> SUFFICES ASSUME PageInv, [Next]_vars PROVE PageInv'
    OBVIOUS
  <2>1. CASE \E limit \in Limits : Submit(limit)
    BY <2>1, SubmitKeeps
  <2>2. CASE Respond
    BY <2>2, RespondKeeps
  <2>3. CASE Broken \/ Stop
    BY <2>3, GivenUpKeeps
  <2>4. CASE TakeFrame
    BY <2>4, TakeFrameStep
  <2>5. CASE ReadDone
    BY <2>5, ReadDoneStep
  <2>6. CASE \E n \in 1 .. Len(wire) : Read(n)
    BY <2>6, ReadStep
  <2>7. CASE UNCHANGED vars
    BY <2>7, StutterKeeps
  <2> QED
    BY <2>1, <2>2, <2>3, <2>4, <2>5, <2>6, <2>7 DEF Next, Reading
<1> QED
  BY <1>1, <1>2, PTL DEF Spec

\* Every variable has its type; no character is replaced on the way.
THEOREM PageTypes == Spec => []TypeOK
<1>1. PageInv => TypeOK
  <2> SUFFICES ASSUME PageInv PROVE TypeOK
    OBVIOUS
  <2>1. Conversation
    BY DEF PageInv
  <2>2. ASSUME NEW i \in DOMAIN messages PROVE messages[i].role \in {"user", "assistant"}
    <3>1. messages[i] \in Message
      BY <2>1, LenProperties, ElementOfSeq DEF Conversation
    <3> QED
      BY <3>1 DEF Message
  <2>3. Len(partial) <= 1
    <3>1. Len(<<>>) <= 1
      OBVIOUS
    <3>2. ASSUME NEW u PROVE Len(<< u >>) <= 1
      OBVIOUS
    <3> QED
      BY <2>1, <3>1, <3>2, Zenon DEF Conversation
  <2>4. ASSUME NEW i \in DOMAIN text PROVE text[i] \in Chars
    BY <2>1, LenProperties, ElementOfSeq DEF Conversation
  <2> QED
    BY <2>1, <2>2, <2>3, <2>4 DEF TypeOK, Conversation
<1> QED
  BY <1>1, PageInvariant, PTL

\* However the response is cut into reads, what is shown is a beginning of the
\* reply, and what is noted as finished is the whole of it, with its reason and
\* its usage.
THEOREM ShownIsAlwaysTheReply == Spec => []ShownIsTheReply
<1>1. PageInv => ShownIsTheReply
  BY DEF PageInv
<1> QED
  BY <1>1, PageInvariant, PTL

\* What the page says of an answer is what happened to it.
THEOREM NoteIsAlwaysTrue == Spec => []NoteIsTrue
<1>1. PageInv => NoteIsTrue
  BY DEF PageInv
<1> QED
  BY <1>1, PageInvariant, PTL

\* What the page sends back as the assistant's words is a whole reply, to the
\* messages before it, or all of one whose response ended early without an error.
THEOREM HistoryIsAlwaysReplies == Spec => []HistoryIsReplies
<1>1. PageInv => HistoryIsReplies
  BY DEF PageInv
<1> QED
  BY <1>1, PageInvariant, PTL
=============================================================================
