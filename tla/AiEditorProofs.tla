--------------------------- MODULE AiEditorProofs ---------------------------
(***************************************************************************)
(* Proofs about AiEditor, for every set of calls and clicks, every         *)
(* document and answer and every value of the bounds, and about the        *)
(* algorithms of PlainText, for every text.  Both rest on what FlattenSeq  *)
(* joins and on induction over a set of numbers; what is about texts comes *)
(* behind the panel's theorems.                                            *)
(***************************************************************************)
EXTENDS AiEditor, PlainText, WellFoundedInduction, TLAPS

-----------------------------------------------------------------------------
(* Induction over a set of numbers or of sequences, and what FlattenSeq    *)
(* joins.                                                                  *)

\* A set of numbers with 0 and every successor holds all numbers.
LEMMA SetInduction ==
  ASSUME NEW P, 0 \in P, \A n \in Nat : n \in P => n + 1 \in P
  PROVE  Nat \subseteq P
<1>. SUFFICES ASSUME Nat \ P # {} PROVE FALSE
  OBVIOUS
<1>1. PICK m \in Nat \ P : \A n \in Nat \ P : ~ (<<n, m>> \in OpToRel(<, Nat))
  BY NatLessThanWellFounded, WFMin, Zenon
<1>2. \A n \in Nat \ P : ~(n < m)
  BY <1>1, Zenon DEF OpToRel
<1>3. m # 0 /\ m - 1 \in Nat
  OBVIOUS
<1>4. m - 1 \in P
  BY <1>2, <1>3
<1>5. (m - 1) + 1 \in P
  BY <1>3, <1>4
<1>. QED  BY <1>5

\* f holds the concatenations of the first sequences of s, up to n.
Loop(s, n, f) ==
  /\ f[0] = <<>>
  /\ \A i \in 1 .. n : f[i] = f[i - 1] \o s[i]

\* Every list of sequences has its running concatenations.
LEMMA PrefixesExist ==
  ASSUME NEW S, NEW n \in Nat, NEW s \in [1 .. n -> Seq(S)]
  PROVE  \E f \in [0 .. n -> Seq(S)] : Loop(s, n, f)
<1>. DEFINE P == {k \in Nat : k <= n => \E f \in [0 .. k -> Seq(S)] : Loop(s, k, f)}
<1>1. 0 \in P
  <2>. DEFINE f == [i \in 0 .. 0 |-> <<>>]
  <2>1. f \in [0 .. 0 -> Seq(S)] /\ Loop(s, 0, f)
    BY DEF Loop
  <2>. QED  BY <2>1
<1>2. ASSUME NEW k \in Nat, k \in P PROVE k + 1 \in P
  <2>. SUFFICES ASSUME k + 1 <= n
                PROVE  \E f \in [0 .. k + 1 -> Seq(S)] : Loop(s, k + 1, f)
    OBVIOUS
  <2>1. PICK f \in [0 .. k -> Seq(S)] : Loop(s, k, f)
    BY <1>2
  <2>. DEFINE g == [i \in 0 .. k + 1 |-> IF i <= k THEN f[i] ELSE f[k] \o s[k + 1]]
  <2>2. s[k + 1] \in Seq(S) /\ f[k] \in Seq(S)
    OBVIOUS
  <2>3. f[k] \o s[k + 1] \in Seq(S)
    BY <2>2
  <2>4. g \in [0 .. k + 1 -> Seq(S)]
    BY <2>3
  <2>5. g[0] = <<>>
    BY <2>1 DEF Loop
  <2>6. ASSUME NEW i \in 1 .. k PROVE g[i] = g[i - 1] \o s[i]
    <3>1. i \in 0 .. k + 1 /\ i - 1 \in 0 .. k + 1 /\ i <= k /\ i - 1 <= k
      OBVIOUS
    <3>2. f[i] = f[i - 1] \o s[i]
      BY <2>1 DEF Loop
    <3>3. g[i] = f[i] /\ g[i - 1] = f[i - 1]
      BY <3>1
    <3>. HIDE DEF g
    <3>. QED  BY <3>2, <3>3
  <2>7. g[k + 1] = g[(k + 1) - 1] \o s[k + 1]
    <3>1. k + 1 \in 0 .. k + 1 /\ ~(k + 1 <= k) /\ k \in 0 .. k + 1 /\ (k + 1) - 1 = k
      OBVIOUS
    <3>2. g[k + 1] = f[k] \o s[k + 1] /\ g[k] = f[k]
      BY <3>1
    <3>. HIDE DEF g
    <3>. QED  BY <3>1, <3>2
  <2>8. \A i \in 1 .. k + 1 : i \in 1 .. k \/ i = k + 1
    OBVIOUS
  <2>. HIDE DEF g
  <2>9. \A i \in 1 .. k + 1 : g[i] = g[i - 1] \o s[i]
    BY <2>6, <2>7, <2>8
  <2>. QED  BY <2>4, <2>5, <2>9 DEF Loop
<1>3. n \in P
  <2>. HIDE DEF P
  <2>. QED  BY <1>1, <1>2, SetInduction
<1>. QED  BY <1>3

\* FlattenSeq is the last of them.
LEMMA FlattenIsPrefix ==
  ASSUME NEW S, NEW n \in Nat, NEW s \in [1 .. n -> Seq(S)],
         NEW f \in [0 .. n -> Seq(S)], Loop(s, n, f)
  PROVE  FlattenSeq(s) = f[n]
<1>0. s \in Seq(Seq(S)) /\ Len(s) = n
  OBVIOUS
<1>1. CASE n = 0
  BY <1>0, <1>1 DEF FlattenSeq, Loop
<1>2. CASE n # 0
  <2>. DEFINE Def(g) == [i \in 1 .. Len(s) |-> IF i = 1 THEN s[i] ELSE g[i - 1] \o s[i]]
              h == CHOOSE g : g = Def(g)
  <2>1. \E g : g = Def(g)
    <3>. DEFINE g == [i \in 1 .. n |-> f[i]]
    <3>1. ASSUME NEW i \in 1 .. n PROVE f[i] = IF i = 1 THEN s[i] ELSE g[i - 1] \o s[i]
      <4>1. f[i] = f[i - 1] \o s[i]
        BY DEF Loop
      <4>2. CASE i = 1
        <5>1. f[0] = <<>> /\ s[i] \in Seq(S) /\ i - 1 = 0
          BY <4>2 DEF Loop
        <5>2. <<>> \o s[i] = s[i]
          BY <5>1
        <5>. QED  BY <4>1, <4>2, <5>1, <5>2
      <4>3. CASE i # 1
        <5>1. i - 1 \in 1 .. n
          BY <4>3
        <5>2. g[i - 1] = f[i - 1]
          BY <5>1
        <5>. QED  BY <4>1, <4>3, <5>2
      <4>. QED  BY <4>2, <4>3
    <3>2. g = Def(g)
      BY <1>0, <3>1
    <3>. QED  BY <3>2
  <2>2. h = Def(h)
    <3>. HIDE DEF Def
    <3>. QED  BY <2>1, Zenon
  <2>3. FlattenSeq(s) = h[n]
    BY <1>0, <1>2 DEF FlattenSeq
  <2>. HIDE DEF h
  <2>. DEFINE P == {k \in Nat : k < n => h[k + 1] = f[k + 1]}
  <2>a. ASSUME NEW i \in 1 .. n PROVE h[i] = IF i = 1 THEN s[i] ELSE h[i - 1] \o s[i]
    BY <1>0, <2>2
  <2>4. 0 \in P
    <3>1. h[1] = s[1]
      BY <1>2, <2>a
    <3>2. 1 \in 1 .. n /\ 1 - 1 = 0
      BY <1>2
    <3>3. f[0] = <<>> /\ f[1] = f[0] \o s[1] /\ s[1] \in Seq(S)
      BY <3>2 DEF Loop
    <3>4. <<>> \o s[1] = s[1]
      BY <3>3
    <3>. QED  BY <3>1, <3>3, <3>4
  <2>5. ASSUME NEW k \in Nat, k \in P PROVE k + 1 \in P
    <3>. SUFFICES ASSUME k + 1 < n PROVE h[(k + 1) + 1] = f[(k + 1) + 1]
      OBVIOUS
    <3>0. k + 2 \in 1 .. n /\ k + 2 # 1 /\ (k + 2) - 1 = k + 1 /\ (k + 1) + 1 = k + 2
      OBVIOUS
    <3>1. h[k + 2] = h[k + 1] \o s[k + 2]
      BY <2>a, <3>0
    <3>2. f[k + 2] = f[k + 1] \o s[k + 2]
      BY <3>0 DEF Loop
    <3>3. h[k + 1] = f[k + 1]
      BY <2>5
    <3>. QED  BY <3>0, <3>1, <3>2, <3>3
  <2>6. Nat \subseteq P
    <3>. HIDE DEF P
    <3>. QED  BY <2>4, <2>5, SetInduction
  <2>7. n - 1 \in Nat /\ n - 1 < n /\ (n - 1) + 1 = n
    BY <1>2
  <2>. QED  BY <2>3, <2>6, <2>7
<1>. QED  BY <1>1, <1>2

\* A set with the empty sequence that appending never leaves holds every sequence.
LEMMA SeqInductionSet ==
  ASSUME NEW S, NEW P, <<>> \in P, \A s \in Seq(S), e \in S : s \in P => Append(s, e) \in P
  PROVE  Seq(S) \subseteq P
<1>. DEFINE Q == {n \in Nat : \A s \in Seq(S) : Len(s) = n => s \in P}
<1>1. 0 \in Q
  OBVIOUS
<1>2. ASSUME NEW n \in Nat, n \in Q PROVE n + 1 \in Q
  <2>. SUFFICES ASSUME NEW s \in Seq(S), Len(s) = n + 1 PROVE s \in P
    OBVIOUS
  <2>. DEFINE f == SubSeq(s, 1, n)
  <2>1. f \in Seq(S) /\ Len(f) = n /\ s[n + 1] \in S
    OBVIOUS
  <2>2. s = Append(f, s[n + 1])
    OBVIOUS
  <2>3. f \in P
    BY <1>2, <2>1
  <2>. HIDE DEF f
  <2>. QED  BY <2>1, <2>2, <2>3
<1>3. Nat \subseteq Q
  <2>. HIDE DEF Q
  <2>. QED  BY <1>1, <1>2, SetInduction
<1>. QED  BY <1>3

\* Nothing joined is nothing.
LEMMA FlattenEmpty == FlattenSeq(<<>>) = <<>>
<1>1. <<>> \in [1 .. 0 -> Seq({})] /\ 0 \in Nat
  OBVIOUS
<1>2. PICK f \in [0 .. 0 -> Seq({})] : Loop(<<>>, 0, f)
  BY <1>1, PrefixesExist
<1>3. FlattenSeq(<<>>) = f[0]
  BY <1>1, <1>2, FlattenIsPrefix
<1>4. f[0] = <<>>
  BY <1>2 DEF Loop
<1>. QED  BY <1>3, <1>4

\* Joined sequences are a sequence over the same elements.
LEMMA FlattenType ==
  ASSUME NEW S, NEW s \in Seq(Seq(S))
  PROVE  FlattenSeq(s) \in Seq(S)
<1>1. s \in [1 .. Len(s) -> Seq(S)] /\ Len(s) \in Nat
  OBVIOUS
<1>2. PICK f \in [0 .. Len(s) -> Seq(S)] : Loop(s, Len(s), f)
  BY <1>1, PrefixesExist
<1>3. FlattenSeq(s) = f[Len(s)]
  BY <1>1, <1>2, FlattenIsPrefix
<1>. QED  BY <1>1, <1>3

\* One more sequence comes last.
LEMMA FlattenAppend ==
  ASSUME NEW S, NEW s \in Seq(Seq(S)), NEW e \in Seq(S)
  PROVE  FlattenSeq(Append(s, e)) = FlattenSeq(s) \o e
<1>. DEFINE n == Len(s)
            t == Append(s, e)
<1>1. /\ n \in Nat /\ s \in [1 .. n -> Seq(S)]
      /\ n + 1 \in Nat /\ t \in [1 .. n + 1 -> Seq(S)]
      /\ t[n + 1] = e /\ \A i \in 1 .. n : t[i] = s[i]
  <2>1. n \in Nat /\ n + 1 \in Nat
    OBVIOUS
  <2>2. t \in Seq(Seq(S)) /\ Len(t) = n + 1
    OBVIOUS
  <2>3. s \in [1 .. n -> Seq(S)]
    OBVIOUS
  <2>4. t[n + 1] = e
    OBVIOUS
  <2>5. \A i \in 1 .. n : t[i] = s[i]
    OBVIOUS
  <2>6. t \in [1 .. n + 1 -> Seq(S)]
    <3>. HIDE DEF t
    <3>. QED  BY <2>1, <2>2
  <2>. QED  BY <2>1, <2>3, <2>4, <2>5, <2>6
<1>. HIDE DEF n, t
<1>2. PICK f \in [0 .. n + 1 -> Seq(S)] : Loop(t, n + 1, f)
  BY <1>1, PrefixesExist
<1>3. FlattenSeq(t) = f[n + 1]
  BY <1>1, <1>2, FlattenIsPrefix
<1>. DEFINE g == [i \in 0 .. n |-> f[i]]
<1>4. g \in [0 .. n -> Seq(S)]
  BY <1>1
<1>5. g[0] = <<>> /\ g[n] = f[n]
  BY <1>1, <1>2 DEF Loop
<1>6. ASSUME NEW i \in 1 .. n PROVE g[i] = g[i - 1] \o s[i]
  <2>1. i \in 0 .. n /\ i - 1 \in 0 .. n /\ i \in 1 .. n + 1
    BY <1>1
  <2>2. f[i] = f[i - 1] \o t[i] /\ t[i] = s[i]
    BY <1>1, <1>2, <2>1 DEF Loop
  <2>3. g[i] = f[i] /\ g[i - 1] = f[i - 1]
    BY <2>1
  <2>. HIDE DEF g
  <2>. QED  BY <2>2, <2>3
<1>. HIDE DEF g
<1>7. FlattenSeq(s) = g[n]
  BY <1>1, <1>4, <1>5, <1>6, FlattenIsPrefix DEF Loop
<1>8. n + 1 \in 1 .. n + 1 /\ (n + 1) - 1 = n
  BY <1>1
<1>9. f[n + 1] = f[n] \o t[n + 1]
  BY <1>2, <1>8 DEF Loop
<1>. QED  BY <1>1, <1>3, <1>5, <1>7, <1>9 DEF t

\* Joining two lists is joining each.
LEMMA FlattenConcat ==
  ASSUME NEW S, NEW s \in Seq(Seq(S)), NEW t \in Seq(Seq(S))
  PROVE  FlattenSeq(s \o t) = FlattenSeq(s) \o FlattenSeq(t)
<1>. DEFINE P == {u \in Seq(Seq(S)) : FlattenSeq(s \o u) = FlattenSeq(s) \o FlattenSeq(u)}
<1>1. <<>> \in P
  <2>1. FlattenSeq(s) \in Seq(S)
    BY FlattenType
  <2>2. s \o <<>> = s /\ FlattenSeq(s) \o <<>> = FlattenSeq(s) /\ <<>> \in Seq(Seq(S))
    BY <2>1
  <2>. QED  BY <2>2, FlattenEmpty
<1>2. ASSUME NEW u \in Seq(Seq(S)), NEW e \in Seq(S), u \in P
      PROVE  Append(u, e) \in P
  <2>1. s \o u \in Seq(Seq(S)) /\ Append(u, e) \in Seq(Seq(S)) /\ s \o Append(u, e) = Append(s \o u, e)
    OBVIOUS
  <2>2. FlattenSeq(s \o Append(u, e)) = FlattenSeq(s \o u) \o e
    BY <2>1, FlattenAppend
  <2>3. FlattenSeq(s \o u) = FlattenSeq(s) \o FlattenSeq(u)
    BY <1>2
  <2>4. FlattenSeq(Append(u, e)) = FlattenSeq(u) \o e
    BY FlattenAppend
  <2>5. FlattenSeq(s) \in Seq(S) /\ FlattenSeq(u) \in Seq(S)
    BY FlattenType
  <2>6. (FlattenSeq(s) \o FlattenSeq(u)) \o e = FlattenSeq(s) \o (FlattenSeq(u) \o e)
    BY <2>5
  <2>. QED  BY <2>1, <2>2, <2>3, <2>4, <2>6
<1>3. Seq(Seq(S)) \subseteq P
  <2>. HIDE DEF P
  <2>. QED  BY <1>1, <1>2, SeqInductionSet
<1>. QED  BY <1>3

\* What each element of s stands for, joined.
Mapped(out, s) == FlattenSeq([i \in DOMAIN s |-> out[s[i]]])

\* A function on 1 .. n is a sequence of length n.
LEMMA FunctionIsSeq ==
  ASSUME NEW S, NEW n \in Nat, NEW f \in [1 .. n -> S]
  PROVE  f \in Seq(S) /\ Len(f) = n
OBVIOUS

\* The length of a concatenation.
LEMMA ConcatType ==
  ASSUME NEW S, NEW s \in Seq(S), NEW t \in Seq(S)
  PROVE  s \o t \in Seq(S) /\ Len(s \o t) = Len(s) + Len(t)
OBVIOUS

\* Sequences that agree everywhere are equal.
LEMMA SeqEqual ==
  ASSUME NEW S, NEW s \in Seq(S), NEW t \in Seq(S), Len(s) = Len(t),
         \A i \in 1 .. Len(s) : s[i] = t[i]
  PROVE  s = t
OBVIOUS

\* Mapped joins sequences.
LEMMA MappedType ==
  ASSUME NEW S, NEW T, NEW out \in [S -> Seq(T)], NEW s \in Seq(S)
  PROVE  Mapped(out, s) \in Seq(T)
<1>1. [i \in DOMAIN s |-> out[s[i]]] \in [1 .. Len(s) -> Seq(T)]
  OBVIOUS
<1>2. [i \in DOMAIN s |-> out[s[i]]] \in Seq(Seq(T))
  BY <1>1, FunctionIsSeq
<1>. QED  BY <1>2, FlattenType DEF Mapped

\* Mapped of no element and of one.
LEMMA MappedOne ==
  ASSUME NEW S, NEW T, NEW out \in [S -> Seq(T)], NEW e \in S
  PROVE  Mapped(out, <<>>) = <<>> /\ Mapped(out, <<e>>) = out[e]
<1>1. [i \in DOMAIN <<>> |-> out[<<>>[i]]] = <<>>
  OBVIOUS
<1>2. [i \in DOMAIN <<e>> |-> out[<<e>>[i]]] = Append(<<>>, out[e])
  OBVIOUS
<1>3. FlattenSeq(Append(<<>>, out[e])) = FlattenSeq(<<>>) \o out[e]
  <2>1. out[e] \in Seq(T) /\ <<>> \in Seq(Seq(T))
    OBVIOUS
  <2>. QED  BY <2>1, FlattenAppend
<1>4. <<>> \o out[e] = out[e]
  OBVIOUS
<1>. QED  BY <1>1, <1>2, <1>3, <1>4, FlattenEmpty DEF Mapped

\* Mapping a concatenation is mapping its parts.
Joins(out, S) ==
  \A s, t \in Seq(S) : Mapped(out, s \o t) = Mapped(out, s) \o Mapped(out, t)

\* Every map to sequences joins.
LEMMA MappedConcat ==
  ASSUME NEW S, NEW T, NEW out \in [S -> Seq(T)]
  PROVE  Joins(out, S)
<1>. SUFFICES ASSUME NEW s \in Seq(S), NEW t \in Seq(S)
              PROVE  Mapped(out, s \o t) = Mapped(out, s) \o Mapped(out, t)
  BY DEF Joins
<1>. DEFINE Out(u) == [i \in DOMAIN u |-> out[u[i]]]
<1>0. ASSUME NEW u \in Seq(S)
      PROVE  Out(u) \in Seq(Seq(T)) /\ Len(Out(u)) = Len(u)
  <2>1. Len(u) \in Nat /\ Out(u) \in [1 .. Len(u) -> Seq(T)]
    OBVIOUS
  <2>. HIDE DEF Out
  <2>. QED  BY <2>1, FunctionIsSeq
<1>1. /\ Out(s) \in Seq(Seq(T)) /\ Len(Out(s)) = Len(s)
      /\ Out(t) \in Seq(Seq(T)) /\ Len(Out(t)) = Len(t)
  <2>. HIDE DEF Out
  <2>. QED  BY <1>0
<1>2. Out(s \o t) = Out(s) \o Out(t)
  <2>1. s \o t \in Seq(S) /\ Len(s \o t) = Len(s) + Len(t)
    OBVIOUS
  <2>2. Out(s \o t) \in Seq(Seq(T)) /\ Len(Out(s \o t)) = Len(s) + Len(t)
    <3>. HIDE DEF Out
    <3>. QED  BY <1>0, <2>1
  <2>3. Out(s) \o Out(t) \in Seq(Seq(T)) /\ Len(Out(s) \o Out(t)) = Len(s) + Len(t)
    <3>. HIDE DEF Out
    <3>1. /\ Out(s) \o Out(t) \in Seq(Seq(T))
          /\ Len(Out(s) \o Out(t)) = Len(Out(s)) + Len(Out(t))
      BY <1>1, ConcatType, Zenon
    <3>. QED  BY <1>1, <3>1
  <2>4. ASSUME NEW i \in 1 .. Len(s) + Len(t)
        PROVE  Out(s \o t)[i] = (Out(s) \o Out(t))[i]
    <3>1. Out(s \o t)[i] = out[(s \o t)[i]]
      OBVIOUS
    <3>2. CASE i <= Len(s)
      <4>1. (s \o t)[i] = s[i] /\ i \in DOMAIN s
        BY <3>2
      <4>2. Out(s)[i] = out[s[i]]
        BY <4>1
      <4>. HIDE DEF Out
      <4>3. (Out(s) \o Out(t))[i] = Out(s)[i]
        BY <1>1, <3>2
      <4>. QED  BY <3>1, <4>1, <4>2, <4>3
    <3>3. CASE i > Len(s)
      <4>1. (s \o t)[i] = t[i - Len(s)] /\ i - Len(s) \in DOMAIN t
        BY <3>3
      <4>2. Out(t)[i - Len(s)] = out[t[i - Len(s)]]
        BY <4>1
      <4>. HIDE DEF Out
      <4>3. (Out(s) \o Out(t))[i] = Out(t)[i - Len(s)]
        BY <1>1, <3>3
      <4>. QED  BY <3>1, <4>1, <4>2, <4>3
    <3>. QED  BY <3>2, <3>3
  <2>. HIDE DEF Out
  <2>5. Len(s) + Len(t) \in Nat
    OBVIOUS
  <2>. QED  BY <2>2, <2>3, <2>4, <2>5, SeqEqual, Zenon
<1>. HIDE DEF Out
<1>3. FlattenSeq(Out(s) \o Out(t)) = FlattenSeq(Out(s)) \o FlattenSeq(Out(t))
  BY <1>1, FlattenConcat
<1>. QED  BY <1>2, <1>3 DEF Mapped, Out

\* Parts that stand for the elements of t, in their order, and then for nothing.
LEMMA MappedParts ==
  ASSUME NEW S, NEW T, NEW out \in [S -> Seq(T)]
  PROVE  \A n \in Nat : \A s \in [1 .. n -> Seq(S)], t \in Seq(T) :
           /\ Len(t) <= n
           /\ \A i \in 1 .. n : Mapped(out, s[i]) = IF i <= Len(t) THEN <<t[i]>> ELSE <<>>
           => Mapped(out, FlattenSeq(s)) = t
<1>. SUFFICES
       ASSUME NEW n \in Nat, NEW s \in [1 .. n -> Seq(S)], NEW t \in Seq(T), Len(t) <= n,
              \A i \in 1 .. n : Mapped(out, s[i]) = IF i <= Len(t) THEN <<t[i]>> ELSE <<>>
       PROVE  Mapped(out, FlattenSeq(s)) = t
  OBVIOUS
<1>0. ASSUME NEW a \in Seq(S), NEW b \in Seq(S)
      PROVE  Mapped(out, a \o b) = Mapped(out, a) \o Mapped(out, b)
  <2>1. Joins(out, S)
    BY MappedConcat
  <2>. QED  BY <2>1 DEF Joins
<1>1. PICK f \in [0 .. n -> Seq(S)] : Loop(s, n, f)
  BY PrefixesExist
<1>2. FlattenSeq(s) = f[n]
  BY <1>1, FlattenIsPrefix
<1>. DEFINE m(k) == IF k <= Len(t) THEN k ELSE Len(t)
            Q == {k \in Nat : k <= n => Mapped(out, f[k]) = SubSeq(t, 1, m(k))}
<1>3. 0 \in Q
  <2>1. f[0] = <<>>
    BY <1>1 DEF Loop
  <2>3. SubSeq(t, 1, m(0)) = <<>>
    <3>1. m(0) = 0 /\ SubSeq(t, 1, 0) = <<>>
      OBVIOUS
    <3>. QED  BY <3>1
  <2>2. Mapped(out, <<>>) = <<>>
    BY FlattenEmpty DEF Mapped
  <2>. QED  BY <2>1, <2>2, <2>3
<1>4. ASSUME NEW k \in Nat, k \in Q PROVE k + 1 \in Q
  <2>. SUFFICES ASSUME k + 1 <= n PROVE Mapped(out, f[k + 1]) = SubSeq(t, 1, m(k + 1))
    OBVIOUS
  <2>1. k + 1 \in 1 .. n /\ (k + 1) - 1 = k /\ k \in 0 .. n
    OBVIOUS
  <2>2. f[k + 1] = f[k] \o s[k + 1]
    BY <1>1, <2>1 DEF Loop
  <2>3. Mapped(out, f[k]) = SubSeq(t, 1, m(k))
    BY <1>4, <2>1
  <2>4. Mapped(out, f[k + 1]) = Mapped(out, f[k]) \o Mapped(out, s[k + 1])
    <3>1. f[k] \in Seq(S) /\ s[k + 1] \in Seq(S)
      BY <2>1
    <3>2. Mapped(out, f[k] \o s[k + 1]) = Mapped(out, f[k]) \o Mapped(out, s[k + 1])
      BY <1>0, <3>1
    <3>. QED  BY <2>2, <3>2
  <2>5. CASE k + 1 <= Len(t)
    <3>1. Mapped(out, s[k + 1]) = <<t[k + 1]>> /\ m(k) = k /\ m(k + 1) = k + 1
      BY <2>1, <2>5
    <3>2. SubSeq(t, 1, k) \o <<t[k + 1]>> = SubSeq(t, 1, k + 1)
      BY <2>5
    <3>. QED  BY <2>3, <2>4, <3>1, <3>2
  <2>6. CASE ~(k + 1 <= Len(t))
    <3>1. Mapped(out, s[k + 1]) = <<>> /\ m(k) = m(k + 1) /\ m(k) \in Nat
      BY <2>1, <2>6
    <3>2. SubSeq(t, 1, m(k)) \o <<>> = SubSeq(t, 1, m(k))
      BY <3>1
    <3>. QED  BY <2>3, <2>4, <3>1, <3>2
  <2>. QED  BY <2>5, <2>6
<1>5. n \in Q
  <2>. HIDE DEF Q
  <2>. QED  BY <1>3, <1>4, SetInduction
<1>6. SubSeq(t, 1, m(n)) = t
  OBVIOUS
<1>. QED  BY <1>2, <1>5, <1>6

-----------------------------------------------------------------------------
(* The panel.                                                              *)

\* What ComputeDiffSegments is built from, and what the Accept button takes of a
\* segment: as it stands, and when the user has toggled every changed one.
SegmentSet == [type : {"unchanged", "removed", "added"}, text : Sentence, index : Nat, accepted : BOOLEAN]
Longer(original, proposed) ==
  IF Len(original) > Len(proposed) THEN Len(original) ELSE Len(proposed)
DiffAt(original, proposed, i) ==
  IF i <= Len(original) /\ i <= Len(proposed) /\ original[i] = proposed[i]
  THEN <<Segment("unchanged", proposed[i], i)>>
  ELSE (IF i <= Len(original) THEN <<Segment("removed", original[i], i)>> ELSE <<>>)
       \o (IF i <= Len(proposed) THEN <<Segment("added", proposed[i], i)>> ELSE <<>>)
Flipped(segment) ==
  IF segment.type # "unchanged" THEN [segment EXCEPT !.accepted = ~@] ELSE segment
Kept(segment) == IF segment.accepted THEN <<segment.text>> ELSE <<>>
KeptNow == [segment \in SegmentSet |-> Kept(segment)]
KeptFlipped == [segment \in SegmentSet |-> Kept(Flipped(segment))]

\* Only added sentences are lost when all are toggled, only removed ones when none
\* is.
LEMMA SegmentType ==
  ASSUME NEW type \in {"unchanged", "removed", "added"}, NEW text \in Sentence, NEW index \in Nat
  PROVE  /\ Segment(type, text, index) \in SegmentSet
         /\ Kept(Segment(type, text, index)) = IF type = "removed" THEN <<>> ELSE <<text>>
         /\ Kept(Flipped(Segment(type, text, index))) = IF type = "added" THEN <<>> ELSE <<text>>
BY DEF Segment, SegmentSet, Kept, Flipped

\* What the panel keeps of a segment, toggled or not, is a list of sentences.
LEMMA KeptType ==
  KeptNow \in [SegmentSet -> Seq(Sentence)] /\ KeptFlipped \in [SegmentSet -> Seq(Sentence)]
<1>1. ASSUME NEW g \in SegmentSet
      PROVE  Kept(g) \in Seq(Sentence) /\ Kept(Flipped(g)) \in Seq(Sentence)
  <2>1. Flipped(g) \in SegmentSet
    BY DEF Flipped, SegmentSet
  <2>2. \A h \in SegmentSet : Kept(h) \in Seq(Sentence)
    BY DEF Kept, SegmentSet
  <2>. QED  BY <2>1, <2>2
<1>. QED  BY <1>1 DEF KeptNow, KeptFlipped

\* What is kept of two lists of segments is what is kept of each.
LEMMA KeptConcat ==
  ASSUME NEW out \in {KeptNow, KeptFlipped}
  PROVE  \A a, b \in Seq(SegmentSet) : Mapped(out, a \o b) = Mapped(out, a) \o Mapped(out, b)
<1>1. out \in [SegmentSet -> Seq(Sentence)]
  BY KeptType
<1>2. Joins(out, SegmentSet)
  BY <1>1, MappedConcat
<1>. QED  BY <1>2 DEF Joins

\* What is kept of a diff is a text, when at each index it is the text's sentence.
LEMMA KeptParts ==
  ASSUME NEW out \in {KeptNow, KeptFlipped}
  PROVE  \A n \in Nat : \A s \in [1 .. n -> Seq(SegmentSet)], t \in Seq(Sentence) :
           /\ Len(t) <= n
           /\ \A i \in 1 .. n : Mapped(out, s[i]) = IF i <= Len(t) THEN <<t[i]>> ELSE <<>>
           => Mapped(out, FlattenSeq(s)) = t
<1>1. out \in [SegmentSet -> Seq(Sentence)]
  BY KeptType
<1>. QED  BY <1>1, MappedParts

\* computeDiffSegments goes through the indexes of the longer text.
LEMMA DiffIsFlat ==
  ASSUME NEW original \in Text, NEW proposed \in Text
  PROVE  /\ Longer(original, proposed) \in Nat
         /\ Len(original) <= Longer(original, proposed) /\ Len(proposed) <= Longer(original, proposed)
         /\ ComputeDiffSegments(original, proposed) =
              FlattenSeq([i \in 1 .. Longer(original, proposed) |-> DiffAt(original, proposed, i)])
BY DEF Text, Longer, ComputeDiffSegments, DiffAt

\* At each index it keeps the sentence of either text, if there is one.
LEMMA DiffParts ==
  ASSUME NEW original \in Text, NEW proposed \in Text, NEW i \in 1 .. Longer(original, proposed)
  PROVE  /\ DiffAt(original, proposed, i) \in Seq(SegmentSet)
         /\ Mapped(KeptNow, DiffAt(original, proposed, i)) =
              IF i <= Len(proposed) THEN <<proposed[i]>> ELSE <<>>
         /\ Mapped(KeptFlipped, DiffAt(original, proposed, i)) =
              IF i <= Len(original) THEN <<original[i]>> ELSE <<>>
<1>. DEFINE D == DiffAt(original, proposed, i)
            same == Segment("unchanged", proposed[i], i)
            old == Segment("removed", original[i], i)
            new == Segment("added", proposed[i], i)
<1>1. i \in Nat /\ (i <= Len(original) \/ i <= Len(proposed))
  BY DiffIsFlat DEF Longer, Text
<1>2. /\ i <= Len(original) => original[i] \in Sentence
      /\ i <= Len(proposed) => proposed[i] \in Sentence
  BY <1>1 DEF Text
<1>3. /\ i <= Len(proposed) => same \in SegmentSet /\ new \in SegmentSet
      /\ i <= Len(proposed) => KeptNow[same] = <<proposed[i]>> /\ KeptNow[new] = <<proposed[i]>>
      /\ i <= Len(proposed) => KeptFlipped[same] = <<proposed[i]>> /\ KeptFlipped[new] = <<>>
  BY <1>1, <1>2, SegmentType DEF KeptNow, KeptFlipped
<1>4. /\ i <= Len(original) => old \in SegmentSet
      /\ i <= Len(original) => KeptNow[old] = <<>> /\ KeptFlipped[old] = <<original[i]>>
  BY <1>1, <1>2, SegmentType DEF KeptNow, KeptFlipped
<1>. HIDE DEF same, old, new
<1>5. \A e \in SegmentSet : /\ Mapped(KeptNow, <<e>>) = KeptNow[e]
                            /\ Mapped(KeptFlipped, <<e>>) = KeptFlipped[e]
  BY KeptType, MappedOne
<1>6. CASE i <= Len(original) /\ i <= Len(proposed) /\ original[i] = proposed[i]
  <2>1. D = <<same>>
    BY <1>6 DEF DiffAt, same
  <2>2. <<same>> \in Seq(SegmentSet)
    BY <1>3, <1>6
  <2>. QED  BY <1>3, <1>5, <1>6, <2>1, <2>2
<1>7. CASE i <= Len(original) /\ i <= Len(proposed) /\ original[i] # proposed[i]
  <2>1. D = <<old>> \o <<new>>
    BY <1>7 DEF DiffAt, old, new
  <2>2. <<old>> \in Seq(SegmentSet) /\ <<new>> \in Seq(SegmentSet)
    BY <1>3, <1>4, <1>7
  <2>3. <<old>> \o <<new>> \in Seq(SegmentSet)
    BY <2>2, ConcatType
  <2>4. /\ Mapped(KeptNow, <<old>> \o <<new>>) = KeptNow[old] \o KeptNow[new]
        /\ Mapped(KeptFlipped, <<old>> \o <<new>>) = KeptFlipped[old] \o KeptFlipped[new]
    <3>1. /\ Mapped(KeptNow, <<old>> \o <<new>>) = Mapped(KeptNow, <<old>>) \o Mapped(KeptNow, <<new>>)
      BY <2>2, KeptConcat
    <3>2. Mapped(KeptFlipped, <<old>> \o <<new>>) =
            Mapped(KeptFlipped, <<old>>) \o Mapped(KeptFlipped, <<new>>)
      BY <2>2, KeptConcat
    <3>. QED  BY <1>3, <1>4, <1>5, <1>7, <3>1, <3>2
  <2>5. <<>> \o <<proposed[i]>> = <<proposed[i]>> /\ <<original[i]>> \o <<>> = <<original[i]>>
    OBVIOUS
  <2>. QED  BY <1>3, <1>4, <1>7, <2>1, <2>3, <2>4, <2>5
<1>8. CASE i <= Len(original) /\ ~(i <= Len(proposed))
  <2>1. D = <<old>>
    BY <1>8 DEF DiffAt, old
  <2>2. <<old>> \in Seq(SegmentSet)
    BY <1>4, <1>8
  <2>. QED  BY <1>4, <1>5, <1>8, <2>1, <2>2
<1>9. CASE ~(i <= Len(original)) /\ i <= Len(proposed)
  <2>1. D = <<new>>
    BY <1>9 DEF DiffAt, new
  <2>2. <<new>> \in Seq(SegmentSet)
    BY <1>3, <1>9
  <2>. QED  BY <1>3, <1>5, <1>9, <2>1, <2>2
<1>. QED  BY <1>1, <1>6, <1>7, <1>8, <1>9

\* So the segments hold both texts.
LEMMA DiffKeepsBoth ==
  ASSUME NEW original \in Text, NEW proposed \in Text
  PROVE  /\ ComputeDiffSegments(original, proposed) \in Seq(SegmentSet)
         /\ Mapped(KeptNow, ComputeDiffSegments(original, proposed)) = proposed
         /\ Mapped(KeptFlipped, ComputeDiffSegments(original, proposed)) = original
<1>. DEFINE n == Longer(original, proposed)
            s == [i \in 1 .. n |-> DiffAt(original, proposed, i)]
<1>1. n \in Nat /\ Len(original) <= n /\ Len(proposed) <= n
      /\ ComputeDiffSegments(original, proposed) = FlattenSeq(s)
  BY DiffIsFlat
<1>2. s \in [1 .. n -> Seq(SegmentSet)]
  BY DiffParts
<1>3. \A i \in 1 .. n : Mapped(KeptNow, s[i]) = IF i <= Len(proposed) THEN <<proposed[i]>> ELSE <<>>
  BY DiffParts
<1>4. \A i \in 1 .. n : Mapped(KeptFlipped, s[i]) = IF i <= Len(original) THEN <<original[i]>> ELSE <<>>
  BY DiffParts
<1>. HIDE DEF n, s
<1>5. FlattenSeq(s) \in Seq(SegmentSet)
  <2>1. s \in Seq(Seq(SegmentSet))
    BY <1>1, <1>2, FunctionIsSeq
  <2>. QED  BY <2>1, FlattenType
<1>6. Mapped(KeptNow, FlattenSeq(s)) = proposed
  BY <1>1, <1>2, <1>3, KeptParts DEF Text
<1>7. Mapped(KeptFlipped, FlattenSeq(s)) = original
  BY <1>1, <1>2, <1>4, KeptParts DEF Text
<1>. QED  BY <1>1, <1>5, <1>6, <1>7

\* What is sent with no toggle, and with every changed sentence toggled.
LEMMA TogglesKeep ==
  ASSUME NEW s \in Seq(SegmentSet)
  PROVE  /\ Toggled(s, {}) = s
         /\ AcceptedText(s) = Mapped(KeptNow, s)
         /\ AcceptedText(Toggled(s, DOMAIN s)) = Mapped(KeptFlipped, s)
<1>0. \A i \in DOMAIN s : s[i] \in SegmentSet
  OBVIOUS
<1>1. Toggled(s, {}) = s
  BY DEF Toggled
<1>2. AcceptedText(s) = Mapped(KeptNow, s)
  <2>1. [i \in DOMAIN s |-> IF s[i].accepted THEN <<s[i].text>> ELSE <<>>]
          = [i \in DOMAIN s |-> KeptNow[s[i]]]
    BY <1>0 DEF KeptNow, Kept
  <2>. QED  BY <2>1 DEF AcceptedText, Mapped
<1>3. AcceptedText(Toggled(s, DOMAIN s)) = Mapped(KeptFlipped, s)
  <2>. DEFINE t == Toggled(s, DOMAIN s)
  <2>1. DOMAIN t = DOMAIN s /\ \A i \in DOMAIN s : t[i] = Flipped(s[i])
    BY DEF Toggled, Flipped
  <2>2. \A i \in DOMAIN s : KeptFlipped[s[i]] = IF t[i].accepted THEN <<t[i].text>> ELSE <<>>
    BY <1>0, <2>1 DEF KeptFlipped, Kept
  <2>. HIDE DEF t
  <2>3. [i \in DOMAIN t |-> IF t[i].accepted THEN <<t[i].text>> ELSE <<>>]
          = [i \in DOMAIN s |-> KeptFlipped[s[i]]]
    BY <2>1, <2>2
  <2>4. AcceptedText(t) = Mapped(KeptFlipped, s)
    BY <2>3 DEF AcceptedText, Mapped
  <2>. QED  BY <2>4 DEF t
<1>. QED  BY <1>1, <1>2, <1>3

\* Whatever the panel shows, the user can keep the whole proposal, as "accept", or
\* the whole original.
LEMMA PanelKeeps == TypeOK => PanelKeepsBoth
<1>. SUFFICES ASSUME TypeOK, proposal # None
              PROVE  LET all == DOMAIN ComputeDiffSegments(proposal.original, proposal.proposed) IN
    /\ ChosenByToggles(proposal, {}) = [text |-> proposal.proposed, action |-> "accept"]
    /\ ChosenByToggles(proposal, all).text = proposal.original
  BY DEF PanelKeepsBoth, CanAccept
<1>. DEFINE s == ComputeDiffSegments(proposal.original, proposal.proposed)
<1>1. proposal.original \in Text /\ proposal.proposed \in Text
  BY DEF TypeOK
<1>2. /\ s \in Seq(SegmentSet)
      /\ Mapped(KeptNow, s) = proposal.proposed
      /\ Mapped(KeptFlipped, s) = proposal.original
  BY <1>1, DiffKeepsBoth
<1>3. /\ Toggled(s, {}) = s
      /\ AcceptedText(s) = proposal.proposed
      /\ AcceptedText(Toggled(s, DOMAIN s)) = proposal.original
  <2>. HIDE DEF s
  <2>. QED  BY <1>2, TogglesKeep
<1>. HIDE DEF s
<1>4. ChosenByToggles(proposal, {}) = [text |-> proposal.proposed, action |-> "accept"]
  BY <1>3 DEF ChosenByToggles, s
<1>5. ChosenByToggles(proposal, DOMAIN s).text = proposal.original
  BY <1>3 DEF ChosenByToggles, s
<1>. QED  BY <1>4, <1>5 DEF s

-----------------------------------------------------------------------------
(* The freshness of what is applied.                                      *)

ClickState == {"idle", "sent", "expire", "update", "reviewed", "stale", "refused",
               "failed", "done", "applied"}
\* A call whose task has a row.
Invoked(r) == r \in Run /\ pc[r] \in {"streaming", "done"}

\* The variables are functions on their sets, a task that runs has a source,
\* and the proposal on screen is the record of an invoked task.
ShapeInv ==
  /\ rpc \in [Click -> ClickState]
  /\ click = [c \in Click |-> click[c]]
  /\ source = [r \in Run |-> source[r]]
  /\ pc \in [Run -> {"idle", "invoking", "streaming", "done"}]
  /\ task \in [Run -> {"none", "running"} \union Outcome]
ProposalInv ==
  proposal # None =>
    /\ proposal = [f \in {"run", "kind", "original", "from", "to", "proposed",
                          "streaming", "stale"} |-> proposal[f]]
    /\ Invoked(proposal.run)
SourceInv ==
  \A r \in Run : task[r] # "none" =>
    /\ pc[r] \in {"streaming", "done"}
    /\ source[r] = [f \in {"text", "state"} |-> source[r][f]]

\* A click is about an invoked task.  One the server has let pass was fresh
\* against the task's source and still is: nobody gives a task a second source,
\* and a source that loses its state vector is less strict.
ClickInv ==
  \A c \in Click : rpc[c] # "idle" =>
    /\ Invoked(click[c].run)
    /\ click[c] = [f \in DOMAIN NoClick |-> click[c][f]]
    /\ rpc[c] \in {"update", "reviewed"} /\ click[c].action # "reject" =>
         ~Stale(c, source[click[c].run])
    /\ rpc[c] = "applied" => Applies(c) /\ ~Stale(c, source[click[c].run])

IInv == ShapeInv /\ ProposalInv /\ SourceInv /\ ClickInv

-----------------------------------------------------------------------------
\* Nothing is invoked at the start.
LEMMA InitOK == Init => IInv
<1>. SUFFICES ASSUME Init PROVE IInv
  OBVIOUS
<1>1. ShapeInv /\ SourceInv /\ ClickInv
  BY DEF Init, ReviewInit, ShapeInv, SourceInv, ClickInv, ClickState
<1>2. ProposalInv
  BY DEF Init, ReviewInit, ProposalInv
<1>. QED  BY <1>1, <1>2 DEF IInv

\* A call that has a row keeps it, in every step.
LEMMA InvokedStays ==
  ASSUME ShapeInv, Next
  PROVE  \A r \in Run : Invoked(r) => Invoked(r)'
<1>. SUFFICES ASSUME NEW r \in Run, Invoked(r) PROVE pc'[r] \in {"streaming", "done"}
  BY DEF Invoked
<1>1. CASE UNCHANGED pc
  BY <1>1 DEF Invoked
<1>2. ASSUME NEW q \in Run,
             \/ StartAction(q) \/ Retry(q) \/ InvokeAnswers(q) \/ InvokeFails(q)
             \/ StreamEnds(q) \/ StreamFails(q)
      PROVE  pc'[r] \in {"streaming", "done"}
  BY <1>2 DEF Invoked, ShapeInv, StartAction, Retry, Begin, InvokeAnswers, InvokeFails,
              StreamEnds, StreamFails, Catch, Finally
<1>. QED  BY <1>1, <1>2 DEF Next, toolVars, Select, Hide, CancelClick, CancelServed,
              CancelAnswered, ChunkArrives, Generate, LogInteraction

-----------------------------------------------------------------------------
(* The steps that leave the reviews alone.                                 *)

\* The shape of the calls and of the tasks.
LEMMA ShapeKept ==
  ASSUME IInv, [Next]_vars
  PROVE  ShapeInv'
<1>. USE DEF IInv, ShapeInv
<1>1. CASE UNCHANGED <<rpc, click, source, pc, task>>
  BY <1>1
<1>2. ASSUME NEW r \in Run,
             \/ StartAction(r) \/ Retry(r) \/ InvokeAnswers(r) \/ InvokeFails(r)
             \/ StreamEnds(r) \/ StreamFails(r) \/ Generate(r) \/ LogInteraction(r)
      PROVE  ShapeInv'
  <2>1. CASE StartAction(r) \/ Retry(r)
    BY <2>1 DEF StartAction, Retry, Begin, clickVars, serverVars
  <2>2. CASE InvokeAnswers(r)
    BY <2>2 DEF InvokeAnswers, clickVars
  <2>3. CASE InvokeFails(r) \/ StreamEnds(r) \/ StreamFails(r)
    BY <2>3 DEF InvokeFails, StreamEnds, StreamFails, Catch, Finally, clickVars, serverVars
  <2>4. CASE Generate(r) \/ LogInteraction(r)
    BY <2>4 DEF Generate, LogInteraction, reviewVars, clickVars, toolVars, serverVars, Outcome
  <2>. QED  BY <1>2, <2>1, <2>2, <2>3, <2>4
<1>3. ASSUME NEW c \in Click, Accept(c) \/ Reject(c) \/ ServeReview(c),
             UNCHANGED <<toolVars, serverVars>>
      PROVE  ShapeInv'
  <2>1. UNCHANGED <<source, pc, task>>
    BY <1>3 DEF Accept, Reject, Send, ServeReview, ReviewRead, ReviewWrite, ReviewFails,
                ReviewSucceeds, toolVars, serverVars
  <2>2. CASE Accept(c) \/ Reject(c)
    BY <2>1, <2>2 DEF Accept, Reject, Send, ClickState
  <2>3. CASE ServeReview(c)
    BY <2>1, <2>3 DEF ServeReview, ReviewRead, ReviewWrite, ReviewFails, ReviewSucceeds, ClickState
  <2>. QED  BY <1>3, <2>2, <2>3
<1>. QED  BY <1>1, <1>2, <1>3 DEF Next, ReviewNext, Edit, Restore, Dismiss, vars, reviewVars,
              clickVars, toolVars, serverVars, Select, Hide, CancelClick, CancelServed,
              CancelAnswered, ChunkArrives

\* The proposal on screen is one of an invoked task.
LEMMA ProposalKept ==
  ASSUME IInv, [Next]_vars
  PROVE  ProposalInv'
<1>. USE DEF IInv, ShapeInv
<1>1. Next \/ UNCHANGED vars
  OBVIOUS
<1>2. CASE Next /\ (proposal' = proposal \/ proposal' = None)
  <2>1. CASE proposal' = proposal /\ proposal # None
    <3>1. PICK r \in Run : r = proposal.run /\ Invoked(r)
      BY <2>1 DEF ProposalInv, Invoked
    <3>. QED  BY <1>2, <2>1, <3>1, InvokedStays DEF ProposalInv
  <2>2. CASE proposal' = None
    BY <2>2 DEF ProposalInv
  <2>. QED  BY <1>2, <2>1, <2>2
<1>3. CASE UNCHANGED vars
  BY <1>3 DEF vars, reviewVars, toolVars, ProposalInv, Invoked
<1>4. ASSUME NEW r \in Run, InvokeAnswers(r) \/ ChunkArrives(r) \/ StreamEnds(r)
      PROVE  ProposalInv'
  <2>1. pc'[r] \in {"streaming", "done"}
    BY <1>4 DEF InvokeAnswers, ChunkArrives, StreamEnds, Reading, Finally
  <2>2. PICK text, streaming : proposal' = ProposalOf(r, text, streaming)
    BY <1>4 DEF InvokeAnswers, ChunkArrives, StreamEnds, ProposalOf
  <2>. QED  BY <2>1, <2>2 DEF ProposalOf, ProposalInv, Invoked
<1>5. ASSUME NEW c \in Click, Next, ReviewFails(c)
      PROVE  ProposalInv'
  <2>1. CASE proposal' = proposal
    BY <1>2, <1>5, <2>1
  <2>2. CASE proposal # None /\ proposal' = [proposal EXCEPT !.stale = TRUE, !.streaming = FALSE]
    <3>1. PICK r \in Run : r = proposal.run /\ Invoked(r)
      BY <2>2 DEF ProposalInv, Invoked
    <3>2. proposal'.run = r /\ Invoked(r)'
      BY <2>2, <3>1, <1>5, InvokedStays DEF ProposalInv
    <3>. QED  BY <2>2, <3>1, <3>2 DEF ProposalInv
  <2>. QED  BY <1>5, <2>1, <2>2 DEF ReviewFails
<1>. QED  BY <1>1, <1>2, <1>3, <1>4, <1>5 DEF Next, ReviewNext, Edit, Restore, Dismiss, reviewVars,
              Select, Hide, CancelClick, CancelServed, CancelAnswered, Generate, LogInteraction, StartAction, Retry,
              Begin, TakeNotice, InvokeFails, StreamFails, Catch, Accept, Reject, Send, ServeReview,
              ReviewRead, ReviewWrite, ReviewSucceeds

\* A task that runs or has ended has a source.
LEMMA SourceKept ==
  ASSUME IInv, [Next]_vars
  PROVE  SourceInv'
<1>. SUFFICES ASSUME NEW r \in Run, task'[r] # "none"
              PROVE  /\ pc'[r] \in {"streaming", "done"}
                     /\ source'[r] = [f \in {"text", "state"} |-> source'[r][f]]
  BY DEF SourceInv
<1>. USE DEF IInv, ShapeInv
<1>1. CASE task' = task /\ source' = source
  <2>1. Invoked(r) /\ source[r] = [f \in {"text", "state"} |-> source[r][f]]
    BY <1>1 DEF SourceInv, Invoked
  <2>2. Invoked(r)'
    BY <2>1, InvokedStays DEF vars, toolVars, Invoked
  <2>. QED  BY <1>1, <2>1, <2>2 DEF Invoked
<1>2. ASSUME NEW q \in Run, InvokeAnswers(q)
      PROVE  /\ pc'[r] \in {"streaming", "done"}
             /\ source'[r] = [f \in {"text", "state"} |-> source'[r][f]]
  BY <1>2 DEF InvokeAnswers, SourceInv
<1>3. ASSUME NEW q \in Run, Generate(q) \/ LogInteraction(q)
      PROVE  /\ pc'[r] \in {"streaming", "done"}
             /\ source'[r] = [f \in {"text", "state"} |-> source'[r][f]]
  <2>1. pc' = pc /\ task[q] # "none" /\ (r # q => task'[r] = task[r])
    BY <1>3 DEF Generate, LogInteraction, reviewVars, toolVars, serverVars
  <2>2. pc[r] \in {"streaming", "done"} /\ source[r] = [f \in {"text", "state"} |-> source[r][f]]
    BY <2>1 DEF SourceInv
  <2>3. source' = source \/ source' = [source EXCEPT ![q].state = None]
    BY <1>3 DEF Generate, LogInteraction, reviewVars
  <2>. QED  BY <2>1, <2>2, <2>3
<1>. QED  BY <1>1, <1>2, <1>3 DEF Next, vars, ReviewNext, Edit, Restore, Dismiss, reviewVars, serverVars,
              Select, Hide, CancelClick, CancelServed, CancelAnswered, StartAction, Retry, Begin,
              InvokeFails, ChunkArrives, StreamEnds, StreamFails, Catch, Finally, Accept, Reject, Send,
              ServeReview, ReviewRead, ReviewWrite, ReviewFails, ReviewSucceeds

\* Nothing but a review changes a click, and only an invocation or the failure
\* of a task changes a source.
LEMMA SourceEases ==
  ASSUME IInv, [Next]_vars, NEW r \in Run, Invoked(r)
  PROVE  source'[r].text = source[r].text /\ source'[r].state \in {source[r].state, None}
<1>. USE DEF IInv, ShapeInv
<1>1. CASE source' = source
  BY <1>1
<1>2. ASSUME NEW q \in Run, InvokeAnswers(q)
      PROVE  source'[r] = source[r]
  BY <1>2 DEF InvokeAnswers, Invoked
<1>3. ASSUME NEW q \in Run, Generate(q) \/ LogInteraction(q)
      PROVE  source'[r].text = source[r].text /\ source'[r].state \in {source[r].state, None}
  <2>1. source[q] = [f \in {"text", "state"} |-> source[q][f]]
    BY <1>3 DEF Generate, LogInteraction, SourceInv
  <2>2. source' = source \/ source' = [source EXCEPT ![q].state = None]
    BY <1>3 DEF Generate, LogInteraction, reviewVars
  <2>. QED  BY <2>1, <2>2
<1>. QED  BY <1>1, <1>2, <1>3 DEF Next, vars, ReviewNext, Edit, Restore, Dismiss, reviewVars, serverVars,
              Select, Hide, CancelClick, CancelServed, CancelAnswered, StartAction, Retry, Begin,
              InvokeFails, ChunkArrives, StreamEnds, StreamFails, Catch, Finally, Accept, Reject, Send,
              ServeReview, ReviewRead, ReviewWrite, ReviewFails, ReviewSucceeds

-----------------------------------------------------------------------------
(* The clicks.                                                             *)

\* What ClickInv says of one click.
ClickOK(c) ==
  rpc[c] # "idle" =>
    /\ Invoked(click[c].run)
    /\ click[c] = [f \in DOMAIN NoClick |-> click[c][f]]
    /\ rpc[c] \in {"update", "reviewed"} /\ click[c].action # "reject" =>
         ~Stale(c, source[click[c].run])
    /\ rpc[c] = "applied" => Applies(c) /\ ~Stale(c, source[click[c].run])

\* A click that a step leaves as it was stays fresh.
LEMMA ClickStays ==
  ASSUME IInv, Next, NEW c \in Click, rpc'[c] = rpc[c], click'[c] = click[c]
  PROVE  ClickOK(c)'
<1>. SUFFICES ASSUME rpc[c] # "idle" PROVE ClickOK(c)'
  BY DEF ClickOK
<1>1. ClickOK(c)
  BY DEF IInv, ClickInv, ClickOK
<1>2. PICK r \in Run : r = click[c].run /\ Invoked(r)
  BY <1>1 DEF ClickOK, Invoked
<1>3. /\ Invoked(r)'
      /\ source'[r].text = source[r].text /\ source'[r].state \in {source[r].state, None}
  BY <1>2, InvokedStays, SourceEases DEF IInv
<1>4. ~Stale(c, source[r]) => ~Stale(c, source[r])'
  BY <1>3 DEF Stale
<1>5. Applies(c)' = Applies(c)
  BY DEF Applies
<1>. QED  BY <1>1, <1>2, <1>3, <1>4, <1>5 DEF ClickOK

\* A click is made on the proposal on screen.
LEMMA SentOK ==
  ASSUME IInv, Next, NEW c \in Click, NEW choice, proposal # None, Send(c, proposal, choice)
  PROVE  ClickOK(c)'
<1>1. PICK r \in Run : r = proposal.run /\ Invoked(r)
  BY DEF IInv, ProposalInv, Invoked
<1>2. Invoked(r)'
  BY <1>1, InvokedStays DEF IInv
<1>3. rpc'[c] = "sent" /\ click'[c].run = r
      /\ click'[c] = [f \in DOMAIN NoClick |-> click'[c][f]]
  BY <1>1 DEF IInv, ShapeInv, Send, NoClick
<1>. QED  BY <1>2, <1>3 DEF ClickOK

\* The server compares a click with the source of its task; what it let pass it
\* stores.  The text is put in place only for a click that was let pass.
LEMMA ServedOK ==
  ASSUME IInv, Next, NEW c \in Click, ServeReview(c)
  PROVE  ClickOK(c)'
<1>. USE DEF IInv, ShapeInv
<1>1. ClickOK(c) /\ rpc[c] # "idle"
  BY DEF ClickInv, ClickOK, ServeReview, ReviewRead, ReviewWrite, ReviewFails, ReviewSucceeds
<1>2. PICK r \in Run : r = click[c].run /\ Invoked(r)
  BY <1>1 DEF ClickOK, Invoked
<1>3. Invoked(r)'
  BY <1>2, InvokedStays
<1>4. source' = source
  BY DEF ServeReview, ReviewRead, ReviewWrite, ReviewFails, ReviewSucceeds
<1>5. CASE ReviewRead(c)
  <2>1. click' = click /\ rpc'[c] \in {"refused", "expire", "update"}
    BY <1>5 DEF ReviewRead
  <2>2. rpc'[c] = "update" => ~(Stale(c, source[r]) /\ click[c].action # "reject")
    BY <1>2, <1>5 DEF ReviewRead
  <2>3. Stale(c, source[r])' = Stale(c, source[r])
    BY <1>4, <2>1 DEF Stale
  <2>. QED  BY <1>1, <1>2, <1>3, <1>4, <2>1, <2>2, <2>3 DEF ClickOK
<1>6. CASE ReviewWrite(c)
  <2>1. click' = click /\ rpc'[c] \in {"stale", "reviewed"} /\ (rpc'[c] = "reviewed" => rpc[c] = "update")
    BY <1>6 DEF ReviewWrite
  <2>2. Stale(c, source[r])' = Stale(c, source[r])
    BY <1>4, <2>1 DEF Stale
  <2>. QED  BY <1>1, <1>2, <1>3, <1>4, <2>1, <2>2 DEF ClickOK
<1>7. CASE ReviewFails(c) \/ (ReviewSucceeds(c) /\ rpc'[c] # "applied")
  <2>1. click' = click /\ rpc'[c] \in {"failed", "done"}
    BY <1>7 DEF ReviewFails, ReviewSucceeds
  <2>. QED  BY <1>1, <1>2, <1>3, <2>1 DEF ClickOK
<1>8. CASE ReviewSucceeds(c) /\ rpc'[c] = "applied"
  <2>1. Applies(c) /\ rpc[c] = "reviewed"
    BY <1>8 DEF ReviewSucceeds
  <2>2. \E text : click' = [click EXCEPT ![c].replaced = text]
    BY <1>8 DEF ReviewSucceeds
  <2>3. /\ click'[c] = [f \in DOMAIN NoClick |-> click'[c][f]]
        /\ click'[c].run = r /\ click'[c].action = click[c].action /\ click'[c].kind = click[c].kind
        /\ click'[c].selection = click[c].selection /\ click'[c].state = click[c].state
    BY <1>1, <1>2, <2>2 DEF ClickOK, NoClick
  <2>4. ~Stale(c, source[r]) /\ (Stale(c, source[r])' <=> Stale(c, source[r]))
    BY <1>1, <1>2, <1>4, <2>1, <2>3 DEF ClickOK, Applies, Stale
  <2>5. Applies(c)'
    BY <2>1, <2>3 DEF Applies
  <2>. QED  BY <1>3, <1>4, <1>8, <2>3, <2>4, <2>5 DEF ClickOK
<1>. QED  BY <1>5, <1>6, <1>7, <1>8 DEF ServeReview

\* Each click stays within what the server let pass.
LEMMA ClickKept ==
  ASSUME IInv, [Next]_vars
  PROVE  ClickInv'
<1>. SUFFICES ASSUME NEW c \in Click PROVE ClickOK(c)'
  BY DEF ClickInv, ClickOK
<1>. USE DEF IInv, ShapeInv
<1>1. CASE UNCHANGED vars
  BY <1>1 DEF vars, reviewVars, clickVars, toolVars, ClickInv, ClickOK, Invoked, Stale, Applies
<1>2. CASE Next /\ rpc'[c] = rpc[c] /\ click'[c] = click[c]
  BY <1>2, ClickStays
<1>3. ASSUME Next, NEW k \in Click, Accept(k) \/ Reject(k) \/ ServeReview(k)
      PROVE  ClickOK(c)'
  <2>1. CASE k # c
    <3>1. rpc'[c] = rpc[c] /\ click'[c] = click[c]
      BY <1>3, <2>1 DEF Accept, Reject, Send, ServeReview, ReviewRead, ReviewWrite, ReviewFails,
                        ReviewSucceeds
    <3>. QED  BY <1>2, <1>3, <3>1
  <2>2. CASE k = c /\ ServeReview(c)
    BY <1>3, <2>2, ServedOK
  <2>3. CASE k = c /\ (Accept(c) \/ Reject(c))
    <3>1. PICK choice : Send(c, proposal, choice)
      BY <2>3 DEF Accept, Reject
    <3>2. proposal # None
      BY <2>3 DEF Accept, Reject, CanAccept, CanReject
    <3>. QED  BY <1>3, <3>1, <3>2, SentOK
  <2>. QED  BY <1>3, <2>1, <2>2, <2>3
<1>. QED  BY <1>1, <1>2, <1>3 DEF Next, ReviewNext, Edit, Restore, Dismiss, reviewVars, clickVars,
              Select, Hide, CancelClick, CancelServed, CancelAnswered, StartAction, Retry, Begin,
              InvokeAnswers, InvokeFails, ChunkArrives, StreamEnds, StreamFails, Generate, LogInteraction, Catch, Finally

-----------------------------------------------------------------------------
(* Types.                                                                  *)

\* A selected range and an action on it.
SelectionOK(s) == s.text \in Text /\ s.from \in Nat \ {0} /\ s.to \in Nat
ActionOK(a) == a.kind \in {"read", "write"} /\ SelectionOK(a.selection)

\* What is kept for later is as well typed as what is on screen: the selection
\* while the toolbar shows it, the actions a retry or a cancellation may repeat,
\* the action of each call, and what each click sent, which has a selection only
\* if its range goes forward.
DocTyped == doc \in Text /\ inserts \in Nat /\ edits \in 0 .. MaxEdits
SourceTyped ==
  \A r \in Run : source[r] # None \/ task[r] # "none" => source[r].text \in Text
RowTyped ==
  row \in [Run -> {"none", "pending", "failed", "expired", "accepted", "partial", "rejected"}]
ProposalTyped ==
  proposal # None =>
    /\ proposal.run \in Run /\ proposal.original \in Text /\ proposal.proposed \in Text
    /\ proposal.from \in Nat \ {0} /\ proposal.to \in Nat
ToolTyped ==
  /\ visible \in BOOLEAN /\ (visible => SelectionOK(sel))
  /\ notice # None => ActionOK(notice)
  /\ last # None => ActionOK(last)
CallTyped ==
  /\ call = [r \in Run |-> call[r]]
  /\ \A r \in Run : pc[r] # "idle" => ActionOK(call[r].action)
StreamTyped ==
  /\ sent \in [Run -> 0 .. Pieces] /\ got \in [Run -> 0 .. Pieces]
  /\ \A r \in Run : got[r] <= sent[r]
CancelTyped ==
  /\ loading \in Run \union {None} /\ active \in Run \union {None}
  /\ cpc \in [Cancel -> {"idle", "sent", "ok", "conflict", "done"}]
  /\ ctask \in [Cancel -> Run \union {None}]
  /\ \A k \in Cancel : cpc[k] = "sent" => ctask[k] \in Run
  /\ flagged \subseteq Run
ClickTyped ==
  \A c \in Click : rpc[c] # "idle" =>
    /\ click[c].action \in {"accept", "partial", "reject"}
    /\ click[c].text \in Text /\ click[c].from \in Nat \ {0} /\ click[c].to \in Nat
    /\ click[c].selection # None => click[c].from <= click[c].to
TypeInv ==
  /\ DocTyped /\ SourceTyped /\ RowTyped /\ ProposalTyped /\ ToolTyped
  /\ CallTyped /\ StreamTyped /\ CancelTyped /\ ClickTyped

\* Every part of the state has its type at the start.
LEMMA InitTyped == Init => TypeInv
<1>. SUFFICES ASSUME Init PROVE TypeInv
  OBVIOUS
<1>1. DocTyped /\ SourceTyped /\ RowTyped /\ ProposalTyped
  BY AiReviewAssumption DEF Init, ReviewInit, DocTyped, SourceTyped, RowTyped, ProposalTyped, Text
<1>2. ToolTyped /\ CallTyped /\ CancelTyped /\ ClickTyped
  BY DEF Init, ReviewInit, ToolTyped, CallTyped, CancelTyped, ClickTyped
<1>3. StreamTyped
  BY AiEditorAssumption DEF Init, StreamTyped
<1>. QED  BY <1>1, <1>2, <1>3 DEF TypeInv

-----------------------------------------------------------------------------
\* A range of a document taken out of it, and a text put in its place, are texts.
LEMMA ReplacedType ==
  ASSUME doc \in Text, NEW from \in Nat \ {0}, NEW to \in Nat, from <= Len(doc) + 1,
         NEW text \in Text
  PROVE  Replaced(from, to, text) \in Text
<1>1. SubSeq(doc, 1, from - 1) \in Seq(Sentence) /\ SubSeq(doc, to + 1, Len(doc)) \in Seq(Sentence)
  BY DEF Text
<1>2. SubSeq(doc, 1, from - 1) \o text \in Seq(Sentence)
  BY <1>1, ConcatType DEF Text
<1>. DEFINE front == SubSeq(doc, 1, from - 1) \o text
            back == SubSeq(doc, to + 1, Len(doc))
<1>3. front \in Seq(Sentence) /\ back \in Seq(Sentence)
  BY <1>1, <1>2
<1>. HIDE DEF front, back
<1>4. front \o back \in Seq(Sentence)
  BY <1>3
<1>. QED  BY <1>4 DEF Replaced, Text, front, back

\* serializeRange takes a text from a range that goes forward.
LEMMA SerializeType ==
  ASSUME doc \in Text, NEW from \in Nat \ {0}, NEW to \in Nat, SerializeRange(from, to) # None
  PROVE  from <= to /\ SerializeRange(from, to) \in Text
BY DEF SerializeRange, Text

\* What was read of the stream is the start of the answer.
LEMMA PreviewType ==
  ASSUME NEW n \in 0 .. Pieces
  PROVE  Preview(n) \in Text
<1>1. n * PieceLength \in Nat /\ n * PieceLength <= Len(Proposed) /\ Proposed \in Seq(Sentence)
  BY AiEditorAssumption, AiReviewAssumption
<1>2. ASSUME NEW m \in Nat, m <= Len(Proposed) PROVE SubSeq(Proposed, 1, m) \in Seq(Sentence)
  BY <1>1, <1>2
<1>. QED  BY <1>1, <1>2 DEF Preview, Text

\* Whatever the user toggles, a text is sent.
LEMMA ChosenType ==
  ASSUME NEW s \in Seq(SegmentSet), NEW toggles
  PROVE  AcceptedText(Toggled(s, toggles)) \in Text
<1>. DEFINE t == Toggled(s, toggles)
<1>1. t \in [1 .. Len(s) -> SegmentSet] /\ Len(s) \in Nat
  <2>1. \A g \in SegmentSet : [g EXCEPT !.accepted = ~@] \in SegmentSet
    BY DEF SegmentSet
  <2>2. DOMAIN s = 1 .. Len(s) /\ Len(s) \in Nat /\ \A i \in DOMAIN s : s[i] \in SegmentSet
    OBVIOUS
  <2>3. \A i \in DOMAIN s : [s[i] EXCEPT !.accepted = ~@] \in SegmentSet
    BY <2>1, <2>2
  <2>. QED  BY <2>2, <2>3 DEF Toggled
<1>2. t \in Seq(SegmentSet)
  <2>. HIDE DEF t
  <2>. QED  BY <1>1, FunctionIsSeq
<1>3. AcceptedText(t) = Mapped(KeptNow, t)
  <2>. HIDE DEF t
  <2>. QED  BY <1>2, TogglesKeep
<1>4. Mapped(KeptNow, t) \in Seq(Sentence)
  <2>. HIDE DEF t
  <2>. QED  BY <1>2, KeptType, MappedType
<1>. QED  BY <1>3, <1>4 DEF Text

\* The document.
LEMMA DocKept ==
  ASSUME IInv, TypeInv, [Next]_vars
  PROVE  DocTyped'
<1>. USE DEF TypeInv, DocTyped
<1>1. CASE UNCHANGED docVars
  BY <1>1 DEF docVars
<1>2. CASE Edit
  <2>1. <<Typed>> \in Text /\ <<>> \in Text
    BY AiReviewAssumption DEF Text
  <2>2. ASSUME NEW i \in 1 .. Len(doc) + 1
        PROVE  Replaced(i, i - 1, <<Typed>>) \in Text
    <3>1. Len(doc) \in Nat
      BY DEF Text
    <3>2. i \in Nat \ {0} /\ i - 1 \in Nat /\ i <= Len(doc) + 1
      BY <3>1
    <3>. QED  BY <2>1, <3>2, ReplacedType
  <2>3. ASSUME NEW i \in 1 .. Len(doc)
        PROVE  Replaced(i, i, <<>>) \in Text
    <3>1. Len(doc) \in Nat
      BY DEF Text
    <3>2. i \in Nat \ {0} /\ i \in Nat /\ i <= Len(doc) + 1
      BY <3>1
    <3>. QED  BY <2>1, <3>2, ReplacedType
  <2>4. doc' \in Text
    BY <1>2, <2>2, <2>3 DEF Edit
  <2>5. inserts' \in Nat /\ edits' \in 0 .. MaxEdits
    BY <1>2, AiReviewAssumption DEF Edit
  <2>. QED  BY <2>4, <2>5
<1>3. CASE Restore
  BY <1>3, AiReviewAssumption DEF Restore, Text
<1>4. ASSUME NEW c \in Click, ReviewSucceeds(c)
      PROVE  DocTyped'
  <2>1. CASE UNCHANGED docVars
    BY <1>1, <2>1
  <2>2. CASE Applies(c) /\ click[c].to <= Len(doc) /\ inserts' = inserts + 1 /\ edits' = edits
             /\ doc' = Replaced(click[c].from, click[c].to, click[c].text)
    <3>1. rpc[c] # "idle" /\ click[c].selection # None
      BY <1>4, <2>2 DEF ReviewSucceeds, Applies
    <3>2. /\ click[c].text \in Text /\ click[c].from \in Nat \ {0} /\ click[c].to \in Nat
          /\ click[c].from <= click[c].to
      BY <3>1 DEF ClickTyped
    <3>3. click[c].from <= Len(doc) + 1
      BY <2>2, <3>2 DEF Text
    <3>4. doc' \in Text
      BY <2>2, <3>2, <3>3, ReplacedType
    <3>. QED  BY <2>2, <3>4
  <2>. QED  BY <1>4, <2>1, <2>2 DEF ReviewSucceeds
<1>5. Next \/ UNCHANGED docVars
  BY DEF vars, reviewVars
<1>. QED  BY <1>1, <1>2, <1>3, <1>4, <1>5 DEF Next, ReviewNext, Dismiss, reviewVars,
              Select, Hide, CancelClick, CancelServed, CancelAnswered, StartAction, Retry, Begin,
              InvokeAnswers, InvokeFails, ChunkArrives, StreamEnds, StreamFails, Generate, LogInteraction,
              Accept, Reject, Send, ServeReview, ReviewRead, ReviewWrite, ReviewFails

\* The sources of the tasks.
LEMMA SourceTypeKept ==
  ASSUME IInv, TypeInv, [Next]_vars
  PROVE  SourceTyped'
<1>. USE DEF IInv, ShapeInv, TypeInv, SourceTyped
<1>1. CASE UNCHANGED <<source, task>>
  BY <1>1
<1>2. ASSUME NEW r \in Run, InvokeAnswers(r)
      PROVE  SourceTyped'
  <2>1. call[r].action.selection.text \in Text
    BY <1>2 DEF InvokeAnswers, CallTyped, ActionOK, SelectionOK
  <2>2. source'[r].text \in Text /\ \A q \in Run \ {r} : source'[q] = source[q] /\ task'[q] = task[q]
    BY <1>2, <2>1 DEF InvokeAnswers
  <2>. QED  BY <2>2
<1>3. ASSUME NEW r \in Run, Generate(r) \/ LogInteraction(r)
      PROVE  SourceTyped'
  <2>1. source[r] = [f \in {"text", "state"} |-> source[r][f]] /\ source[r].text \in Text
    BY <1>3 DEF Generate, LogInteraction, SourceInv
  <2>2. source' = source \/ source' = [source EXCEPT ![r].state = None]
    BY <1>3 DEF Generate, LogInteraction, reviewVars
  <2>3. \A q \in Run \ {r} : source'[q] = source[q] /\ task'[q] = task[q]
    BY <1>3, <2>2 DEF Generate, LogInteraction, serverVars
  <2>4. source'[r].text \in Text
    BY <2>1, <2>2
  <2>. QED  BY <2>3, <2>4
<1>. QED  BY <1>1, <1>2, <1>3 DEF Next, vars, ReviewNext, Edit, Restore, Dismiss, reviewVars, serverVars,
              Select, Hide, CancelClick, CancelServed, CancelAnswered, StartAction, Retry, Begin,
              InvokeFails, ChunkArrives, StreamEnds, StreamFails, Catch, Finally, Accept, Reject, Send,
              ServeReview, ReviewRead, ReviewWrite, ReviewFails, ReviewSucceeds

\* The rows.
LEMMA RowKept ==
  ASSUME IInv, TypeInv, [Next]_vars
  PROVE  RowTyped'
<1>. USE DEF TypeInv, RowTyped
<1>1. CASE UNCHANGED row
  BY <1>1
<1>2. ASSUME NEW r \in Run, LogInteraction(r)
      PROVE  RowTyped'
  BY <1>2 DEF LogInteraction
<1>3. ASSUME NEW c \in Click, ReviewWrite(c)
      PROVE  RowTyped'
  <2>1. click[c].action \in {"accept", "partial", "reject"}
    BY <1>3 DEF ReviewWrite, ClickTyped
  <2>2. NextStatus(click[c].action) \in {"accepted", "partial", "rejected"}
    BY <2>1 DEF NextStatus
  <2>. QED  BY <1>3, <2>2 DEF ReviewWrite
<1>. QED  BY <1>1, <1>2, <1>3 DEF Next, vars, ReviewNext, Edit, Restore, Dismiss, reviewVars,
              Select, Hide, CancelClick, CancelServed, CancelAnswered, Generate, StartAction, Retry, Begin,
              InvokeAnswers, InvokeFails, ChunkArrives, StreamEnds, StreamFails, Accept, Reject, Send,
              ServeReview, ReviewRead, ReviewFails, ReviewSucceeds

\* A proposal is built from the action of a call that has begun.
LEMMA ProposalOfType ==
  ASSUME IInv, TypeInv, NEW r \in Run, pc[r] # "idle", NEW text \in Text, NEW streaming,
         proposal' = ProposalOf(r, text, streaming)
  PROVE  ProposalTyped'
<1>1. ActionOK(call[r].action)
  BY DEF TypeInv, CallTyped
<1>. QED  BY <1>1 DEF ProposalOf, ActionOK, SelectionOK, ProposalTyped

\* The proposal on screen.
LEMMA ProposalTypeKept ==
  ASSUME IInv, TypeInv, [Next]_vars
  PROVE  ProposalTyped'
<1>1. CASE proposal' = proposal \/ proposal' = None
  BY <1>1 DEF TypeInv, ProposalTyped
<1>2. ASSUME NEW r \in Run, InvokeAnswers(r) \/ ChunkArrives(r) \/ StreamEnds(r)
      PROVE  ProposalTyped'
  <2>1. pc[r] # "idle"
    BY <1>2 DEF InvokeAnswers, ChunkArrives, StreamEnds, Reading
  <2>2. got[r] \in 0 .. Pieces /\ sent[r] \in 0 .. Pieces /\ Pieces \in Nat
    BY AiEditorAssumption DEF TypeInv, StreamTyped
  <2>3. <<>> \in Text /\ Proposed \in Text
    BY AiReviewAssumption DEF Text
  <2>4. CASE InvokeAnswers(r)
    <3>1. proposal' = ProposalOf(r, <<>>, TRUE)
      BY <2>4 DEF InvokeAnswers
    <3>. QED  BY <2>1, <2>3, <3>1, ProposalOfType
  <2>5. CASE ChunkArrives(r)
    <3>1. got'[r] = got[r] + 1 /\ got[r] < sent[r]
      BY <2>5 DEF ChunkArrives, Reading, TypeInv, StreamTyped
    <3>2. got'[r] \in 0 .. Pieces
      BY <2>2, <3>1
    <3>3. Preview(got'[r]) \in Text
      BY <3>2, PreviewType
    <3>4. proposal' = ProposalOf(r, Preview(got'[r]), TRUE)
      BY <2>5 DEF ChunkArrives
    <3>. QED  BY <2>1, <3>3, <3>4, ProposalOfType
  <2>6. CASE StreamEnds(r)
    <3>1. Preview(got[r]) \in Text
      BY <2>2, PreviewType
    <3>2. PICK text \in {Proposed, Preview(got[r])} : proposal' = ProposalOf(r, text, FALSE)
      BY <2>6 DEF StreamEnds
    <3>. QED  BY <2>1, <2>3, <3>1, <3>2, ProposalOfType
  <2>. QED  BY <1>2, <2>4, <2>5, <2>6
<1>3. ASSUME NEW c \in Click, ReviewFails(c)
      PROVE  ProposalTyped'
  <2>1. CASE proposal # None /\ proposal' = [proposal EXCEPT !.stale = TRUE, !.streaming = FALSE]
    BY <2>1 DEF IInv, ProposalInv, TypeInv, ProposalTyped
  <2>. QED  BY <1>1, <1>3, <2>1 DEF ReviewFails
<1>. QED  BY <1>1, <1>2, <1>3 DEF Next, vars, ReviewNext, Edit, Restore, Dismiss, reviewVars,
              Select, Hide, CancelClick, CancelServed, CancelAnswered, Generate, LogInteraction, StartAction, Retry,
              Begin, TakeNotice, InvokeFails, StreamFails, Catch, Accept, Reject, Send, ServeReview,
              ReviewRead, ReviewWrite, ReviewSucceeds

\* The toolbar: what a retry repeats is an action that was begun.
LEMMA ToolKept ==
  ASSUME IInv, TypeInv, [Next]_vars
  PROVE  ToolTyped'
<1>. USE DEF TypeInv, ToolTyped
<1>1. CASE UNCHANGED <<visible, sel, last>> /\ notice' \in {notice, None}
  BY <1>1
<1>2. CASE Select
  <2>1. PICK range \in Ranges :
          /\ SerializeRange(range[1], range[2]) # None
          /\ sel' = [from |-> range[1], to |-> range[2],
                     text |-> SerializeRange(range[1], range[2])]
    BY <1>2 DEF Select
  <2>2. range[1] \in Nat \ {0} /\ range[2] \in Nat
    BY AiEditorAssumption
  <2>3. SerializeRange(range[1], range[2]) \in Text
    BY <2>1, <2>2, SerializeType DEF DocTyped
  <2>. QED  BY <1>2, <2>1, <2>2, <2>3 DEF Select, SelectionOK, reviewVars
<1>3. ASSUME Hide \/ \E k \in Cancel : CancelAnswered(k)
      PROVE  ToolTyped'
  BY <1>3 DEF Hide, CancelAnswered, reviewVars
<1>4. ASSUME NEW r \in Run, NEW action, ActionOK(action), Begin(r, action)
      PROVE  ToolTyped'
  BY <1>4 DEF Begin, ActionOK
<1>5. ASSUME NEW r \in Run, StartAction(r)
      PROVE  ToolTyped'
  <2>1. PICK kind \in Kinds : Begin(r, [kind |-> kind, selection |-> sel])
    BY <1>5 DEF StartAction
  <2>2. ActionOK([kind |-> kind, selection |-> sel])
    BY <1>5, AiEditorAssumption DEF StartAction, ButtonsEnabled, ActionOK
  <2>. QED  BY <1>4, <2>1, <2>2
<1>6. ASSUME NEW r \in Run, Retry(r)
      PROVE  ToolTyped'
  BY <1>4, <1>6 DEF Retry, TakeNotice
<1>7. ASSUME NEW r \in Run, InvokeFails(r) \/ StreamFails(r)
      PROVE  ToolTyped'
  <2>1. ActionOK(call[r].action)
    BY <1>7 DEF InvokeFails, StreamFails, CallTyped
  <2>. QED  BY <1>7, <2>1 DEF InvokeFails, StreamFails, Catch, BuildAiNotice
<1>8. ASSUME NEW r \in Run, StreamEnds(r)
      PROVE  ToolTyped'
  BY <1>8 DEF StreamEnds
<1>. QED  BY <1>1, <1>2, <1>3, <1>5, <1>6, <1>7, <1>8 DEF Next, vars, ReviewNext, Edit, Restore,
              Dismiss, reviewVars, toolVars, CancelClick, CancelServed, Generate, LogInteraction, InvokeAnswers,
              ChunkArrives, Accept, Reject, Send, ServeReview, ReviewRead, ReviewWrite, ReviewFails,
              ReviewSucceeds

\* The calls.
LEMMA CallKept ==
  ASSUME IInv, TypeInv, [Next]_vars
  PROVE  CallTyped'
<1>. USE DEF IInv, ShapeInv, TypeInv, CallTyped
<1>1. CASE UNCHANGED <<call, pc>>
  BY <1>1
<1>2. ASSUME NEW r \in Run, NEW action, ActionOK(action), Begin(r, action)
      PROVE  CallTyped'
  <2>1. call'[r].action = action /\ \A q \in Run \ {r} : call'[q] = call[q] /\ pc'[q] = pc[q]
    BY <1>2 DEF Begin
  <2>2. call' = [q \in Run |-> call'[q]]
    BY <1>2 DEF Begin
  <2>. QED  BY <1>2, <2>1, <2>2
<1>3. ASSUME NEW r \in Run, StartAction(r)
      PROVE  CallTyped'
  <2>1. PICK kind \in Kinds : Begin(r, [kind |-> kind, selection |-> sel])
    BY <1>3 DEF StartAction
  <2>2. ActionOK([kind |-> kind, selection |-> sel])
    BY <1>3, AiEditorAssumption DEF StartAction, ButtonsEnabled, ActionOK, ToolTyped
  <2>. QED  BY <1>2, <2>1, <2>2
<1>4. ASSUME NEW r \in Run, Retry(r)
      PROVE  CallTyped'
  BY <1>2, <1>4 DEF Retry, TakeNotice, ToolTyped
<1>5. ASSUME NEW r \in Run,
             InvokeAnswers(r) \/ InvokeFails(r) \/ StreamEnds(r) \/ StreamFails(r)
      PROVE  CallTyped'
  <2>1. call' = call /\ pc[r] # "idle" /\ \A q \in Run \ {r} : pc'[q] = pc[q]
    BY <1>5 DEF InvokeAnswers, InvokeFails, StreamEnds, StreamFails, Catch, Finally
  <2>. QED  BY <2>1
<1>. QED  BY <1>1, <1>3, <1>4, <1>5 DEF Next, vars, ReviewNext, Edit, Restore, Dismiss,
              reviewVars, toolVars, Select, Hide, CancelClick, CancelServed, CancelAnswered, Generate, LogInteraction,
              ChunkArrives, Accept, Reject, Send, ServeReview, ReviewRead, ReviewWrite, ReviewFails,
              ReviewSucceeds

\* The streams: a call reads what was sent.
LEMMA StreamKept ==
  ASSUME IInv, TypeInv, [Next]_vars
  PROVE  StreamTyped'
<1>. USE DEF TypeInv, StreamTyped
<1>1. CASE UNCHANGED <<sent, got>>
  BY <1>1
<1>2. ASSUME NEW r \in Run, ChunkArrives(r)
      PROVE  StreamTyped'
  <2>1. sent' = sent /\ got' = [got EXCEPT ![r] = @ + 1] /\ got[r] < sent[r]
    BY <1>2 DEF ChunkArrives, Reading, serverVars
  <2>2. got[r] \in 0 .. Pieces /\ sent[r] \in 0 .. Pieces /\ Pieces \in Nat
    BY AiEditorAssumption
  <2>3. got[r] + 1 \in 0 .. Pieces /\ got[r] + 1 <= sent[r]
    BY <2>1, <2>2
  <2>. QED  BY <2>1, <2>3
<1>3. ASSUME NEW r \in Run, Generate(r)
      PROVE  StreamTyped'
  <2>1. got' = got /\ (sent' = sent \/ (sent[r] < Pieces /\ sent' = [sent EXCEPT ![r] = @ + 1]))
    BY <1>3 DEF Generate, toolVars
  <2>2. got[r] \in 0 .. Pieces /\ sent[r] \in 0 .. Pieces /\ Pieces \in Nat
    BY AiEditorAssumption
  <2>3. sent[r] < Pieces => sent[r] + 1 \in 0 .. Pieces /\ got[r] <= sent[r] + 1
    BY <2>2
  <2>. QED  BY <2>1, <2>3
<1>. QED  BY <1>1, <1>2, <1>3 DEF Next, vars, ReviewNext, Edit, Restore, Dismiss, reviewVars,
              toolVars, serverVars, LogInteraction, Select, Hide, CancelClick, CancelServed, CancelAnswered, StartAction,
              Retry, Begin, InvokeAnswers, InvokeFails, StreamEnds, StreamFails, Catch, Finally, Accept,
              Reject, Send, ServeReview, ReviewRead, ReviewWrite, ReviewFails, ReviewSucceeds

\* The loading state and the cancellation: what is cancelled is a call.
LEMMA CancelKept ==
  ASSUME IInv, TypeInv, [Next]_vars
  PROVE  CancelTyped'
<1>. USE DEF TypeInv, CancelTyped
<1>1. CASE UNCHANGED <<loading, active, cpc, ctask, flagged>>
  BY <1>1
<1>2. ASSUME NEW r \in Run,
             \/ StartAction(r) \/ Retry(r) \/ InvokeAnswers(r) \/ InvokeFails(r)
             \/ StreamEnds(r) \/ StreamFails(r)
      PROVE  CancelTyped'
  <2>1. /\ loading' \in Run \union {None} /\ active' \in Run \union {None}
        /\ UNCHANGED <<flagged, cpc, ctask>>
    BY <1>2 DEF StartAction, Retry, Begin, InvokeAnswers, InvokeFails, StreamEnds, StreamFails,
                Catch, Finally, serverVars, cancelVars
  <2>. QED  BY <2>1
<1>3. ASSUME NEW k \in Cancel, CancelClick(k) PROVE CancelTyped'
  <2>1. active \in Run /\ UNCHANGED <<loading, active, flagged>>
    BY <1>3 DEF CancelClick, CancelShown, toolVars, serverVars
  <2>. QED  BY <1>3, <2>1 DEF CancelClick
<1>4. ASSUME NEW k \in Cancel, CancelServed(k) PROVE CancelTyped'
  <2>1. UNCHANGED <<loading, active, ctask>> /\ flagged' \subseteq Run
    BY <1>4 DEF CancelServed, toolVars
  <2>2. cpc' = [cpc EXCEPT ![k] = "conflict"] \/ cpc' = [cpc EXCEPT ![k] = "ok"]
    BY <1>4 DEF CancelServed
  <2>. QED  BY <2>1, <2>2
<1>5. ASSUME NEW k \in Cancel, CancelAnswered(k) PROVE CancelTyped'
  <2>1. UNCHANGED <<ctask, flagged>> /\ loading' = None /\ active' = None
    BY <1>5 DEF CancelAnswered, serverVars
  <2>. QED  BY <1>5, <2>1 DEF CancelAnswered
<1>. QED  BY <1>1, <1>2, <1>3, <1>4, <1>5 DEF Next, vars, ReviewNext, Edit, Restore, Dismiss,
              reviewVars, toolVars, serverVars, cancelVars, Select, Hide, Generate, LogInteraction, ChunkArrives, Accept,
              Reject, Send, ServeReview, ReviewRead, ReviewWrite, ReviewFails, ReviewSucceeds

\* What ClickTyped says of one click.
ClickTypeOK(c) ==
  rpc[c] # "idle" =>
    /\ click[c].action \in {"accept", "partial", "reject"}
    /\ click[c].text \in Text /\ click[c].from \in Nat \ {0} /\ click[c].to \in Nat
    /\ click[c].selection # None => click[c].from <= click[c].to

\* A click sends a text the panel offers, at the range of the proposal.
LEMMA SentTyped ==
  ASSUME IInv, TypeInv, NEW c \in Click, Accept(c) \/ Reject(c)
  PROVE  ClickTypeOK(c)'
<1>1. proposal # None
  BY DEF Accept, Reject, CanAccept, CanReject
<1>2. /\ proposal.original \in Text /\ proposal.proposed \in Text
      /\ proposal.from \in Nat \ {0} /\ proposal.to \in Nat
  BY <1>1 DEF TypeInv, ProposalTyped
<1>. DEFINE s == ComputeDiffSegments(proposal.original, proposal.proposed)
<1>3. PICK choice :
        /\ Send(c, proposal, choice)
        /\ choice.action \in {"accept", "partial", "reject"} /\ choice.text \in Text
  <2>1. CASE Reject(c)
    <3>. DEFINE none == [text |-> <<>>, action |-> "reject"]
    <3>1. Send(c, proposal, none)
      BY <2>1 DEF Reject
    <3>2. none.action \in {"accept", "partial", "reject"} /\ none.text \in Text
      BY DEF Text
    <3>. HIDE DEF none
    <3>. QED  BY <3>1, <3>2
  <2>2. ASSUME NEW toggles
        PROVE  /\ ChosenByToggles(proposal, toggles).action \in {"accept", "partial"}
               /\ ChosenByToggles(proposal, toggles).text \in Text
    <3>1. s \in Seq(SegmentSet)
      BY <1>2, DiffKeepsBoth
    <3>2. AcceptedText(Toggled(s, toggles)) \in Text
      <4>. HIDE DEF s
      <4>. QED  BY <3>1, ChosenType
    <3>. QED  BY <3>2 DEF ChosenByToggles
  <2>3. ASSUME NEW draft \in {proposal.proposed, <<Typed>>}
        PROVE  /\ ChosenByDraft(proposal, draft).action \in {"accept", "partial"}
               /\ ChosenByDraft(proposal, draft).text \in Text
    <3>1. <<Typed>> \in Text
      BY AiReviewAssumption DEF Text
    <3>2. draft \in Text
      BY <1>2, <3>1
    <3>. QED  BY <3>2 DEF ChosenByDraft
  <2>4. CASE Accept(c)
    <3>1. CASE Send(c, proposal, [text |-> proposal.proposed, action |-> "accept"])
      BY <1>2, <3>1
    <3>2. CASE \E toggles : Send(c, proposal, ChosenByToggles(proposal, toggles))
      BY <2>2, <3>2
    <3>3. CASE \E draft \in {proposal.proposed, <<Typed>>} :
                 Send(c, proposal, ChosenByDraft(proposal, draft))
      BY <2>3, <3>3
    <3>. QED  BY <2>4, <3>1, <3>2, <3>3 DEF Accept
  <2>. QED  BY <2>1, <2>4
<1>4. /\ click'[c].action = choice.action /\ click'[c].text = choice.text
      /\ click'[c].from = proposal.from /\ click'[c].to = proposal.to
      /\ click'[c].selection = SerializeRange(proposal.from, proposal.to)
  BY <1>3 DEF IInv, ShapeInv, Send
<1>5. SerializeRange(proposal.from, proposal.to) # None => proposal.from <= proposal.to
  BY <1>2, SerializeType DEF TypeInv, DocTyped
<1>. QED  BY <1>2, <1>3, <1>4, <1>5 DEF ClickTypeOK

\* The clicks.
LEMMA ClickTypeKept ==
  ASSUME IInv, TypeInv, [Next]_vars
  PROVE  ClickTyped'
<1>. SUFFICES ASSUME NEW c \in Click PROVE ClickTypeOK(c)'
  BY DEF ClickTyped, ClickTypeOK
<1>1. ClickTypeOK(c)
  BY DEF TypeInv, ClickTyped, ClickTypeOK
<1>2. CASE click'[c] = click[c] /\ (rpc[c] = "idle" => rpc'[c] = "idle")
  BY <1>1, <1>2 DEF ClickTypeOK
<1>3. ASSUME NEW k \in Click, Accept(k) \/ Reject(k)
      PROVE  ClickTypeOK(c)'
  <2>1. CASE k = c
    BY <1>3, <2>1, SentTyped
  <2>2. CASE k # c
    BY <1>2, <1>3, <2>2 DEF IInv, ShapeInv, Accept, Reject, Send
  <2>. QED  BY <2>1, <2>2
<1>4. ASSUME NEW k \in Click, ReviewRead(k) \/ ReviewWrite(k) \/ ReviewFails(k)
      PROVE  ClickTypeOK(c)'
  BY <1>2, <1>4 DEF IInv, ShapeInv, ReviewRead, ReviewWrite, ReviewFails
<1>5. ASSUME NEW k \in Click, ReviewSucceeds(k)
      PROVE  ClickTypeOK(c)'
  <2>1. rpc[k] = "reviewed" /\ rpc'[c] = (IF c = k THEN rpc'[k] ELSE rpc[c])
    BY <1>5 DEF IInv, ShapeInv, ReviewSucceeds
  <2>2. \/ click' = click
        \/ \E text : click' = [click EXCEPT ![k].replaced = text]
    BY <1>5 DEF ReviewSucceeds
  <2>3. CASE click' = click \/ c # k
    <3>1. click'[c] = click[c]
      BY <2>2, <2>3 DEF IInv, ShapeInv
    <3>. QED  BY <1>2, <2>1, <3>1
  <2>4. CASE c = k /\ \E text : click' = [click EXCEPT ![k].replaced = text]
    <3>1. click[c] = [f \in DOMAIN NoClick |-> click[c][f]]
      BY <2>1, <2>4 DEF IInv, ClickInv
    <3>2. /\ click'[c].action = click[c].action /\ click'[c].text = click[c].text
          /\ click'[c].from = click[c].from /\ click'[c].to = click[c].to
          /\ click'[c].selection = click[c].selection
      BY <2>4, <3>1 DEF IInv, ShapeInv, NoClick
    <3>. QED  BY <1>1, <2>1, <2>4, <3>2 DEF ClickTypeOK
  <2>. QED  BY <2>2, <2>3, <2>4
<1>. QED  BY <1>2, <1>3, <1>4, <1>5 DEF Next, vars, ReviewNext, Edit, Restore, Dismiss, reviewVars,
              clickVars, ServeReview, Select, Hide, CancelClick, CancelServed, CancelAnswered,
              StartAction, Retry, Begin, InvokeAnswers, InvokeFails, ChunkArrives, StreamEnds,
              StreamFails, Generate, LogInteraction, Catch, Finally

-----------------------------------------------------------------------------
\* Every step keeps both invariants.
LEMMA StepKept ==
  ASSUME IInv, TypeInv, [Next]_vars
  PROVE  IInv' /\ TypeInv'
<1>1. IInv'
  BY ShapeKept, ProposalKept, SourceKept, ClickKept DEF IInv
<1>2. TypeInv'
  BY DocKept, SourceTypeKept, RowKept, ProposalTypeKept, ToolKept, CallKept, StreamKept,
     CancelKept, ClickTypeKept DEF TypeInv
<1>. QED  BY <1>1, <1>2

\* They hold in every reachable state.
THEOREM Invariance == Spec => [](IInv /\ TypeInv)
<1>1. (IInv /\ TypeInv) /\ [Next]_vars => (IInv /\ TypeInv)'
  BY StepKept
<1>. QED  BY <1>1, InitOK, InitTyped, PTL DEF Spec

\* The types of the document, the proposal on screen, the tasks, the calls of the
\* toolbar and the clicks, whatever calls, clicks and cancellations overlap: in
\* particular the text put in place is always a text, and nobody reads more of a
\* stream than was sent.
THEOREM TypeCorrect == Spec => []TypeOK
<1>1. IInv /\ TypeInv => TypeOK
  <2>. SUFFICES ASSUME IInv, TypeInv PROVE TypeOK
    OBVIOUS
  <2>1. \A r \in Run : got[r] <= sent[r] /\ sent[r] <= Pieces
    BY AiEditorAssumption DEF TypeInv, StreamTyped
  <2>. QED  BY <2>1 DEF IInv, ShapeInv, ClickState, TypeInv, DocTyped, SourceTyped, RowTyped,
                ProposalTyped, ToolTyped, CancelTyped, TypeOK
<1>. QED  BY <1>1, Invariance, PTL

\* Whatever the two texts are, what the panel sends with no toggle is the whole
\* proposal, as "accept", and with every changed sentence toggled the original.
THEOREM PanelKeepsBothTexts == Spec => []PanelKeepsBoth
BY TypeCorrect, PanelKeeps, PTL

\* A proposal changes the document only if, when the user clicked Accept, the
\* text at its anchors was the one its task was invoked with and nothing had
\* been inserted since, or the task kept no state vector.
THEOREM AppliedWasFresh == Spec => []FreshWhenAccepted
<1>1. IInv => FreshWhenAccepted
  BY DEF IInv, ClickInv, Applies, Stale, FreshWhenAccepted
<1>. QED  BY <1>1, Invariance, PTL

-----------------------------------------------------------------------------
(* Loops as functions of their rounds, and lists cut in two.               *)

\* A set of numbers has a least one.
LEMMA LeastNumber ==
  ASSUME NEW N \in SUBSET Nat, N # {}
  PROVE  \E m \in N : \A n \in N : m <= n
<1>1. PICK m \in N : \A n \in N : ~ (<<n, m>> \in OpToRel(<, Nat))
  BY NatLessThanWellFounded, WFMin, Zenon
<1>2. \A n \in N : ~(n < m)
  BY <1>1, Zenon DEF OpToRel
<1>. QED  BY <1>2

\* The rounds of a loop, one step each.
Rounds(g, n, x, step) ==
  /\ g[0] = x
  /\ \A i \in 1 .. n : g[i] = step[i][g[i - 1]]

\* Every loop has its rounds.
LEMMA RoundsExist ==
  ASSUME NEW S, NEW n \in Nat, NEW x \in S, NEW step \in [1 .. n -> [S -> S]]
  PROVE  \E g \in [0 .. n -> S] : Rounds(g, n, x, step)
<1>. DEFINE Q == {k \in Nat : k <= n => \E g \in [0 .. k -> S] : Rounds(g, k, x, step)}
<1>1. 0 \in Q
  <2>. DEFINE g == [i \in 0 .. 0 |-> x]
  <2>1. g \in [0 .. 0 -> S] /\ Rounds(g, 0, x, step)
    BY DEF Rounds
  <2>. QED  BY <2>1
<1>2. ASSUME NEW k \in Nat, k \in Q PROVE k + 1 \in Q
  <2>. SUFFICES ASSUME k + 1 <= n
                PROVE  \E g \in [0 .. k + 1 -> S] : Rounds(g, k + 1, x, step)
    OBVIOUS
  <2>1. PICK f \in [0 .. k -> S] : Rounds(f, k, x, step)
    BY <1>2
  <2>. DEFINE g == [i \in 0 .. k + 1 |-> IF i <= k THEN f[i] ELSE step[k + 1][f[k]]]
  <2>2. step[k + 1] \in [S -> S] /\ f[k] \in S
    OBVIOUS
  <2>3. step[k + 1][f[k]] \in S
    BY <2>2
  <2>4. g \in [0 .. k + 1 -> S]
    BY <2>3
  <2>5. g[0] = x
    BY <2>1 DEF Rounds
  <2>6. ASSUME NEW i \in 1 .. k PROVE g[i] = step[i][g[i - 1]]
    <3>1. i \in 0 .. k + 1 /\ i - 1 \in 0 .. k + 1 /\ i <= k /\ i - 1 <= k
      OBVIOUS
    <3>2. f[i] = step[i][f[i - 1]]
      BY <2>1 DEF Rounds
    <3>3. g[i] = f[i] /\ g[i - 1] = f[i - 1]
      BY <3>1
    <3>. HIDE DEF g
    <3>. QED  BY <3>2, <3>3
  <2>7. g[k + 1] = step[k + 1][g[(k + 1) - 1]]
    <3>1. k + 1 \in 0 .. k + 1 /\ ~(k + 1 <= k) /\ k \in 0 .. k + 1 /\ (k + 1) - 1 = k
      OBVIOUS
    <3>2. g[k + 1] = step[k + 1][f[k]] /\ g[k] = f[k]
      BY <3>1
    <3>. HIDE DEF g
    <3>. QED  BY <3>1, <3>2
  <2>8. \A i \in 1 .. k + 1 : i \in 1 .. k \/ i = k + 1
    OBVIOUS
  <2>. HIDE DEF g
  <2>9. \A i \in 1 .. k + 1 : g[i] = step[i][g[i - 1]]
    BY <2>6, <2>7, <2>8
  <2>. QED  BY <2>4, <2>5, <2>9 DEF Rounds
<1>3. n \in Q
  <2>. HIDE DEF Q
  <2>. QED  BY <1>1, <1>2, SetInduction
<1>. QED  BY <1>3

\* A sequence and its end.
LEMMA AppendFacts ==
  ASSUME NEW S, NEW s \in Seq(S), NEW e \in S
  PROVE  /\ Append(s, e) \in Seq(S) /\ Len(Append(s, e)) = Len(s) + 1 /\ Append(s, e) # <<>>
         /\ DOMAIN Append(s, e) = 1 .. Len(s) + 1 /\ DOMAIN s = 1 .. Len(s) /\ Len(s) \in Nat
         /\ Append(s, e)[Len(s) + 1] = e /\ \A i \in 1 .. Len(s) : Append(s, e)[i] = s[i]
OBVIOUS

\* A sequence cut in two.
LEMMA SplitSeq ==
  ASSUME NEW S, NEW s \in Seq(S), NEW p \in 0 .. Len(s)
  PROVE  /\ SubSeq(s, 1, p) \in Seq(S) /\ SubSeq(s, p + 1, Len(s)) \in Seq(S)
         /\ Len(SubSeq(s, 1, p)) = p /\ Len(SubSeq(s, p + 1, Len(s))) = Len(s) - p
         /\ s = SubSeq(s, 1, p) \o SubSeq(s, p + 1, Len(s))
<1>1. SubSeq(s, 1, p) \in Seq(S) /\ Len(SubSeq(s, 1, p)) = p
  OBVIOUS
<1>2. SubSeq(s, p + 1, Len(s)) \in Seq(S) /\ Len(SubSeq(s, p + 1, Len(s))) = Len(s) - p
  OBVIOUS
<1>3. s = SubSeq(s, 1, p) \o SubSeq(s, p + 1, Len(s))
  <2>. DEFINE u == SubSeq(s, 1, p)
              v == SubSeq(s, p + 1, Len(s))
  <2>1. Len(s) \in Nat /\ p \in Nat /\ p <= Len(s)
    OBVIOUS
  <2>2. (\A i \in 1 .. p : u[i] = s[i]) /\ \A i \in 1 .. Len(s) - p : v[i] = s[p + i]
    OBVIOUS
  <2>3. u \in Seq(S) /\ Len(u) = p /\ v \in Seq(S) /\ Len(v) = Len(s) - p
    BY <1>1, <1>2
  <2>. HIDE DEF u, v
  <2>4. u \o v \in Seq(S) /\ Len(u \o v) = Len(s)
    BY <2>1, <2>3
  <2>5. ASSUME NEW i \in 1 .. Len(s) PROVE (u \o v)[i] = s[i]
    <3>1. CASE i <= p
      BY <2>1, <2>2, <2>3, <3>1
    <3>2. CASE ~(i <= p)
      <4>1. (u \o v)[i] = v[i - p] /\ i - p \in 1 .. Len(s) - p /\ p + (i - p) = i
        BY <2>1, <2>3, <3>2
      <4>2. v[i - p] = s[p + (i - p)]
        BY <2>2, <4>1
      <4>. QED  BY <4>1, <4>2
    <3>. QED  BY <2>1, <3>1, <3>2
  <2>6. u \o v = s
    BY <2>4, <2>5, SeqEqual
  <2>. QED  BY <2>6 DEF u, v
<1>. QED  BY <1>1, <1>2, <1>3

\* A list cut in two is joined from its parts.
LEMMA FlattenSplit ==
  ASSUME NEW S, NEW s \in Seq(Seq(S)), NEW p \in 0 .. Len(s)
  PROVE  FlattenSeq(s) = FlattenSeq(SubSeq(s, 1, p)) \o FlattenSeq(SubSeq(s, p + 1, Len(s)))
<1>1. /\ SubSeq(s, 1, p) \in Seq(Seq(S)) /\ SubSeq(s, p + 1, Len(s)) \in Seq(Seq(S))
      /\ s = SubSeq(s, 1, p) \o SubSeq(s, p + 1, Len(s))
  BY SplitSeq
<1>2. \A a, b \in Seq(Seq(S)) : FlattenSeq(a \o b) = FlattenSeq(a) \o FlattenSeq(b)
  BY FlattenConcat
<1>. QED  BY <1>1, <1>2

\* Nothing comes of empty parts.
LEMMA FlattenNone ==
  ASSUME NEW S, NEW s \in Seq(Seq(S)), \A i \in DOMAIN s : s[i] = <<>>
  PROVE  FlattenSeq(s) = <<>>
<1>. DEFINE Q == {u \in Seq(Seq(S)) : (\A i \in DOMAIN u : u[i] = <<>>) => FlattenSeq(u) = <<>>}
<1>1. <<>> \in Q
  BY FlattenEmpty
<1>2. ASSUME NEW u \in Seq(Seq(S)), NEW e \in Seq(S), u \in Q
      PROVE  Append(u, e) \in Q
  <2>0. Append(u, e) \in Seq(Seq(S))
    BY AppendFacts
  <2>. SUFFICES ASSUME \A i \in DOMAIN Append(u, e) : Append(u, e)[i] = <<>>
                PROVE  FlattenSeq(Append(u, e)) = <<>>
    BY <2>0
  <2>1. e = <<>> /\ \A i \in DOMAIN u : u[i] = <<>>
    <3>. DEFINE w == Append(u, e)
    <3>1. /\ DOMAIN w = 1 .. Len(u) + 1 /\ DOMAIN u = 1 .. Len(u) /\ Len(u) \in Nat
          /\ w[Len(u) + 1] = e /\ \A i \in 1 .. Len(u) : w[i] = u[i]
      BY AppendFacts
    <3>2. \A i \in DOMAIN w : w[i] = <<>>
      OBVIOUS
    <3>. HIDE DEF w
    <3>. QED  BY <3>1, <3>2
  <2>2. FlattenSeq(u) = <<>>
    BY <1>2, <2>1
  <2>3. FlattenSeq(Append(u, e)) = FlattenSeq(u) \o e
    BY FlattenAppend
  <2>. QED  BY <2>1, <2>2, <2>3
<1>3. Seq(Seq(S)) \subseteq Q
  <2>. HIDE DEF Q
  <2>. QED  BY <1>1, <1>2, SeqInductionSet
<1>. QED  BY <1>3

\* Mapping what is joined is joining what each part maps to.
LEMMA MappedFlatten ==
  ASSUME NEW S, NEW T, NEW out \in [S -> Seq(T)]
  PROVE  \A s \in Seq(Seq(S)) :
           Mapped(out, FlattenSeq(s)) = FlattenSeq([i \in DOMAIN s |-> Mapped(out, s[i])])
<1>0. Joins(out, S) /\ \A u \in Seq(S) : Mapped(out, u) \in Seq(T)
  BY MappedConcat, MappedType
<1>. DEFINE Parts(s) == [i \in DOMAIN s |-> Mapped(out, s[i])]
            Q == {s \in Seq(Seq(S)) : Mapped(out, FlattenSeq(s)) = FlattenSeq(Parts(s))}
<1>1. <<>> \in Q
  <2>1. Parts(<<>>) = <<>>
    OBVIOUS
  <2>2. Mapped(out, <<>>) = <<>>
    BY FlattenEmpty DEF Mapped
  <2>. QED  BY <2>1, <2>2, FlattenEmpty
<1>2. ASSUME NEW s \in Seq(Seq(S)), NEW e \in Seq(S), s \in Q
      PROVE  Append(s, e) \in Q
  <2>1. FlattenSeq(Append(s, e)) = FlattenSeq(s) \o e
    BY FlattenAppend
  <2>2. FlattenSeq(s) \in Seq(S)
    BY FlattenType
  <2>3. Mapped(out, FlattenSeq(s) \o e) = Mapped(out, FlattenSeq(s)) \o Mapped(out, e)
    BY <1>0, <2>2 DEF Joins
  <2>4. Parts(s) \in Seq(Seq(T)) /\ Mapped(out, e) \in Seq(T)
    <3>1. Len(s) \in Nat /\ Parts(s) \in [1 .. Len(s) -> Seq(T)]
      BY <1>0
    <3>. HIDE DEF Parts
    <3>. QED  BY <1>0, <3>1, FunctionIsSeq
  <2>5. Parts(Append(s, e)) = Append(Parts(s), Mapped(out, e))
    <3>. DEFINE u == Append(s, e)
                m == Mapped(out, e)
    <3>1. DOMAIN u = 1 .. Len(s) + 1 /\ u[Len(s) + 1] = e /\ \A i \in 1 .. Len(s) : u[i] = s[i]
      OBVIOUS
    <3>2. Len(s) \in Nat /\ DOMAIN Parts(s) = 1 .. Len(s)
          /\ \A i \in 1 .. Len(s) : Parts(s)[i] = Mapped(out, s[i])
      OBVIOUS
    <3>3. DOMAIN Parts(u) = 1 .. Len(s) + 1 /\ \A i \in 1 .. Len(s) + 1 : Parts(u)[i] = Mapped(out, u[i])
      BY <3>1
    <3>4. Parts(u) \in [1 .. Len(s) + 1 -> Seq(T)]
      <4>1. u \in Seq(Seq(S))
        OBVIOUS
      <4>. QED  BY <1>0, <3>1, <4>1
    <3>. HIDE DEF u, m, Parts
    <3>5. Len(Parts(s)) = Len(s)
      BY <2>4, <3>2
    <3>6. Len(s) + 1 \in Nat
      BY <3>2
    <3>7. Parts(u) \in Seq(Seq(T)) /\ Len(Parts(u)) = Len(s) + 1
      BY <3>4, <3>6, FunctionIsSeq
    <3>8. m \in Seq(T)
      BY <2>4 DEF m
    <3>9. Append(Parts(s), m) \in Seq(Seq(T)) /\ Len(Append(Parts(s), m)) = Len(s) + 1
      BY <2>4, <3>5, <3>8
    <3>10. ASSUME NEW i \in 1 .. Len(s) + 1 PROVE Parts(u)[i] = Append(Parts(s), m)[i]
      <4>1. CASE i \in 1 .. Len(s)
        <5>1. Append(Parts(s), m)[i] = Parts(s)[i]
          BY <2>4, <3>5, <4>1
        <5>. QED  BY <3>1, <3>2, <3>3, <4>1, <5>1
      <4>2. CASE i = Len(s) + 1
        <5>1. Append(Parts(s), m)[i] = m
          BY <2>4, <3>5, <4>2
        <5>. QED  BY <3>1, <3>3, <4>2, <5>1 DEF m
      <4>. QED  BY <3>2, <4>1, <4>2
    <3>11. Parts(u) = Append(Parts(s), m)
      BY <3>6, <3>7, <3>9, <3>10, SeqEqual
    <3>. QED  BY <3>11 DEF u, m
  <2>6. FlattenSeq(Append(Parts(s), Mapped(out, e))) = FlattenSeq(Parts(s)) \o Mapped(out, e)
    <3>. HIDE DEF Parts
    <3>. QED  BY <2>4, FlattenAppend
  <2>7. Append(s, e) \in Seq(Seq(S))
    OBVIOUS
  <2>8. Mapped(out, FlattenSeq(s)) = FlattenSeq(Parts(s))
    BY <1>2
  <2>. HIDE DEF Parts
  <2>. QED  BY <2>1, <2>3, <2>5, <2>6, <2>7, <2>8
<1>3. Seq(Seq(S)) \subseteq Q
  <2>. HIDE DEF Q
  <2>. QED  BY <1>1, <1>2, SeqInductionSet
<1>. QED  BY <1>3

-----------------------------------------------------------------------------
(* Texts: what normalizeText keeps of them, and where a match ends.        *)

\* A letter is kept, any other character is not.
LetterOf == [c \in Char |-> IF c \in Letter THEN <<c>> ELSE <<>>]

\* The letters of a text, part by part.
LEMMA LettersMapped ==
  /\ LetterOf \in [Char -> Seq(Letter)]
  /\ \A t \in Seq(Char) : Letters(t) = Mapped(LetterOf, t)
<1>1. LetterOf \in [Char -> Seq(Letter)]
  BY DEF LetterOf
<1>2. ASSUME NEW t \in Seq(Char) PROVE Letters(t) = Mapped(LetterOf, t)
  <2>1. \A i \in DOMAIN t : t[i] \in Char
    OBVIOUS
  <2>2. [i \in DOMAIN t |-> IF t[i] \in Letter THEN <<t[i]>> ELSE <<>>] = [i \in DOMAIN t |-> LetterOf[t[i]]]
    BY <2>1 DEF LetterOf
  <2>. QED  BY <2>2 DEF Letters, Mapped
<1>. QED  BY <1>1, <1>2

\* The letters of two texts and of many.
LEMMA LettersJoin ==
  /\ \A t \in Seq(Char) : Letters(t) \in Seq(Letter)
  /\ \A s, t \in Seq(Char) : Letters(s \o t) = Letters(s) \o Letters(t)
  /\ \A s \in Seq(Seq(Char)) : Letters(FlattenSeq(s)) = FlattenSeq([i \in DOMAIN s |-> Letters(s[i])])
<1>1. \A t \in Seq(Char) : Letters(t) \in Seq(Letter)
  BY LettersMapped, MappedType
<1>2. ASSUME NEW s \in Seq(Char), NEW t \in Seq(Char)
      PROVE  Letters(s \o t) = Letters(s) \o Letters(t)
  <2>1. Joins(LetterOf, Char)
    BY LettersMapped, MappedConcat
  <2>2. s \o t \in Seq(Char)
    OBVIOUS
  <2>3. Mapped(LetterOf, s \o t) = Mapped(LetterOf, s) \o Mapped(LetterOf, t)
    BY <2>1 DEF Joins
  <2>. QED  BY <2>2, <2>3, LettersMapped
<1>3. ASSUME NEW s \in Seq(Seq(Char))
      PROVE  Letters(FlattenSeq(s)) = FlattenSeq([i \in DOMAIN s |-> Letters(s[i])])
  <2>1. Mapped(LetterOf, FlattenSeq(s)) = FlattenSeq([i \in DOMAIN s |-> Mapped(LetterOf, s[i])])
    BY LettersMapped, MappedFlatten
  <2>2. \A i \in DOMAIN s : s[i] \in Seq(Char)
    OBVIOUS
  <2>3. [i \in DOMAIN s |-> Mapped(LetterOf, s[i])] = [i \in DOMAIN s |-> Letters(s[i])]
    BY <2>2, LettersMapped
  <2>4. FlattenSeq(s) \in Seq(Char)
    BY FlattenType
  <2>. QED  BY <2>1, <2>3, <2>4, LettersMapped
<1>. QED  BY <1>1, <1>2, <1>3

\* A text without letters.
LEMMA LettersNone ==
  ASSUME NEW t \in Seq(Char), \A i \in DOMAIN t : t[i] \notin Letter
  PROVE  Letters(t) = <<>>
<1>. DEFINE s == [i \in DOMAIN t |-> IF t[i] \in Letter THEN <<t[i]>> ELSE <<>>]
<1>1. s \in [1 .. Len(t) -> Seq(Letter)] /\ Len(t) \in Nat /\ \A i \in DOMAIN s : s[i] = <<>>
  OBVIOUS
<1>2. FlattenSeq(s) = <<>>
  <2>. HIDE DEF s
  <2>1. s \in Seq(Seq(Letter))
    BY <1>1, FunctionIsSeq
  <2>. QED  BY <1>1, <2>1, FlattenNone
<1>. QED  BY <1>2 DEF Letters

\* normalizeText keeps the character at i, where something solid may follow the
\* text.
Stays(t, i, more) ==
  \/ ~IsSpace(t[i])
  \/ i > 1 /\ ~IsSpace(t[i - 1]) /\ (more \/ \E j \in i .. Len(t) : ~IsSpace(t[j]))
PartsOf(t, more) == [i \in DOMAIN t |-> IF Stays(t, i, more) THEN <<t[i]>> ELSE <<>>]

\* The parts normalizeText joins are texts, one for each character.
LEMMA PartsType ==
  ASSUME NEW t \in Seq(Char), NEW more \in BOOLEAN
  PROVE  /\ PartsOf(t, more) \in Seq(Seq(Char)) /\ Len(PartsOf(t, more)) = Len(t)
         /\ DOMAIN PartsOf(t, more) = DOMAIN t
         /\ NormalizeText(t) = FlattenSeq(PartsOf(t, FALSE))
         /\ NormalizeText(t) \in Seq(Char)
<1>0. Len(t) \in Nat /\ DOMAIN t = 1 .. Len(t)
  OBVIOUS
<1>1. PartsOf(t, more) \in [1 .. Len(t) -> Seq(Char)] /\ PartsOf(t, FALSE) \in [1 .. Len(t) -> Seq(Char)]
      /\ Len(t) \in Nat
  <2>1. \A i \in 1 .. Len(t) : <<t[i]>> \in Seq(Char)
    OBVIOUS
  <2>2. <<>> \in Seq(Char)
    OBVIOUS
  <2>3. ASSUME NEW b \in BOOLEAN PROVE PartsOf(t, b) \in [1 .. Len(t) -> Seq(Char)]
    BY <1>0, <2>1, <2>2, Zenon DEF PartsOf
  <2>. QED  BY <1>0, <2>3
<1>2. /\ PartsOf(t, more) \in Seq(Seq(Char)) /\ Len(PartsOf(t, more)) = Len(t)
      /\ PartsOf(t, FALSE) \in Seq(Seq(Char))
  BY <1>1, FunctionIsSeq
<1>3. NormalizeText(t) = FlattenSeq(PartsOf(t, FALSE))
  BY DEF NormalizeText, PartsOf, Stays
<1>. QED  BY <1>2, <1>3, FlattenType DEF PartsOf

\* normalizeText keeps the letters.
LEMMA NormalizeLetters ==
  ASSUME NEW t \in Seq(Char)
  PROVE  Letters(NormalizeText(t)) = Letters(t)
<1>. DEFINE s == PartsOf(t, FALSE)
<1>1. s \in Seq(Seq(Char)) /\ NormalizeText(t) = FlattenSeq(s)
  BY PartsType
<1>2. ASSUME NEW i \in DOMAIN s
      PROVE  Letters(s[i]) = IF t[i] \in Letter THEN <<t[i]>> ELSE <<>>
  <2>1. s[i] = (IF Stays(t, i, FALSE) THEN <<t[i]>> ELSE <<>>) /\ t[i] \in Char
    BY DEF PartsOf
  <2>2. t[i] \in Letter => Stays(t, i, FALSE)
    BY PlainTextAssumption DEF Stays, IsSpace
  <2>3. Letters(<<>>) = <<>>
    BY FlattenEmpty DEF Letters
  <2>4. Letters(<<t[i]>>) = IF t[i] \in Letter THEN <<t[i]>> ELSE <<>>
    <3>1. Mapped(LetterOf, <<t[i]>>) = LetterOf[t[i]]
      BY <2>1, LettersMapped, MappedOne
    <3>2. <<t[i]>> \in Seq(Char)
      BY <2>1
    <3>. QED  BY <2>1, <3>1, <3>2, LettersMapped DEF LetterOf
  <2>. QED  BY <2>1, <2>2, <2>3, <2>4
<1>3. Letters(FlattenSeq(s)) = FlattenSeq([i \in DOMAIN s |-> Letters(s[i])])
  <2>. HIDE DEF s
  <2>. QED  BY <1>1, LettersJoin
<1>4. [i \in DOMAIN s |-> Letters(s[i])] = [i \in DOMAIN t |-> IF t[i] \in Letter THEN <<t[i]>> ELSE <<>>]
  <2>1. DOMAIN s = DOMAIN t
    BY DEF PartsOf
  <2>. HIDE DEF s
  <2>. QED  BY <1>2, <2>1
<1>. QED  BY <1>1, <1>3, <1>4 DEF Letters

-----------------------------------------------------------------------------
\* Where a character of C is found.
LEMMA FirstFacts ==
  ASSUME NEW S, NEW t \in Seq(S), NEW i \in 1 .. Len(t) + 1, NEW C
  PROVE  /\ First(t, i, C) \in i .. Len(t) + 1
         /\ First(t, i, C) <= Len(t) => t[First(t, i, C)] \in C
         /\ \A k \in i .. First(t, i, C) - 1 : t[k] \notin C
<1>. DEFINE N == {j \in i .. Len(t) + 1 : j <= Len(t) => t[j] \in C}
<1>1. N \in SUBSET Nat /\ Len(t) + 1 \in N
  OBVIOUS
<1>2. PICK m \in N : \A n \in N : m <= n
  BY <1>1, LeastNumber
<1>3. ASSUME NEW k \in i .. m - 1 PROVE t[k] \notin C
  BY <1>2
<1>4. /\ m \in i .. Len(t) + 1
      /\ m <= Len(t) => t[m] \in C
  OBVIOUS
<1>. HIDE DEF N
<1>. QED  BY <1>3, <1>4, Zenon DEF First

\* A match that starts at i goes on to the first character that ends a sentence
\* and over the white space behind it, or to the end.
LEMMA MatchFacts ==
  ASSUME NEW t \in Seq(Char), NEW i \in 1 .. Len(t), t[i] # "."
  PROVE  /\ Match(t, i) \in i + 1 .. Len(t) + 1
         /\ Match(t, i) <= Len(t) =>
              \E stop \in i .. Match(t, i) - 1 :
                /\ t[stop] = "."
                /\ \A k \in stop + 1 .. Match(t, i) - 1 : t[k] = " "
                /\ t[Match(t, i)] # " "
<1>. DEFINE stop == First(t, i, {"."})
            m == First(t, stop + 1, Char \ {" "})
            n == Len(t)
<1>0. n \in Nat /\ i \in 1 .. n /\ \A k \in 1 .. n : t[k] \in Char
  OBVIOUS
<1>1. stop \in i .. n + 1 /\ (stop <= n => t[stop] = ".")
  <2>1. i \in 1 .. Len(t) + 1
    OBVIOUS
  <2>. QED  BY <2>1, FirstFacts
<1>2. CASE stop > n
  <2>1. Match(t, i) = stop
    BY <1>2 DEF Match
  <2>. HIDE DEF stop, n
  <2>2. stop = n + 1
    BY <1>0, <1>1, <1>2
  <2>3. stop \in i + 1 .. n + 1 /\ ~(stop <= n)
    BY <1>0, <2>2
  <2>. QED  BY <2>1, <2>3 DEF n
<1>3. CASE ~(stop > n)
  <2>1. Match(t, i) = m
    BY <1>3 DEF Match
  <2>2. stop \in i .. n /\ stop + 1 \in 1 .. n + 1 /\ t[stop] = "."
    <3>. HIDE DEF stop, n
    <3>. QED  BY <1>0, <1>1, <1>3
  <2>5. /\ m \in stop + 1 .. n + 1 /\ (m <= n => t[m] \in Char \ {" "})
        /\ \A k \in stop + 1 .. m - 1 : t[k] \notin Char \ {" "}
    <3>1. stop + 1 \in 1 .. Len(t) + 1
      BY <2>2
    <3>. HIDE DEF stop
    <3>. QED  BY <3>1, FirstFacts
  <2>. HIDE DEF stop, m, n
  <2>4. /\ i \in Nat /\ stop \in Nat /\ m \in Nat /\ n \in Nat
        /\ 1 <= i /\ i <= stop /\ stop + 1 <= m /\ m <= n + 1
    <3>1. n \in Nat /\ i \in 1 .. n /\ stop \in i .. n
      BY <1>0, <2>2
    <3>2. m \in stop + 1 .. n + 1
      BY <2>5
    <3>. QED  BY <3>1, <3>2
  <2>6. ASSUME NEW k \in stop + 1 .. m - 1 PROVE t[k] = " "
    <3>1. k \in 1 .. n
      BY <2>4
    <3>. QED  BY <1>0, <2>5, <3>1
  <2>7. m \in i + 1 .. n + 1 /\ stop \in i .. m - 1
    BY <2>4
  <2>8. m <= n => t[m] # " "
    BY <2>5
  <2>. QED  BY <2>1, <2>2, <2>6, <2>7, <2>8 DEF n
<1>. QED  BY <1>2, <1>3

-----------------------------------------------------------------------------
(* normalizeText of a text that grows.                                     *)

\* Joining is associative.
LEMMA ConcatAssoc ==
  ASSUME NEW S, NEW a \in Seq(S), NEW b \in Seq(S), NEW c \in Seq(S)
  PROVE  (a \o b) \o c = a \o (b \o c)
<1>1. /\ a \o b \in Seq(S) /\ Len(a \o b) = Len(a) + Len(b)
      /\ b \o c \in Seq(S) /\ Len(b \o c) = Len(b) + Len(c)
  BY ConcatType
<1>2. /\ (a \o b) \o c \in Seq(S) /\ Len((a \o b) \o c) = (Len(a) + Len(b)) + Len(c)
      /\ a \o (b \o c) \in Seq(S) /\ Len(a \o (b \o c)) = Len(a) + (Len(b) + Len(c))
  BY <1>1, ConcatType
<1>3. Len(a) \in Nat /\ Len(b) \in Nat /\ Len(c) \in Nat
  OBVIOUS
<1>4. ASSUME NEW i \in 1 .. Len((a \o b) \o c) PROVE ((a \o b) \o c)[i] = (a \o (b \o c))[i]
  <2>1. CASE i <= Len(a)
    BY <1>1, <1>2, <1>3, <2>1
  <2>2. CASE ~(i <= Len(a)) /\ i <= Len(a) + Len(b)
    <3>1. ((a \o b) \o c)[i] = (a \o b)[i] /\ (a \o b)[i] = b[i - Len(a)]
      BY <1>1, <1>2, <1>3, <2>2
    <3>2. (a \o (b \o c))[i] = (b \o c)[i - Len(a)] /\ (b \o c)[i - Len(a)] = b[i - Len(a)]
      BY <1>1, <1>2, <1>3, <2>2
    <3>. QED  BY <3>1, <3>2
  <2>3. CASE ~(i <= Len(a) + Len(b))
    <3>1. ((a \o b) \o c)[i] = c[i - (Len(a) + Len(b))]
      BY <1>1, <1>2, <1>3, <2>3
    <3>2. (a \o (b \o c))[i] = (b \o c)[i - Len(a)]
      BY <1>1, <1>2, <1>3, <2>3
    <3>3. (b \o c)[i - Len(a)] = c[(i - Len(a)) - Len(b)]
      BY <1>1, <1>2, <1>3, <2>3
    <3>4. (i - Len(a)) - Len(b) = i - (Len(a) + Len(b))
      BY <1>2, <1>3
    <3>. QED  BY <3>1, <3>2, <3>3, <3>4
  <2>. QED  BY <2>1, <2>2, <2>3
<1>5. Len((a \o b) \o c) = Len(a \o (b \o c))
  BY <1>2, <1>3
<1>. QED  BY <1>2, <1>4, <1>5, SeqEqual

\* Nothing joined to a text is the text.
LEMMA ConcatFacts ==
  ASSUME NEW S, NEW a \in Seq(S), NEW b \in Seq(S), NEW e \in S
  PROVE  /\ a \o <<>> = a /\ <<>> \o a = a
         /\ a \o <<e>> = Append(a, e)
         /\ a \o Append(b, e) = Append(a \o b, e)
         /\ a \o b = <<>> <=> a = <<>> /\ b = <<>>
<1>2. a \o <<>> = a /\ <<>> \o a = a
  OBVIOUS
<1>3. a \o <<e>> = Append(a, e)
  OBVIOUS
<1>4. a \o Append(b, e) = Append(a \o b, e)
  OBVIOUS
<1>5. a \o b = <<>> <=> a = <<>> /\ b = <<>>
  OBVIOUS
<1>. QED  BY <1>2, <1>3, <1>4, <1>5

-----------------------------------------------------------------------------
\* normalizeText of a text that something solid follows.
Before(t) == FlattenSeq(PartsOf(t, TRUE))

\* The last character of a text is solid.
EndsSolid(t) == t # <<>> /\ t[Len(t)] # " "

\* normalizeText of a text with one more character.
LEMMA NormalizeStep ==
  ASSUME NEW t \in Seq(Char), NEW c \in Char
  PROVE  /\ NormalizeText(Append(t, c)) = IF c = " " THEN NormalizeText(t) ELSE Append(Before(t), c)
         /\ Before(Append(t, c)) = IF c # " " \/ EndsSolid(t) THEN Append(Before(t), c) ELSE Before(t)
<1>. DEFINE u == Append(t, c)
            n == Len(t)
<1>1. /\ u \in Seq(Char) /\ Len(u) = n + 1 /\ n \in Nat
      /\ DOMAIN u = 1 .. n + 1 /\ DOMAIN t = 1 .. n
      /\ u[n + 1] = c /\ \A i \in 1 .. n : u[i] = t[i]
  BY AppendFacts
<1>2. /\ PartsOf(t, TRUE) \in Seq(Seq(Char)) /\ PartsOf(t, FALSE) \in Seq(Seq(Char))
      /\ Len(PartsOf(t, TRUE)) = n /\ Len(PartsOf(t, FALSE)) = n
      /\ NormalizeText(t) = FlattenSeq(PartsOf(t, FALSE))
      /\ NormalizeText(t) \in Seq(Char) /\ Before(t) \in Seq(Char)
  BY PartsType, FlattenType DEF Before
<1>3. /\ PartsOf(u, TRUE) \in Seq(Seq(Char)) /\ PartsOf(u, FALSE) \in Seq(Seq(Char))
      /\ Len(PartsOf(u, TRUE)) = n + 1 /\ Len(PartsOf(u, FALSE)) = n + 1
      /\ NormalizeText(u) = FlattenSeq(PartsOf(u, FALSE))
  <2>. HIDE DEF u, n
  <2>. QED  BY <1>1, PartsType
<1>. DEFINE end(more) == IF Stays(u, n + 1, more) THEN <<c>> ELSE <<>>
<1>4. ASSUME NEW more \in BOOLEAN, NEW before \in BOOLEAN,
             \A i \in 1 .. n : Stays(u, i, more) <=> Stays(t, i, before)
      PROVE  FlattenSeq(PartsOf(u, more)) = FlattenSeq(PartsOf(t, before)) \o end(more)
  <2>1. PartsOf(u, more) \in Seq(Seq(Char)) /\ Len(PartsOf(u, more)) = n + 1
    BY <1>3
  <2>2. PartsOf(t, before) \in Seq(Seq(Char)) /\ Len(PartsOf(t, before)) = n
    BY <1>2
  <2>3. end(more) \in Seq(Char)
    OBVIOUS
  <2>. HIDE DEF u, n, end
  <2>4. /\ \A i \in 1 .. n : PartsOf(u, more)[i] = PartsOf(t, before)[i]
        /\ PartsOf(u, more)[n + 1] = end(more)
    <3>1. ASSUME NEW i \in 1 .. n PROVE PartsOf(u, more)[i] = PartsOf(t, before)[i]
      <4>1. i \in DOMAIN u /\ i \in DOMAIN t /\ u[i] = t[i]
        BY <1>1
      <4>. QED  BY <1>4, <4>1 DEF PartsOf
    <3>2. PartsOf(u, more)[n + 1] = end(more)
      <4>1. n + 1 \in DOMAIN u /\ u[n + 1] = c
        BY <1>1
      <4>. QED  BY <4>1 DEF PartsOf, end
    <3>. QED  BY <3>1, <3>2
  <2>. DEFINE p == PartsOf(t, before)
              q == PartsOf(u, more)
              e == end(more)
  <2>5. /\ Append(p, e) \in Seq(Seq(Char)) /\ Len(Append(p, e)) = n + 1
        /\ Append(p, e)[n + 1] = e /\ \A i \in 1 .. n : Append(p, e)[i] = p[i]
    <3>1. p \in Seq(Seq(Char)) /\ Len(p) = n /\ e \in Seq(Char)
      BY <2>2, <2>3
    <3>. HIDE DEF p, e
    <3>. QED  BY <3>1, AppendFacts
  <2>6. q = Append(p, e)
    <3>1. /\ q \in Seq(Seq(Char)) /\ Len(q) = n + 1 /\ n \in Nat
          /\ q[n + 1] = e /\ \A i \in 1 .. n : q[i] = p[i]
      BY <1>1, <2>1, <2>4
    <3>. DEFINE w == Append(p, e)
    <3>2. w \in Seq(Seq(Char)) /\ Len(w) = n + 1 /\ w[n + 1] = e /\ \A i \in 1 .. n : w[i] = p[i]
      BY <2>5
    <3>. HIDE DEF p, q, e, w
    <3>3. \A i \in 1 .. Len(q) : q[i] = w[i]
      BY <3>1, <3>2
    <3>4. q = w
      BY <3>1, <3>2, <3>3, SeqEqual
    <3>. QED  BY <3>4 DEF w
  <2>. QED  BY <2>2, <2>3, <2>6, FlattenAppend
<1>a. ASSUME NEW i \in 1 .. n
      PROVE  u[i] = t[i] /\ (i > 1 => u[i - 1] = t[i - 1])
  <2>. HIDE DEF u, n
  <2>1. i > 1 => i - 1 \in 1 .. n
    BY <1>1
  <2>. QED  BY <1>1, <2>1
<1>5. \A i \in 1 .. n : Stays(u, i, TRUE) <=> Stays(t, i, TRUE)
  <2>. HIDE DEF u, n
  <2>. QED  BY <1>a, Zenon DEF Stays
<1>6. ASSUME c # " ", NEW i \in 1 .. n PROVE Stays(u, i, FALSE) <=> Stays(t, i, TRUE)
  <2>0. n = Len(t) /\ Len(u) = n + 1 /\ n \in Nat /\ u[n + 1] = c
    BY <1>1
  <2>. HIDE DEF u, n
  <2>1. n + 1 \in i .. Len(u)
    BY <2>0
  <2>a. u[n + 1] # " "
    BY <2>0, <1>6
  <2>2. \E j \in i .. Len(u) : ~IsSpace(u[j])
    BY <2>1, <2>a DEF IsSpace
  <2>. QED  BY <1>a, <2>2, Zenon DEF Stays
<1>7. ASSUME c = " ", NEW i \in 1 .. n PROVE Stays(u, i, FALSE) <=> Stays(t, i, FALSE)
  <2>0. n = Len(t) /\ Len(u) = n + 1 /\ n \in Nat /\ u[n + 1] = c
        /\ \A k \in 1 .. n : u[k] = t[k]
    BY <1>1
  <2>. HIDE DEF u, n
  <2>1. ASSUME NEW j \in i .. n + 1 PROVE (j \in i .. n /\ u[j] = t[j]) \/ u[j] = " "
    <3>1. j \in 1 .. n \/ j = n + 1
      BY <2>0
    <3>2. j \in 1 .. n => j \in i .. n
      BY <2>0
    <3>. QED  BY <2>0, <1>7, <3>1, <3>2
  <2>2. ASSUME NEW j \in i .. n PROVE j \in i .. n + 1 /\ u[j] = t[j]
    <3>1. j \in 1 .. n
      BY <2>0
    <3>. QED  BY <1>1, <3>1
  <2>3. (\E j \in i .. Len(u) : ~IsSpace(u[j])) <=> \E j \in i .. Len(t) : ~IsSpace(t[j])
    BY <2>0, <2>1, <2>2 DEF IsSpace
  <2>. QED  BY <1>a, <2>3, Zenon DEF Stays
<1>8. (Stays(u, n + 1, TRUE) <=> (c # " " \/ EndsSolid(t))) /\ (Stays(u, n + 1, FALSE) <=> c # " ")
  <2>0. t = <<>> <=> n = 0
    OBVIOUS
  <2>. HIDE DEF u, n
  <2>1. n + 1 > 1 => u[(n + 1) - 1] = t[n]
    BY <1>1
  <2>2. \A j \in n + 1 .. Len(u) : u[j] = c
    BY <1>1
  <2>3. n + 1 > 1 <=> t # <<>>
    BY <1>1, <2>0
  <2>4. u[n + 1] = c /\ t[n] = t[Len(t)]
    BY <1>1 DEF n
  <2>5. n + 1 \in n + 1 .. Len(u)
    BY <1>1
  <2>. QED  BY <2>1, <2>2, <2>3, <2>4, <2>5, Zenon DEF Stays, IsSpace, EndsSolid
<1>9. NormalizeText(u) = IF c = " " THEN NormalizeText(t) ELSE Append(Before(t), c)
  <2>1. CASE c = " "
    <3>1. FlattenSeq(PartsOf(u, FALSE)) = FlattenSeq(PartsOf(t, FALSE)) \o end(FALSE)
      BY <1>4, <1>7, <2>1
    <3>2. end(FALSE) = <<>>
      BY <1>8, <2>1
    <3>3. NormalizeText(t) \o <<>> = NormalizeText(t)
      BY <1>2
    <3>. HIDE DEF u, n, end
    <3>. QED  BY <1>2, <1>3, <2>1, <3>1, <3>2, <3>3
  <2>2. CASE c # " "
    <3>1. FlattenSeq(PartsOf(u, FALSE)) = FlattenSeq(PartsOf(t, TRUE)) \o end(FALSE)
      BY <1>4, <1>6, <2>2
    <3>2. end(FALSE) = <<c>>
      BY <1>8, <2>2
    <3>3. Before(t) \o <<c>> = Append(Before(t), c)
      BY <1>2
    <3>. HIDE DEF u, n, end
    <3>. QED  BY <1>2, <1>3, <2>2, <3>1, <3>2, <3>3 DEF Before
  <2>. QED  BY <2>1, <2>2
<1>10. Before(u) = IF c # " " \/ EndsSolid(t) THEN Append(Before(t), c) ELSE Before(t)
  <2>1. Before(u) = Before(t) \o end(TRUE)
    BY <1>4, <1>5 DEF Before
  <2>2. end(TRUE) = IF c # " " \/ EndsSolid(t) THEN <<c>> ELSE <<>>
    BY <1>8
  <2>3. Before(t) \o <<c>> = Append(Before(t), c) /\ Before(t) \o <<>> = Before(t)
    BY <1>2
  <2>. HIDE DEF u, n, end
  <2>. QED  BY <2>1, <2>2, <2>3
<1>. QED  BY <1>9, <1>10

-----------------------------------------------------------------------------
(* normalizeText of a text that is two.                                    *)

\* normalizeText of an empty text.
LEMMA NormalizeEmpty == NormalizeText(<<>>) = <<>> /\ Before(<<>>) = <<>>
<1>1. PartsOf(<<>>, TRUE) = <<>>
  BY DEF PartsOf
<1>2. PartsOf(<<>>, FALSE) = <<>> /\ NormalizeText(<<>>) = FlattenSeq(PartsOf(<<>>, FALSE))
  <2>1. <<>> \in Seq(Char)
    OBVIOUS
  <2>2. PartsOf(<<>>, FALSE) = <<>>
    BY DEF PartsOf
  <2>3. NormalizeText(<<>>) = FlattenSeq(PartsOf(<<>>, FALSE))
    BY <2>1, PartsType
  <2>. QED  BY <2>2, <2>3
<1>. QED  BY <1>1, <1>2, FlattenEmpty DEF Before

\* The last character of a text one longer.
LEMMA EndsFacts ==
  ASSUME NEW t \in Seq(Char), NEW c \in Char
  PROVE  EndsSolid(Append(t, c)) <=> c # " "
<1>1. Append(t, c) # <<>> /\ Append(t, c)[Len(Append(t, c))] = c
  OBVIOUS
<1>. QED  BY <1>1 DEF EndsSolid

\* What follows a text keeps one space of those at its end.
LEMMA NormalizeShape ==
  \A t \in Seq(Char) :
    /\ NormalizeText(t) \in Seq(Char) /\ Before(t) \in Seq(Char)
    /\ Before(t) = IF t # <<>> /\ ~EndsSolid(t) /\ NormalizeText(t) # <<>>
                   THEN Append(NormalizeText(t), " ") ELSE NormalizeText(t)
    /\ EndsSolid(t) => NormalizeText(t) # <<>>
<1>. DEFINE Shape(t) ==
              /\ Before(t) = IF t # <<>> /\ ~EndsSolid(t) /\ NormalizeText(t) # <<>>
                             THEN Append(NormalizeText(t), " ") ELSE NormalizeText(t)
              /\ EndsSolid(t) => NormalizeText(t) # <<>>
            Q == {t \in Seq(Char) : Shape(t)}
<1>0. ASSUME NEW t \in Seq(Char) PROVE NormalizeText(t) \in Seq(Char) /\ Before(t) \in Seq(Char)
  BY PartsType, FlattenType DEF Before
<1>1. <<>> \in Q
  <2>1. <<>> \in Seq(Char) /\ ~EndsSolid(<<>>)
    BY DEF EndsSolid
  <2>. QED  BY <2>1, NormalizeEmpty
<1>2. ASSUME NEW t \in Seq(Char), NEW c \in Char, t \in Q PROVE Append(t, c) \in Q
  <2>1. /\ NormalizeText(Append(t, c)) = IF c = " " THEN NormalizeText(t) ELSE Append(Before(t), c)
        /\ Before(Append(t, c)) = IF c # " " \/ EndsSolid(t) THEN Append(Before(t), c) ELSE Before(t)
        /\ EndsSolid(Append(t, c)) <=> c # " "
    BY NormalizeStep, EndsFacts
  <2>2. Append(t, c) \in Seq(Char) /\ Append(t, c) # <<>>
    BY AppendFacts
  <2>3. Append(Before(t), c) # <<>>
    BY <1>0, AppendFacts
  <2>4. Shape(t)
    BY <1>2
  <2>5. t = <<>> => NormalizeText(t) = <<>>
    BY NormalizeEmpty
  <2>6. Shape(Append(t, c))
    <3>1. CASE c # " "
      BY <2>1, <2>3, <3>1
    <3>2. CASE c = " " /\ EndsSolid(t)
      BY <2>1, <2>2, <2>4, <3>2
    <3>3. CASE c = " " /\ ~EndsSolid(t)
      BY <2>1, <2>2, <2>4, <2>5, <3>3
    <3>. QED  BY <3>1, <3>2, <3>3
  <2>. QED  BY <2>2, <2>6
<1>3. Seq(Char) \subseteq Q
  <2>. HIDE DEF Q
  <2>. QED  BY <1>1, <1>2, SeqInductionSet
<1>. QED  BY <1>0, <1>3

\* Two normalized texts with a space between them, unless one of them is empty.
Glue(a, b) == IF a = <<>> THEN b ELSE IF b = <<>> THEN a ELSE Append(a, " ") \o b

\* normalizeText of a text that is cut behind white space.
LEMMA NormalizeJoin ==
  ASSUME NEW u \in Seq(Char), ~EndsSolid(u)
  PROVE  \A v \in Seq(Char) : NormalizeText(u \o v) = Glue(NormalizeText(u), NormalizeText(v))
<1>. DEFINE N(t) == NormalizeText(t)
            Q == {v \in Seq(Char) : N(u \o v) = Glue(N(u), N(v))}
<1>1. <<>> \in Q
  <2>1. u \o <<>> = u /\ <<>> \in Seq(Char)
    OBVIOUS
  <2>. QED  BY <2>1, NormalizeEmpty DEF Glue
<1>2. ASSUME NEW v \in Seq(Char), NEW c \in Char, v \in Q PROVE Append(v, c) \in Q
  <2>. DEFINE w == u \o v
  <2>1. w \in Seq(Char) /\ u \o Append(v, c) = Append(w, c) /\ Append(v, c) \in Seq(Char)
    OBVIOUS
  <2>2. N(w) = Glue(N(u), N(v))
    BY <1>2
  <2>3. /\ N(u) \in Seq(Char) /\ N(v) \in Seq(Char) /\ N(w) \in Seq(Char)
        /\ Before(u) \in Seq(Char) /\ Before(v) \in Seq(Char) /\ Before(w) \in Seq(Char)
    BY <2>1, NormalizeShape
  <2>4. (v = <<>> => w = u) /\ (v # <<>> => w # <<>> /\ (EndsSolid(w) <=> EndsSolid(v)))
    <3>1. v = <<>> => w = u
      OBVIOUS
    <3>2. ASSUME v # <<>> PROVE w # <<>> /\ w[Len(w)] = v[Len(v)]
      <4>1. Len(v) \in Nat /\ Len(v) > 0 /\ Len(u) \in Nat /\ Len(w) = Len(u) + Len(v)
        BY <3>2
      <4>2. w[Len(u) + Len(v)] = v[Len(v)]
        BY <4>1
      <4>. QED  BY <4>1, <4>2
    <3>. QED  BY <3>1, <3>2 DEF EndsSolid
  <2>5. Before(w) = IF N(u) = <<>> THEN Before(v) ELSE Append(N(u), " ") \o Before(v)
    <3>. DEFINE a == N(u)
                b == N(v)
    <3>1. /\ Before(v) = IF v # <<>> /\ ~EndsSolid(v) /\ b # <<>> THEN Append(b, " ") ELSE b
          /\ EndsSolid(v) => b # <<>>
          /\ Before(w) = IF w # <<>> /\ ~EndsSolid(w) /\ N(w) # <<>> THEN Append(N(w), " ") ELSE N(w)
      BY <2>1, NormalizeShape
    <3>2. (v = <<>> => b = <<>>) /\ (u = <<>> => a = <<>>)
      BY NormalizeEmpty
    <3>3. a \in Seq(Char) /\ b \in Seq(Char) /\ " " \in Char
      BY <2>3 DEF Char
    <3>4. N(w) = IF a = <<>> THEN b ELSE IF b = <<>> THEN a ELSE Append(a, " ") \o b
      BY <2>2 DEF Glue
    <3>. HIDE DEF a, b, w, N
    <3>5. /\ Append(a, " ") \o <<>> = Append(a, " ")
          /\ Append(a, " ") \o Append(b, " ") = Append(Append(a, " ") \o b, " ")
          /\ Append(a, " ") \o b # <<>>
      <4>. DEFINE e == " "
                  d == Append(a, e)
      <4>0. e \in Char /\ a \in Seq(Char) /\ b \in Seq(Char)
        BY <3>3
      <4>. HIDE DEF e
      <4>1. d \in Seq(Char) /\ d # <<>>
        BY <4>0, AppendFacts
      <4>. HIDE DEF d
      <4>2. d \o <<>> = d /\ d \o Append(b, e) = Append(d \o b, e) /\ (d \o b = <<>> <=> d = <<>> /\ b = <<>>)
        BY <4>0, <4>1, ConcatFacts
      <4>. QED  BY <4>1, <4>2 DEF d, e
    <3>6. CASE v = <<>>
      BY <2>4, <3>1, <3>2, <3>4, <3>5, <3>6 DEF a, N
    <3>7. CASE v # <<>> /\ EndsSolid(v)
      BY <2>4, <3>1, <3>4, <3>7 DEF a
    <3>8. CASE v # <<>> /\ ~EndsSolid(v) /\ b = <<>>
      BY <2>4, <3>1, <3>4, <3>5, <3>8 DEF a
    <3>9. CASE v # <<>> /\ ~EndsSolid(v) /\ b # <<>>
      BY <2>4, <3>1, <3>4, <3>5, <3>9 DEF a
    <3>. QED  BY <3>6, <3>7, <3>8, <3>9
  <2>6. /\ N(Append(v, c)) = IF c = " " THEN N(v) ELSE Append(Before(v), c)
        /\ N(Append(w, c)) = IF c = " " THEN N(w) ELSE Append(Before(w), c)
    BY <2>1, NormalizeStep
  <2>7. CASE c = " "
    BY <2>1, <2>2, <2>6, <2>7
  <2>8. CASE c # " "
    <3>1. Append(Append(N(u), " ") \o Before(v), c) = Append(N(u), " ") \o Append(Before(v), c)
      <4>0. " " \in Char
        BY DEF Char
      <4>. DEFINE d == Append(N(u), " ")
                  b == Before(v)
      <4>1. d \in Seq(Char) /\ b \in Seq(Char)
        BY <2>3, <4>0, AppendFacts
      <4>. HIDE DEF d, b
      <4>2. d \o Append(b, c) = Append(d \o b, c)
        BY <4>1, ConcatFacts
      <4>. QED  BY <4>2 DEF d, b
    <3>2. Append(Before(v), c) # <<>>
      BY <2>3, AppendFacts
    <3>3. N(Append(w, c)) = Append(Before(w), c) /\ N(Append(v, c)) = Append(Before(v), c)
      BY <2>6, <2>8
    <3>. HIDE DEF N, w
    <3>4. N(Append(w, c)) = Glue(N(u), N(Append(v, c)))
      BY <2>5, <3>1, <3>2, <3>3 DEF Glue
    <3>. QED  BY <2>1, <3>4
  <2>. QED  BY <2>7, <2>8
<1>3. Seq(Char) \subseteq Q
  <2>. HIDE DEF Q
  <2>. QED  BY <1>1, <1>2, SeqInductionSet
<1>. QED  BY <1>3

-----------------------------------------------------------------------------
(* The sentences of a text: its stretches between the matches.             *)

\* A stretch of a text has the characters between its ends.
LEMMA StretchFacts ==
  ASSUME NEW S, NEW t \in Seq(S), NEW a \in 1 .. Len(t) + 1, NEW b \in a - 1 .. Len(t)
  PROVE  /\ SubSeq(t, a, b) \in Seq(S) /\ Len(SubSeq(t, a, b)) = b - a + 1
         /\ \A i \in 1 .. b - a + 1 : SubSeq(t, a, b)[i] = t[a + i - 1]
OBVIOUS

\* A stretch cut at b is what is up to b and what is behind it.
LEMMA StretchCut ==
  ASSUME NEW S, NEW t \in Seq(S), NEW a \in 1 .. Len(t) + 1, NEW b \in a - 1 .. Len(t),
         NEW c \in b .. Len(t)
  PROVE  SubSeq(t, a, c) = SubSeq(t, a, b) \o SubSeq(t, b + 1, c)
<1>. DEFINE u == SubSeq(t, a, b)
            v == SubSeq(t, b + 1, c)
            w == SubSeq(t, a, c)
            n == Len(t)
<1>0. /\ n \in Nat /\ a \in Nat /\ b \in Nat /\ c \in Nat
      /\ 1 <= a /\ a <= b + 1 /\ b <= c /\ c <= n
  OBVIOUS
<1>1. u \in Seq(S) /\ Len(u) = b - a + 1 /\ \A i \in 1 .. b - a + 1 : u[i] = t[a + i - 1]
  BY StretchFacts
<1>2. v \in Seq(S) /\ Len(v) = c - b /\ \A i \in 1 .. c - b : v[i] = t[b + i]
  <2>. DEFINE d == b + 1
  <2>1. d \in 1 .. Len(t) + 1 /\ c \in d - 1 .. Len(t)
    OBVIOUS
  <2>. HIDE DEF d
  <2>2. /\ SubSeq(t, d, c) \in Seq(S) /\ Len(SubSeq(t, d, c)) = c - d + 1
        /\ \A i \in 1 .. c - d + 1 : SubSeq(t, d, c)[i] = t[d + i - 1]
    BY <2>1, StretchFacts
  <2>3. c - d + 1 = c - b /\ \A i \in 1 .. c - b : d + i - 1 = b + i
    BY <1>0 DEF d
  <2>. QED  BY <2>2, <2>3 DEF d
<1>3. w \in Seq(S) /\ Len(w) = c - a + 1 /\ \A i \in 1 .. c - a + 1 : w[i] = t[a + i - 1]
  <2>1. c \in a - 1 .. Len(t)
    BY <1>0
  <2>. QED  BY <2>1, StretchFacts
<1>. HIDE DEF u, v, w, n
<1>4. u \o v \in Seq(S) /\ Len(u \o v) = c - a + 1
  <2>1. u \o v \in Seq(S) /\ Len(u \o v) = Len(u) + Len(v)
    BY <1>1, <1>2, ConcatType
  <2>2. Len(u) + Len(v) = c - a + 1
    BY <1>0, <1>1, <1>2
  <2>. QED  BY <2>1, <2>2
<1>5. ASSUME NEW i \in 1 .. c - a + 1 PROVE w[i] = (u \o v)[i]
  <2>1. CASE i <= b - a + 1
    BY <1>0, <1>1, <1>2, <1>3, <2>1
  <2>2. CASE ~(i <= b - a + 1)
    <3>. DEFINE j == i - (b - a + 1)
    <3>1. j \in 1 .. c - b /\ b + j = a + i - 1
      BY <1>0, <2>2
    <3>2. (u \o v)[i] = v[j]
      BY <1>0, <1>1, <1>2, <2>2
    <3>. HIDE DEF j
    <3>. QED  BY <1>2, <1>3, <3>1, <3>2
  <2>. QED  BY <1>0, <2>1, <2>2
<1>6. w = u \o v
  BY <1>3, <1>4, <1>5, SeqEqual
<1>. QED  BY <1>6 DEF u, v, w

\* What a function makes of the members of a list.
Each(f, s) == [i \in DOMAIN s |-> f[s[i]]]
Maps(S, T) == [S -> T]

\* A list one member longer has one image more.
LEMMA EachAppend ==
  ASSUME NEW S, NEW T, NEW f \in Maps(S, T), NEW s \in Seq(S), NEW e \in S
  PROVE  /\ Each(f, s) \in Seq(T) /\ Len(Each(f, s)) = Len(s)
         /\ Each(f, Append(s, e)) = Append(Each(f, s), f[e])
<1>. DEFINE u == Append(s, e)
            n == Len(s)
            p == [i \in DOMAIN s |-> f[s[i]]]
            q == [i \in DOMAIN u |-> f[u[i]]]
            d == f[e]
<1>1. /\ u \in Seq(S) /\ Len(u) = n + 1 /\ n \in Nat /\ n + 1 \in Nat
      /\ DOMAIN u = 1 .. n + 1 /\ DOMAIN s = 1 .. n
      /\ u[n + 1] = e /\ \A i \in 1 .. n : u[i] = s[i]
  BY AppendFacts
<1>2. p \in [1 .. n -> T] /\ d \in T
  BY DEF Maps
<1>3. q \in [1 .. n + 1 -> T]
  <2>1. \A i \in 1 .. n + 1 : u[i] \in S
    <3>. HIDE DEF u, n
    <3>. QED  BY <1>1
  <2>. QED  BY <1>1, <2>1 DEF Maps
<1>4. q[n + 1] = d /\ \A i \in 1 .. n : q[i] = p[i]
  <2>1. n + 1 \in DOMAIN u /\ \A i \in 1 .. n : i \in DOMAIN u /\ i \in DOMAIN s
    BY <1>1
  <2>. HIDE DEF n
  <2>. QED  BY <1>1, <2>1
<1>. HIDE DEF p, q, d, u, n
<1>5. p \in Seq(T) /\ Len(p) = n
  BY <1>1, <1>2, FunctionIsSeq
<1>6. q \in Seq(T) /\ Len(q) = n + 1
  BY <1>1, <1>3, FunctionIsSeq
<1>7. Append(p, d) \in Seq(T) /\ Len(Append(p, d)) = n + 1 /\ Append(p, d)[n + 1] = d
      /\ \A i \in 1 .. n : Append(p, d)[i] = p[i]
  BY <1>2, <1>5, AppendFacts
<1>8. q = Append(p, d)
  <2>. DEFINE w == Append(p, d)
  <2>. HIDE DEF w
  <2>1. w \in Seq(T) /\ Len(w) = n + 1 /\ w[n + 1] = d /\ \A i \in 1 .. n : w[i] = p[i]
    BY <1>7 DEF w
  <2>2. \A i \in 1 .. Len(q) : q[i] = w[i]
    BY <1>1, <1>4, <1>6, <2>1
  <2>3. q = w
    BY <1>6, <2>1, <2>2, SeqEqual
  <2>. QED  BY <2>3 DEF w
<1>. QED  BY <1>5, <1>8 DEF p, q, d, u, n, Each

-----------------------------------------------------------------------------
(* What trim cuts off is white space.                                      *)

\* A single space.
LEMMA SpaceFacts == " " \in Char /\ <<" ">> \in Seq(Char) /\ Letters(<<" ">>) = <<>>
<1>. DEFINE c == " "
<1>1. c \in Char /\ c \notin Letter
  BY PlainTextAssumption DEF Char
<1>. HIDE DEF c
<1>2. <<c>> \in Seq(Char)
  BY <1>1
<1>3. Letters(<<c>>) = <<>>
  <2>1. \A k \in DOMAIN <<c>> : <<c>>[k] \notin Letter
    BY <1>1
  <2>. QED  BY <1>2, <2>1, LettersNone
<1>. QED  BY <1>1, <1>2, <1>3 DEF c

\* What trimEnd leaves begins the text, and white space follows it.
LEMMA TrimEndFacts ==
  ASSUME NEW S, NEW t \in Seq(S)
  PROVE  \E n \in 0 .. Len(t) : /\ TrimEnd(t) = SubSeq(t, 1, n)
                                /\ \A i \in n + 1 .. Len(t) : IsSpace(t[i])
<1>. DEFINE N == {k \in 0 .. Len(t) : \A i \in k + 1 .. Len(t) : IsSpace(t[i])}
<1>0. Len(t) \in Nat
  OBVIOUS
<1>1. N \in SUBSET Nat /\ N # {}
  <2>1. Len(t) \in N
    BY <1>0
  <2>. QED  BY <1>0, <2>1
<1>2. PICK m \in N : \A n \in N : m <= n
  BY <1>1, LeastNumber
<1>3. m \in 0 .. Len(t) /\ \A i \in m + 1 .. Len(t) : IsSpace(t[i])
  BY <1>2
<1>4. m = 0 \/ ~IsSpace(t[m])
  <2>. SUFFICES ASSUME m # 0, IsSpace(t[m]) PROVE FALSE
    OBVIOUS
  <2>1. m - 1 \in 0 .. Len(t) /\ ~(m <= m - 1) /\ \A i \in (m - 1) + 1 .. Len(t) : i = m \/ i \in m + 1 .. Len(t)
    <3>. HIDE DEF N
    <3>. QED  BY <1>0, <1>3
  <2>2. m - 1 \in N
    <3>. QED  BY <1>3, <2>1
  <2>. QED  BY <1>2, <2>1, <2>2
<1>. HIDE DEF N
<1>. DEFINE c == CHOOSE n \in 0 .. Len(t) : /\ n = 0 \/ ~IsSpace(t[n])
                                            /\ \A i \in n + 1 .. Len(t) : IsSpace(t[i])
<1>5. c \in 0 .. Len(t) /\ \A i \in c + 1 .. Len(t) : IsSpace(t[i])
  BY <1>3, <1>4, Zenon
<1>6. TrimEnd(t) = SubSeq(t, 1, c)
  BY DEF TrimEnd
<1>. HIDE DEF c
<1>. QED  BY <1>5, <1>6

\* White space behind a text does not change what normalizeText makes of it.
LEMMA BlanksBehind ==
  ASSUME NEW u \in Seq(Char)
  PROVE  \A v \in Seq(Char) : (\A i \in DOMAIN v : v[i] = " ") => NormalizeText(u \o v) = NormalizeText(u)
<1>. DEFINE Blank(v) == \A i \in DOMAIN v : v[i] = " "
            Q == {v \in Seq(Char) : Blank(v) => NormalizeText(u \o v) = NormalizeText(u)}
<1>1. <<>> \in Q
  <2>1. u \o <<>> = u /\ <<>> \in Seq(Char)
    OBVIOUS
  <2>. QED  BY <2>1
<1>2. ASSUME NEW v \in Seq(Char), NEW c \in Char, v \in Q PROVE Append(v, c) \in Q
  <2>1. /\ Append(v, c) \in Seq(Char) /\ Len(v) \in Nat
        /\ DOMAIN Append(v, c) = 1 .. Len(v) + 1 /\ DOMAIN v = 1 .. Len(v)
        /\ Append(v, c)[Len(v) + 1] = c /\ \A i \in 1 .. Len(v) : Append(v, c)[i] = v[i]
    BY AppendFacts
  <2>a. SUFFICES ASSUME Blank(Append(v, c)) PROVE NormalizeText(u \o Append(v, c)) = NormalizeText(u)
    BY <2>1
  <2>2. c = " " /\ Blank(v)
    <3>. DEFINE w == Append(v, c)
    <3>1. \A i \in 1 .. Len(v) + 1 : w[i] = " "
      BY <2>1, <2>a
    <3>2. /\ Len(v) \in Nat /\ w[Len(v) + 1] = c /\ \A i \in 1 .. Len(v) : w[i] = v[i]
      BY <2>1
    <3>3. c = " "
      <4>1. Len(v) + 1 \in 1 .. Len(v) + 1
        OBVIOUS
      <4>. HIDE DEF w
      <4>. QED  BY <3>1, <3>2, <4>1
    <3>4. ASSUME NEW i \in 1 .. Len(v) PROVE v[i] = " "
      <4>1. i \in 1 .. Len(v) + 1
        OBVIOUS
      <4>. HIDE DEF w
      <4>. QED  BY <3>1, <3>2, <4>1
    <3>. QED  BY <2>1, <3>3, <3>4
  <2>3. NormalizeText(u \o v) = NormalizeText(u)
    BY <1>2, <2>2
  <2>4. u \o v \in Seq(Char) /\ u \o Append(v, c) = Append(u \o v, c)
    OBVIOUS
  <2>5. NormalizeText(Append(u \o v, c)) = NormalizeText(u \o v)
    BY <2>2, <2>4, NormalizeStep
  <2>. QED  BY <2>3, <2>4, <2>5
<1>3. Seq(Char) \subseteq Q
  <2>. HIDE DEF Q
  <2>. QED  BY <1>1, <1>2, SeqInductionSet
<1>. QED  BY <1>3

\* Nothing before a text.
LEMMA NothingFacts ==
  ASSUME NEW S, NEW t \in Seq(S)
  PROVE  <<>> \in Seq(S) /\ <<>> \o t = t
OBVIOUS

\* The last place of a text that is not empty.
LEMMA LastPlace ==
  ASSUME NEW S, NEW t \in Seq(S)
  PROVE  t # <<>> => Len(t) \in DOMAIN t
OBVIOUS

\* White space in front of a text does not change what normalizeText makes of it.
LEMMA BlanksBefore ==
  ASSUME NEW u \in Seq(Char), \A i \in DOMAIN u : u[i] = " ", NEW v \in Seq(Char)
  PROVE  NormalizeText(u \o v) = NormalizeText(v)
<1>1. ~EndsSolid(u)
  <2>1. u # <<>> => Len(u) \in DOMAIN u
    BY LastPlace
  <2>. QED  BY <2>1 DEF EndsSolid
<1>2. NormalizeText(u) = <<>>
  <2>1. <<>> \in Seq(Char) /\ <<>> \o u = u
    BY NothingFacts
  <2>2. NormalizeText(<<>> \o u) = NormalizeText(<<>>)
    BY <2>1, BlanksBehind
  <2>. QED  BY <2>1, <2>2, NormalizeEmpty
<1>3. NormalizeText(u \o v) = Glue(NormalizeText(u), NormalizeText(v))
  BY <1>1, NormalizeJoin
<1>. QED  BY <1>2, <1>3 DEF Glue

\* trim keeps the letters and what normalizeText makes of a text.
LEMMA TrimFacts ==
  ASSUME NEW t \in Seq(Char)
  PROVE  /\ Trim(t) \in Seq(Char)
         /\ NormalizeText(Trim(t)) = NormalizeText(t)
         /\ Letters(Trim(t)) = Letters(t)
<1>. DEFINE f == First(t, 1, Char \ {" "})
            n == Len(t)
            u == SubSeq(t, 1, f - 1)
            y == SubSeq(t, f, n)
<1>0. n \in Nat /\ \A k \in 1 .. n : t[k] \in Char
  OBVIOUS
<1>1. f \in 1 .. n + 1 /\ \A k \in 1 .. f - 1 : t[k] \notin Char \ {" "}
  <2>1. 1 \in 1 .. Len(t) + 1
    OBVIOUS
  <2>. QED  BY <2>1, FirstFacts
<1>. HIDE DEF f
<1>2. /\ u \in Seq(Char) /\ y \in Seq(Char) /\ t = u \o y /\ \A i \in DOMAIN u : u[i] = " "
  <2>1. /\ 1 \in 1 .. Len(t) + 1 /\ f - 1 \in 1 - 1 .. Len(t) /\ f \in 1 .. Len(t) + 1
        /\ Len(t) \in f - 1 .. Len(t) /\ (f - 1) + 1 = f /\ (f - 1) - 1 + 1 = f - 1
        /\ \A i \in 1 .. f - 1 : 1 + i - 1 = i /\ i \in 1 .. n
    <3>. HIDE DEF n
    <3>1. n \in Nat /\ f \in 1 .. n + 1 /\ n = Len(t)
      BY <1>0, <1>1, Zenon DEF n
    <3>. QED  BY <3>1
  <2>2. u \in Seq(Char) /\ Len(u) = (f - 1) - 1 + 1 /\ \A i \in 1 .. (f - 1) - 1 + 1 : u[i] = t[1 + i - 1]
    BY <2>1, StretchFacts
  <2>3. y \in Seq(Char)
    BY <2>1, StretchFacts
  <2>4. SubSeq(t, 1, Len(t)) = SubSeq(t, 1, f - 1) \o SubSeq(t, (f - 1) + 1, Len(t))
    BY <2>1, StretchCut
  <2>5. SubSeq(t, 1, Len(t)) = t
    OBVIOUS
  <2>6. ASSUME NEW i \in 1 .. f - 1 PROVE u[i] = " "
    <3>1. u[i] = t[i] /\ t[i] \in Char
      BY <1>0, <2>1, <2>2
    <3>. QED  BY <1>1, <3>1
  <2>7. DOMAIN u = 1 .. f - 1
    <3>1. DOMAIN u = 1 .. Len(u)
      BY <2>2
    <3>. QED  BY <2>1, <2>2, <3>1
  <2>. QED  BY <2>1, <2>2, <2>3, <2>4, <2>5, <2>6, <2>7
<1>3. Trim(t) = TrimEnd(y)
  BY DEF Trim, f
<1>. HIDE DEF u, y
<1>4. PICK m \in 0 .. Len(y) : TrimEnd(y) = SubSeq(y, 1, m) /\ \A i \in m + 1 .. Len(y) : IsSpace(y[i])
  BY <1>2, TrimEndFacts
<1>. DEFINE z == SubSeq(y, 1, m)
            b == SubSeq(y, m + 1, Len(y))
<1>5. z \in Seq(Char) /\ b \in Seq(Char) /\ y = z \o b /\ \A i \in DOMAIN b : b[i] = " "
  <2>1. z \in Seq(Char) /\ b \in Seq(Char) /\ y = z \o b /\ Len(b) = Len(y) - m
    BY <1>2, SplitSeq
  <2>2. /\ m + 1 \in 1 .. Len(y) + 1 /\ Len(y) \in (m + 1) - 1 .. Len(y) /\ Len(y) - (m + 1) + 1 = Len(y) - m
        /\ \A i \in 1 .. Len(y) - m : (m + 1) + i - 1 \in m + 1 .. Len(y)
    <3>1. Len(y) \in Nat /\ m \in Nat /\ m <= Len(y)
      <4>1. y \in Seq(Char)
        BY <1>2
      <4>2. Len(y) \in Nat
        BY <4>1
      <4>. QED  BY <1>4, <4>2
    <3>. QED  BY <3>1
  <2>3. \A i \in 1 .. Len(y) - (m + 1) + 1 : b[i] = y[(m + 1) + i - 1]
    BY <1>2, <2>2, StretchFacts
  <2>4. \A i \in 1 .. Len(y) - m : b[i] = " "
    BY <1>4, <2>2, <2>3 DEF IsSpace
  <2>5. DOMAIN b = 1 .. Len(y) - m
    <3>1. DOMAIN b = 1 .. Len(b)
      BY <2>1
    <3>. QED  BY <2>1, <3>1
  <2>. QED  BY <2>1, <2>4, <2>5
<1>. HIDE DEF z, b
<1>6. Trim(t) = z
  BY <1>3, <1>4 DEF z
<1>7. NormalizeText(t) = NormalizeText(y) /\ NormalizeText(y) = NormalizeText(z)
  <2>1. NormalizeText(u \o y) = NormalizeText(y)
    BY <1>2, BlanksBefore
  <2>2. NormalizeText(z \o b) = NormalizeText(z)
    BY <1>5, BlanksBehind
  <2>. QED  BY <1>2, <1>5, <2>1, <2>2
<1>8. Letters(NormalizeText(t)) = Letters(t) /\ Letters(NormalizeText(z)) = Letters(z)
  BY <1>5, NormalizeLetters
<1>. QED  BY <1>5, <1>6, <1>7, <1>8

-----------------------------------------------------------------------------
\* The stretches of a text that are not empty, and what the loop of
\* splitTextIntoSentenceRanges knows between its rounds.
RangesOf(t) == {r \in [start : 1 .. Len(t), end : 1 .. Len(t)] : r.start <= r.end}
ScanState(t) == [at : 1 .. Len(t) + 1, ranges : Seq(RangesOf(t))]

\* The sentences of a text, as they are and as they are shown.
Sentences(t, ranges) == [k \in DOMAIN ranges |-> SubSeq(t, ranges[k].start, ranges[k].end)]
Slices(t, ranges) == [k \in DOMAIN ranges |-> Trim(SubSeq(t, ranges[k].start, ranges[k].end))]

\* The sentences are texts, one for each stretch; a stretch more is one more.
LEMMA SentencesFacts ==
  ASSUME NEW t \in Seq(Char), NEW ranges \in Seq(RangesOf(t)), NEW r \in RangesOf(t)
  PROVE  /\ SubSeq(t, r.start, r.end) \in Seq(Char) /\ Trim(SubSeq(t, r.start, r.end)) \in Seq(Char)
         /\ Sentences(t, ranges) \in Seq(Seq(Char)) /\ Slices(t, ranges) \in Seq(Seq(Char))
         /\ Len(Sentences(t, ranges)) = Len(ranges) /\ Len(Slices(t, ranges)) = Len(ranges)
         /\ Sentences(t, Append(ranges, r)) = Append(Sentences(t, ranges), SubSeq(t, r.start, r.end))
         /\ Slices(t, Append(ranges, r)) = Append(Slices(t, ranges), Trim(SubSeq(t, r.start, r.end)))
<1>. DEFINE R == RangesOf(t)
            T == Seq(Char)
            f == [x \in R |-> SubSeq(t, x.start, x.end)]
            g == [x \in R |-> Trim(SubSeq(t, x.start, x.end))]
<1>1. ASSUME NEW x \in R
      PROVE  SubSeq(t, x.start, x.end) \in T /\ Trim(SubSeq(t, x.start, x.end)) \in T
  <2>1. x.start \in 1 .. Len(t) + 1 /\ x.end \in x.start - 1 .. Len(t)
    BY DEF RangesOf
  <2>2. SubSeq(t, x.start, x.end) \in Seq(Char)
    BY <2>1, StretchFacts
  <2>. QED  BY <2>2, TrimFacts
<1>2. f \in [R -> T] /\ g \in [R -> T]
  <2>. HIDE DEF R, T
  <2>. QED  BY <1>1
<1>3. ASSUME NEW s \in Seq(R)
      PROVE  Sentences(t, s) = Each(f, s) /\ Slices(t, s) = Each(g, s)
  <2>1. \A k \in DOMAIN s : s[k] \in R
    <3>. HIDE DEF R
    <3>. QED  OBVIOUS
  <2>. HIDE DEF R
  <2>2. \A k \in DOMAIN s : /\ f[s[k]] = SubSeq(t, s[k].start, s[k].end)
                            /\ g[s[k]] = Trim(SubSeq(t, s[k].start, s[k].end))
    BY <2>1
  <2>. HIDE DEF f, g
  <2>. QED  BY <2>2 DEF Sentences, Slices, Each
<1>4. /\ f[r] = SubSeq(t, r.start, r.end) /\ g[r] = Trim(SubSeq(t, r.start, r.end))
      /\ ranges \in Seq(R) /\ r \in R /\ Append(ranges, r) \in Seq(R)
  <2>1. Append(ranges, r) \in Seq(R)
    BY AppendFacts
  <2>. QED  BY <2>1
<1>. DEFINE w == Append(ranges, r)
<1>. HIDE DEF f, g, w
<1>5. ASSUME NEW h \in Maps(R, T)
      PROVE  /\ Each(h, ranges) \in Seq(T) /\ Len(Each(h, ranges)) = Len(ranges)
             /\ Each(h, Append(ranges, r)) = Append(Each(h, ranges), h[r])
  BY EachAppend
<1>6. /\ Each(f, ranges) \in Seq(T) /\ Len(Each(f, ranges)) = Len(ranges)
      /\ Each(f, Append(ranges, r)) = Append(Each(f, ranges), f[r])
      /\ Each(g, ranges) \in Seq(T) /\ Len(Each(g, ranges)) = Len(ranges)
      /\ Each(g, Append(ranges, r)) = Append(Each(g, ranges), g[r])
  <2>. HIDE DEF R, T
  <2>. QED  BY <1>2, <1>5 DEF Maps
<1>7. /\ Sentences(t, ranges) = Each(f, ranges) /\ Slices(t, ranges) = Each(g, ranges)
      /\ Sentences(t, w) = Each(f, w) /\ Slices(t, w) = Each(g, w)
  BY <1>3, <1>4 DEF w
<1>. QED  BY <1>1, <1>4, <1>5, <1>6, <1>7 DEF w

\* What handleAcceptAll puts down for the k-th sentence.
Part(slices, k) == IF k = 1 THEN slices[k] ELSE <<" ">> \o slices[k]

\* Of no sentence handleAcceptAll makes an empty text.
LEMMA JoinedNone == Joined(<<>>) = <<>>
<1>1. [k \in DOMAIN <<>> |-> IF k = 1 THEN <<>>[k] ELSE <<" ">> \o <<>>[k]] = <<>>
  OBVIOUS
<1>. QED  BY <1>1, FlattenEmpty DEF Joined

\* What handleAcceptAll joins, when there is one sentence more.
LEMMA JoinedAppend ==
  ASSUME NEW slices \in Seq(Seq(Char)), NEW e \in Seq(Char)
  PROVE  /\ Joined(slices) \in Seq(Char)
         /\ Joined(Append(slices, e)) = Joined(slices) \o (IF slices = <<>> THEN e ELSE <<" ">> \o e)
         /\ Letters(Joined(slices)) = Letters(FlattenSeq(slices))
<1>. DEFINE T == Seq(Char)
            parts(s) == [k \in DOMAIN s |-> Part(s, k)]
            d == IF slices = <<>> THEN e ELSE <<" ">> \o e
            n == Len(slices)
            w == Append(slices, e)
<1>0. ASSUME NEW x \in T PROVE <<" ">> \o x \in T
  <2>. DEFINE a == <<" ">>
  <2>1. a \in Seq(Char)
    BY SpaceFacts
  <2>. HIDE DEF a
  <2>2. a \o x \in Seq(Char)
    BY <2>1, ConcatType
  <2>. QED  BY <2>2 DEF a
<1>1. \A s : Joined(s) = FlattenSeq(parts(s))
  BY Zenon DEF Joined, Part
<1>2. ASSUME NEW s \in Seq(T) PROVE parts(s) \in Seq(T) /\ Len(parts(s)) = Len(s)
  <2>1. Len(s) \in Nat /\ DOMAIN s = 1 .. Len(s) /\ \A k \in 1 .. Len(s) : s[k] \in T
    <3>. HIDE DEF T
    <3>. QED  OBVIOUS
  <2>. HIDE DEF T
  <2>2. parts(s) \in [1 .. Len(s) -> T]
    BY <1>0, <2>1 DEF Part
  <2>. HIDE DEF parts
  <2>. QED  BY <2>1, <2>2, FunctionIsSeq
<1>3. /\ w \in Seq(T) /\ Len(w) = n + 1 /\ n \in Nat /\ DOMAIN w = 1 .. n + 1 /\ DOMAIN slices = 1 .. n
      /\ w[n + 1] = e /\ \A i \in 1 .. n : w[i] = slices[i]
  <2>. HIDE DEF T
  <2>. QED  BY AppendFacts DEF T
<1>4. slices = <<>> <=> n = 0
  OBVIOUS
<1>5. parts(w)[n + 1] = d /\ \A i \in 1 .. n : parts(w)[i] = parts(slices)[i]
  <2>1. n + 1 \in DOMAIN w /\ \A i \in 1 .. n : i \in DOMAIN w /\ i \in DOMAIN slices
    BY <1>3
  <2>2. n + 1 = 1 <=> slices = <<>>
    BY <1>3, <1>4
  <2>3. parts(w)[n + 1] = Part(w, n + 1)
        /\ \A i \in 1 .. n : parts(w)[i] = Part(w, i) /\ parts(slices)[i] = Part(slices, i)
    <3>. HIDE DEF w, n
    <3>. QED  BY <2>1
  <2>4. Part(w, n + 1) = d
    <3>. HIDE DEF w, n
    <3>. QED  BY <1>3, <2>2 DEF Part
  <2>5. \A i \in 1 .. n : Part(w, i) = Part(slices, i)
    <3>. HIDE DEF w, n
    <3>. QED  BY <1>3, Zenon DEF Part
  <2>. QED  BY <2>3, <2>4, <2>5
<1>6. d \in T
  BY <1>0
<1>7. parts(slices) \in Seq(T) /\ Len(parts(slices)) = n /\ parts(w) \in Seq(T) /\ Len(parts(w)) = n + 1
  <2>1. parts(slices) \in Seq(T) /\ Len(parts(slices)) = n
    BY <1>2
  <2>2. parts(w) \in Seq(T) /\ Len(parts(w)) = Len(w)
    BY <1>2, <1>3
  <2>. QED  BY <1>3, <2>1, <2>2
<1>8. parts(w) = Append(parts(slices), d)
  <2>. DEFINE p == parts(slices)
              q == parts(w)
              v == Append(p, d)
  <2>1. p \in Seq(T) /\ Len(p) = n /\ q \in Seq(T) /\ Len(q) = n + 1 /\ q[n + 1] = d
        /\ \A i \in 1 .. n : q[i] = p[i]
    BY <1>5, <1>7
  <2>. HIDE DEF parts, p, q, d, T, n, w
  <2>2. v \in Seq(T) /\ Len(v) = n + 1 /\ v[n + 1] = d /\ \A i \in 1 .. n : v[i] = p[i]
    BY <1>6, <2>1, AppendFacts
  <2>. HIDE DEF v
  <2>3. \A i \in 1 .. Len(q) : q[i] = v[i]
    BY <1>3, <2>1, <2>2
  <2>4. q = v
    BY <2>1, <2>2, <2>3, SeqEqual
  <2>. QED  BY <2>4 DEF p, q, v
<1>9. Joined(w) = Joined(slices) \o d
  <2>. HIDE DEF parts, d, w
  <2>1. FlattenSeq(Append(parts(slices), d)) = FlattenSeq(parts(slices)) \o d
    BY <1>6, <1>7, FlattenAppend
  <2>. QED  BY <1>1, <1>8, <2>1
<1>10. Joined(slices) \in Seq(Char)
  <2>1. parts(slices) \in Seq(Seq(Char))
    BY <1>7
  <2>. HIDE DEF parts
  <2>. QED  BY <1>1, <2>1, FlattenType
<1>11. Letters(Joined(slices)) = Letters(FlattenSeq(slices))
  <2>1. ASSUME NEW i \in DOMAIN slices PROVE Letters(parts(slices)[i]) = Letters(slices[i])
    <3>1. slices[i] \in Seq(Char)
      OBVIOUS
    <3>. DEFINE a == <<" ">>
                b == slices[i]
    <3>2. a \in Seq(Char) /\ Letters(a) = <<>> /\ b \in Seq(Char)
      BY <3>1, SpaceFacts
    <3>. HIDE DEF a, b
    <3>4. Letters(a \o b) = Letters(a) \o Letters(b) /\ Letters(b) \in Seq(Letter)
      BY <3>2, LettersJoin
    <3>. DEFINE l == Letters(b)
    <3>5. <<>> \o l = l
      <4>1. l \in Seq(Letter)
        BY <3>4
      <4>. HIDE DEF l
      <4>. QED  BY <4>1
    <3>6. Letters(a \o b) = Letters(b)
      BY <3>2, <3>4, <3>5
    <3>. QED  BY <3>6 DEF a, b, Part
  <2>2. DOMAIN parts(slices) = DOMAIN slices
    OBVIOUS
  <2>3. parts(slices) \in Seq(Seq(Char))
    BY <1>7
  <2>. HIDE DEF parts
  <2>4. [i \in DOMAIN parts(slices) |-> Letters(parts(slices)[i])] = [i \in DOMAIN slices |-> Letters(slices[i])]
    BY <2>1, <2>2
  <2>5. \A s \in Seq(Seq(Char)) : Letters(FlattenSeq(s)) = FlattenSeq([i \in DOMAIN s |-> Letters(s[i])])
    BY LettersJoin
  <2>. QED  BY <1>1, <2>3, <2>4, <2>5
<1>. QED  BY <1>9, <1>10, <1>11

-----------------------------------------------------------------------------
(* One round of the loop over the matches.                                 *)

\* The sentences found have the letters of the text read.
KeepsLetters(t, s) ==
  Letters(FlattenSeq(Sentences(t, s.ranges))) = Letters(SubSeq(t, 1, s.at - 1))

\* The sentences found make the text read, which ends behind white space.
KeepsText(t, s) ==
  /\ s.at = 1 \/ s.at = Len(t) + 1 \/ t[s.at - 1] = " "
  /\ NormalizeText(Joined(Slices(t, s.ranges))) = NormalizeText(SubSeq(t, 1, s.at - 1))

\* No match is left.
Ended(t, s) == First(t, s.at, Char \ {"."}) > Len(t)

\* Where a round of the loop starts its match and where it ends it.
LEMMA MatchPlace ==
  ASSUME NEW t \in Seq(Char), NEW s \in ScanState(t), ~Ended(t, s),
         NEW start, start = First(t, s.at, Char \ {"."}), NEW after, after = Match(t, start)
  PROVE  /\ s.at \in 1 .. Len(t) /\ start \in s.at .. Len(t) /\ after \in start + 1 .. Len(t) + 1
         /\ \A k \in s.at .. start - 1 : t[k] = "."
         /\ [start |-> start, end |-> after - 1] \in RangesOf(t)
<1>. DEFINE n == Len(t)
            at == s.at
<1>0. n \in Nat /\ at \in 1 .. n + 1 /\ s.ranges \in Seq(RangesOf(t)) /\ \A k \in 1 .. n : t[k] \in Char
  BY DEF ScanState
<1>1. /\ start \in at .. n + 1 /\ (start <= n => t[start] \in Char \ {"."})
      /\ \A k \in at .. start - 1 : t[k] \notin Char \ {"."}
  <2>1. s.at \in 1 .. Len(t) + 1
    BY <1>0
  <2>. QED  BY <2>1, FirstFacts
<1>2. ~(start > n)
  BY DEF Ended
<1>. HIDE DEF n, at
<1>3. /\ start \in at .. n /\ at \in 1 .. n /\ start \in 1 .. n /\ t[start] # "."
  BY <1>0, <1>1, <1>2
<1>4. after \in start + 1 .. n + 1
  <2>1. start \in 1 .. Len(t)
    BY <1>3 DEF n
  <2>. QED  BY <1>3, <2>1, MatchFacts DEF n
<1>5. ASSUME NEW k \in at .. start - 1 PROVE t[k] = "."
  <2>1. k \in 1 .. n
    BY <1>0, <1>3
  <2>. QED  BY <1>0, <1>1, <2>1
<1>6. after - 1 \in 1 .. n /\ start <= after - 1
  BY <1>0, <1>3, <1>4
<1>. QED  BY <1>3, <1>4, <1>5, <1>6 DEF n, at, RangesOf

\* A round of the loop skips characters that are no letters.
LEMMA RoundKeepsLetters ==
  ASSUME NEW t \in Seq(Char), NEW s \in ScanState(t), KeepsLetters(t, s)
  PROVE  KeepsLetters(t, NextMatch(t, s))
<1>. DEFINE n == Len(t)
            at == s.at
            start == First(t, at, Char \ {"."})
            after == Match(t, start)
            r == [start |-> start, end |-> after - 1]
            piece == SubSeq(t, start, after - 1)
            dots == SubSeq(t, at, start - 1)
            u == SubSeq(t, 1, at - 1)
            found == FlattenSeq(Sentences(t, s.ranges))
<1>1. CASE Ended(t, s)
  <2>1. NextMatch(t, s) = s
    BY <1>1 DEF NextMatch, Ended
  <2>. QED  BY <2>1
<1>2. CASE ~Ended(t, s)
  <2>1. /\ at \in 1 .. n /\ start \in at .. n /\ after \in start + 1 .. n + 1
        /\ \A k \in at .. start - 1 : t[k] = "."
        /\ r \in RangesOf(t)
    <3>. HIDE DEF start, after
    <3>. QED  BY <1>2, MatchPlace DEF start, after
  <2>2. /\ NextMatch(t, s).at = after
        /\ NextMatch(t, s).ranges = IF NormalizeText(piece) = <<>> THEN s.ranges ELSE Append(s.ranges, r)
    <3>1. ~(start > Len(t))
      BY <1>2 DEF Ended
    <3>. HIDE DEF start, after
    <3>2. NextMatch(t, s) = [at |-> after,
                             ranges |-> IF NormalizeText(piece) = <<>> THEN s.ranges ELSE Append(s.ranges, r)]
      BY <3>1 DEF NextMatch, start, after
    <3>. QED  BY <3>2
  <2>3. n \in Nat /\ s.ranges \in Seq(RangesOf(t))
    BY DEF ScanState
  <2>. HIDE DEF start, after, at
  <2>4. /\ u \in Seq(Char) /\ dots \in Seq(Char) /\ piece \in Seq(Char)
        /\ Len(dots) = start - at /\ \A i \in 1 .. start - at : dots[i] = t[at + i - 1]
        /\ SubSeq(t, 1, after - 1) = (u \o dots) \o piece
    <3>1. /\ 1 \in 1 .. Len(t) + 1 /\ at - 1 \in 1 - 1 .. Len(t) /\ at \in 1 .. Len(t) + 1
          /\ start - 1 \in at - 1 .. Len(t) /\ start \in 1 .. Len(t) + 1 /\ after - 1 \in start - 1 .. Len(t)
          /\ start - 1 \in 1 - 1 .. Len(t) /\ (at - 1) + 1 = at /\ (start - 1) + 1 = start
          /\ (start - 1) - at + 1 = start - at
      BY <2>1, <2>3
    <3>2. u \in Seq(Char)
      BY <3>1, StretchFacts
    <3>3. /\ dots \in Seq(Char) /\ Len(dots) = (start - 1) - at + 1
          /\ \A i \in 1 .. (start - 1) - at + 1 : dots[i] = t[at + i - 1]
      BY <3>1, StretchFacts
    <3>4. piece \in Seq(Char)
      BY <3>1, StretchFacts
    <3>5. SubSeq(t, 1, start - 1) = SubSeq(t, 1, at - 1) \o SubSeq(t, (at - 1) + 1, start - 1)
      BY <3>1, StretchCut
    <3>6. SubSeq(t, 1, after - 1) = SubSeq(t, 1, start - 1) \o SubSeq(t, (start - 1) + 1, after - 1)
      <4>1. after - 1 \in start - 1 .. Len(t)
        BY <3>1
      <4>. QED  BY <3>1, <4>1, StretchCut
    <3>. QED  BY <3>1, <3>2, <3>3, <3>4, <3>5, <3>6
  <2>5. Letters(dots) = <<>>
    <3>1. Len(dots) \in Nat /\ DOMAIN dots = 1 .. Len(dots)
      BY <2>4
    <3>2. ASSUME NEW i \in DOMAIN dots PROVE dots[i] = "."
      <4>1. i \in 1 .. start - at /\ at + i - 1 \in at .. start - 1
        BY <2>1, <2>3, <2>4, <3>1
      <4>. QED  BY <2>1, <2>4, <4>1
    <3>. HIDE DEF dots
    <3>3. \A i \in DOMAIN dots : dots[i] \notin Letter
      BY <3>2, PlainTextAssumption
    <3>. QED  BY <2>4, <3>3, LettersNone
  <2>6. /\ found \in Seq(Char) /\ Letters(found) = Letters(u)
        /\ r.start = start /\ r.end = after - 1
        /\ FlattenSeq(Sentences(t, Append(s.ranges, r))) = found \o piece
    <3>1. /\ Sentences(t, s.ranges) \in Seq(Seq(Char))
          /\ Sentences(t, Append(s.ranges, r)) = Append(Sentences(t, s.ranges), SubSeq(t, r.start, r.end))
      <4>. HIDE DEF r
      <4>. QED  BY <2>1, <2>3, SentencesFacts
    <3>2. r.start = start /\ r.end = after - 1
      OBVIOUS
    <3>3. Letters(found) = Letters(u)
      BY DEF KeepsLetters, at
    <3>. DEFINE ss == Sentences(t, s.ranges)
    <3>. HIDE DEF r, piece, ss
    <3>4. found \in Seq(Char)
      BY <3>1, FlattenType
    <3>5. FlattenSeq(Append(ss, piece)) = FlattenSeq(ss) \o piece
      BY <2>4, <3>1, FlattenAppend DEF ss
    <3>. QED  BY <3>1, <3>2, <3>3, <3>4, <3>5 DEF ss, piece
  <2>7. Letters(SubSeq(t, 1, after - 1)) = Letters(u) \o Letters(piece)
    <3>. HIDE DEF u, dots, piece
    <3>1. u \o dots \in Seq(Char)
      BY <2>4, ConcatType
    <3>2. Letters((u \o dots) \o piece) = Letters(u \o dots) \o Letters(piece)
      BY <2>4, <3>1, LettersJoin
    <3>3. Letters(u \o dots) = Letters(u) \o <<>>
      BY <2>4, <2>5, LettersJoin
    <3>4. Letters(u) \o <<>> = Letters(u)
      <4>1. Letters(u) \in Seq(Letter)
        BY <2>4, LettersJoin
      <4>. QED  BY <4>1
    <3>. QED  BY <2>4, <3>2, <3>3, <3>4
  <2>. HIDE DEF u, piece, found, r
  <2>8. CASE NormalizeText(piece) = <<>>
    <3>1. Letters(piece) = <<>>
      <4>1. Letters(NormalizeText(piece)) = Letters(piece)
        BY <2>4, NormalizeLetters
      <4>2. Letters(<<>>) = <<>>
        BY FlattenEmpty DEF Letters
      <4>. QED  BY <2>8, <4>1, <4>2
    <3>2. Letters(u) \o <<>> = Letters(u)
      <4>1. Letters(u) \in Seq(Letter)
        BY <2>4, LettersJoin
      <4>. QED  BY <4>1
    <3>. QED  BY <2>2, <2>6, <2>7, <2>8, <3>1, <3>2 DEF KeepsLetters, found
  <2>9. CASE NormalizeText(piece) # <<>>
    <3>1. Letters(found \o piece) = Letters(found) \o Letters(piece)
      BY <2>4, <2>6, LettersJoin
    <3>. QED  BY <2>2, <2>6, <2>7, <2>9, <3>1 DEF KeepsLetters
  <2>. QED  BY <2>8, <2>9
<1>. QED  BY <1>1, <1>2

\* A round of the loop on a well punctuated text skips nothing.
LEMMA RoundKeepsText ==
  ASSUME NEW t \in Seq(Char), NEW s \in ScanState(t), KeepsText(t, s), WellPunctuated(t)
  PROVE  KeepsText(t, NextMatch(t, s)) /\ (~Ended(t, s) => s.at = First(t, s.at, Char \ {"."}))
<1>. DEFINE n == Len(t)
            at == s.at
            start == First(t, at, Char \ {"."})
            after == Match(t, start)
            r == [start |-> start, end |-> after - 1]
            piece == SubSeq(t, start, after - 1)
            u == SubSeq(t, 1, at - 1)
            shown == Slices(t, s.ranges)
<1>1. CASE Ended(t, s)
  <2>1. NextMatch(t, s) = s
    BY <1>1 DEF NextMatch, Ended
  <2>. QED  BY <1>1, <2>1
<1>2. CASE ~Ended(t, s)
  <2>1. /\ at \in 1 .. n /\ start \in at .. n /\ after \in start + 1 .. n + 1
        /\ \A k \in at .. start - 1 : t[k] = "."
        /\ r \in RangesOf(t)
    <3>. HIDE DEF start, after
    <3>. QED  BY <1>2, MatchPlace DEF start, after
  <2>2. /\ NextMatch(t, s).at = after
        /\ NextMatch(t, s).ranges = IF NormalizeText(piece) = <<>> THEN s.ranges ELSE Append(s.ranges, r)
    <3>1. ~(start > Len(t))
      BY <1>2 DEF Ended
    <3>. HIDE DEF start, after
    <3>2. NextMatch(t, s) = [at |-> after,
                             ranges |-> IF NormalizeText(piece) = <<>> THEN s.ranges ELSE Append(s.ranges, r)]
      BY <3>1 DEF NextMatch, start, after
    <3>. QED  BY <3>2
  <2>3. n \in Nat /\ s.ranges \in Seq(RangesOf(t)) /\ DOMAIN t = 1 .. n
    BY DEF ScanState
  <2>a. /\ at \in Nat /\ start \in Nat /\ after \in Nat /\ 1 <= at /\ at <= start /\ start <= n
        /\ start < after /\ after <= n + 1
    <3>. HIDE DEF start, after, at, n
    <3>1. at \in 1 .. n /\ start \in at .. n /\ after \in start + 1 .. n + 1
      BY <2>1
    <3>. QED  BY <2>3, <3>1
  <2>4. at = 1 \/ t[at - 1] = " "
    <3>1. at = 1 \/ at = n + 1 \/ t[at - 1] = " "
      BY DEF KeepsText
    <3>. HIDE DEF at, n, start, after
    <3>2. at # n + 1
      BY <2>3, <2>a
    <3>. QED  BY <3>1, <3>2
  <2>5. start = at
    <3>. SUFFICES ASSUME start # at PROVE FALSE
      OBVIOUS
    <3>. HIDE DEF start, at, n
    <3>1. at \in at .. start - 1 /\ at \in 1 .. n
      BY <2>1, <2>3
    <3>2. at \in DOMAIN t /\ t[at] = "."
      BY <2>1, <2>3, <3>1
    <3>3. at > 1 /\ t[at - 1] \in Letter
      BY <3>2 DEF WellPunctuated
    <3>4. at # 1
      BY <2>a, <3>3
    <3>5. " " \notin Letter
      BY PlainTextAssumption
    <3>. QED  BY <2>4, <3>3, <3>4, <3>5
  <2>6. after = n + 1 \/ t[after - 1] = " "
    <3>. SUFFICES ASSUME after # n + 1 PROVE t[after - 1] = " "
      OBVIOUS
    <3>0. start \in 1 .. Len(t) /\ t[start] # "."
      <4>1. s.at \in 1 .. Len(t) + 1
        BY <2>1
      <4>2. start <= Len(t) => t[start] \in Char \ {"."}
        BY <4>1, FirstFacts
      <4>. HIDE DEF start, at
      <4>. QED  BY <2>1, <2>3, <4>2
    <3>. HIDE DEF start
    <3>1. after <= Len(t) =>
            \E stop \in start .. after - 1 :
              t[stop] = "." /\ (\A k \in stop + 1 .. after - 1 : t[k] = " ") /\ t[after] # " "
      BY <3>0, MatchFacts
    <3>a. after <= Len(t)
      <4>. HIDE DEF after, at
      <4>. QED  BY <2>3, <2>a
    <3>. HIDE DEF after, at, n
    <3>2. PICK stop \in start .. after - 1 :
            t[stop] = "." /\ (\A k \in stop + 1 .. after - 1 : t[k] = " ") /\ t[after] # " "
      BY <3>1, <3>a
    <3>b. /\ n = Len(t) /\ after <= n /\ stop \in Nat /\ start <= stop /\ stop <= after - 1
      BY <2>a, <3>a DEF n
    <3>3. stop \in DOMAIN t /\ stop # Len(t)
      <4>0. n \in Nat
        BY <2>3
      <4>1. stop \in 1 .. n /\ stop # n
        BY <2>a, <3>b, <4>0
      <4>. QED  BY <2>3, <3>b, <4>1
    <3>4. t[stop + 1] = " "
      BY <3>2, <3>3 DEF WellPunctuated, IsSpace
    <3>5. stop + 1 # after
      BY <3>2, <3>4
    <3>6. after - 1 \in stop + 1 .. after - 1
      BY <2>a, <3>b, <3>5
    <3>. QED  BY <3>2, <3>6
  <2>. HIDE DEF start, after, at
  <2>7. u \in Seq(Char) /\ piece \in Seq(Char) /\ SubSeq(t, 1, after - 1) = u \o piece /\ ~EndsSolid(u)
    <3>1. /\ 1 \in 1 .. Len(t) + 1 /\ at - 1 \in 1 - 1 .. Len(t) /\ at \in 1 .. Len(t) + 1
          /\ after - 1 \in at - 1 .. Len(t) /\ (at - 1) + 1 = at /\ (at - 1) - 1 + 1 = at - 1
      BY <2>1, <2>3, <2>5
    <3>2. /\ u \in Seq(Char) /\ Len(u) = (at - 1) - 1 + 1
          /\ \A i \in 1 .. (at - 1) - 1 + 1 : u[i] = t[1 + i - 1]
      BY <3>1, StretchFacts
    <3>3. piece \in Seq(Char)
      BY <2>5, <3>1, StretchFacts
    <3>4. SubSeq(t, 1, after - 1) = SubSeq(t, 1, at - 1) \o SubSeq(t, (at - 1) + 1, after - 1)
      BY <3>1, StretchCut
    <3>5. ~EndsSolid(u)
      <4>1. CASE at = 1
        <5>1. Len(u) = 0
          BY <3>1, <3>2, <4>1
        <5>2. u = <<>>
          BY <3>2, <5>1
        <5>. QED  BY <5>2 DEF EndsSolid
      <4>2. CASE at # 1
        <5>0. at - 1 \in 1 .. (at - 1) - 1 + 1 /\ Len(u) = at - 1 /\ 1 + (at - 1) - 1 = at - 1
          BY <2>1, <2>3, <3>2, <4>2
        <5>1. u[at - 1] = t[1 + (at - 1) - 1]
          BY <3>2, <5>0
        <5>. QED  BY <2>4, <4>2, <5>0, <5>1 DEF EndsSolid
      <4>. QED  BY <4>1, <4>2
    <3>. QED  BY <2>5, <3>1, <3>2, <3>3, <3>4, <3>5
  <2>8. NormalizeText(SubSeq(t, 1, after - 1)) = Glue(NormalizeText(u), NormalizeText(piece))
    <3>. HIDE DEF u, piece
    <3>. QED  BY <2>7, NormalizeJoin
  <2>9. NormalizeText(Joined(shown)) = NormalizeText(u)
    BY DEF KeepsText, at
  <2>10. /\ r.start = start /\ r.end = after - 1
         /\ shown \in Seq(Seq(Char))
         /\ Joined(Slices(t, Append(s.ranges, r))) =
              Joined(shown) \o (IF shown = <<>> THEN Trim(piece) ELSE <<" ">> \o Trim(piece))
    <3>1. r.start = start /\ r.end = after - 1
      OBVIOUS
    <3>. HIDE DEF r
    <3>2. /\ shown \in Seq(Seq(Char)) /\ Len(shown) = Len(s.ranges)
          /\ Slices(t, Append(s.ranges, r)) = Append(shown, Trim(SubSeq(t, r.start, r.end)))
      BY <2>1, <2>3, SentencesFacts
    <3>. HIDE DEF shown, piece
    <3>. DEFINE x == Trim(piece)
    <3>5. x \in Seq(Char)
      BY <2>7, TrimFacts
    <3>. HIDE DEF x
    <3>6. Joined(Append(shown, x)) = Joined(shown) \o (IF shown = <<>> THEN x ELSE <<" ">> \o x)
      BY <3>2, <3>5, JoinedAppend
    <3>. QED  BY <3>1, <3>2, <3>6 DEF x, piece
  <2>11. KeepsText(t, NextMatch(t, s))
    <3>. DEFINE a == NormalizeText(u)
                b == NormalizeText(piece)
                x == Trim(piece)
                j == Joined(shown)
    <3>0. a \in Seq(Char) /\ b \in Seq(Char) /\ x \in Seq(Char) /\ NormalizeText(x) = b /\ j \in Seq(Char)
      <4>1. j \in Seq(Char)
        BY <2>10, <2>7, JoinedAppend
      <4>. QED  BY <2>7, <4>1, NormalizeShape, TrimFacts
    <3>. HIDE DEF u, piece, r, shown, a, b, x, j
    <3>1. CASE b = <<>>
      <4>1. Glue(a, b) = a
        BY <3>1 DEF Glue
      <4>. QED  BY <2>2, <2>6, <2>8, <2>9, <3>1, <4>1 DEF KeepsText, a, b, shown, n
    <3>2. CASE b # <<>>
      <4>1. ASSUME shown # <<>> PROVE NormalizeText(j \o (<<" ">> \o x)) = Glue(a, b)
        <5>. DEFINE e == " "
                    c == <<e>>
        <5>1. e \in Char /\ c \in Seq(Char) /\ j \o c = Append(j, e) /\ Append(j, e) \in Seq(Char)
          <6>1. e \in Char
            BY SpaceFacts
          <6>. HIDE DEF e
          <6>2. <<e>> \in Seq(Char) /\ j \o <<e>> = Append(j, e)
            BY <3>0, <6>1
          <6>3. Append(j, e) \in Seq(Char)
            BY <3>0, <6>1, AppendFacts
          <6>. QED  BY <6>1, <6>2, <6>3
        <5>2. NormalizeText(Append(j, e)) = NormalizeText(j) /\ ~EndsSolid(Append(j, e))
          BY <3>0, <5>1, NormalizeStep, EndsFacts
        <5>. HIDE DEF e, c
        <5>3. (j \o c) \o x = j \o (c \o x)
          <6>1. j \in Seq(Char) /\ c \in Seq(Char) /\ x \in Seq(Char)
            BY <3>0, <5>1
          <6>. QED  BY <6>1, ConcatAssoc, SMTT(60)
        <5>4. NormalizeText((j \o c) \o x) = Glue(NormalizeText(j \o c), NormalizeText(x))
          BY <3>0, <5>1, <5>2, NormalizeJoin
        <5>5. NormalizeText(j \o c) = a
          BY <2>9, <5>1, <5>2 DEF a, j
        <5>. QED  BY <3>0, <5>3, <5>4, <5>5 DEF e, c
      <4>2. ASSUME shown = <<>> PROVE NormalizeText(j \o x) = Glue(a, b)
        <5>1. j = <<>> /\ a = <<>>
          <6>1. j = <<>>
            BY <4>2, JoinedNone DEF j
          <6>. QED  BY <2>9, <6>1, NormalizeEmpty DEF a, j
        <5>2. <<>> \o x = x
          BY <3>0
        <5>. QED  BY <3>0, <5>1, <5>2 DEF Glue
      <4>3. NormalizeText(Joined(Slices(t, Append(s.ranges, r)))) = Glue(a, b)
        BY <2>10, <4>1, <4>2 DEF j, x
      <4>. QED  BY <2>2, <2>6, <2>8, <3>2, <4>3 DEF KeepsText, a, b, n
    <3>. QED  BY <3>1, <3>2
  <2>. QED  BY <2>5, <2>11 DEF start, at
<1>. QED  BY <1>1, <1>2

-----------------------------------------------------------------------------
(* The rounds of splitTextIntoSentenceRanges.                              *)

\* The rounds of the loop of splitTextIntoSentenceRanges.
ScanRounds(t, h) ==
  /\ h[0] = [at |-> 1, ranges |-> <<>>]
  /\ \A i \in 1 .. Len(t) : h[i] = NextMatch(t, h[i - 1])

\* A round keeps the state of the loop and goes on in the text.
LEMMA RoundType ==
  ASSUME NEW t \in Seq(Char), NEW s \in ScanState(t)
  PROVE  /\ NextMatch(t, s) \in ScanState(t)
         /\ IF Ended(t, s) THEN NextMatch(t, s) = s ELSE NextMatch(t, s).at > s.at
<1>1. CASE Ended(t, s)
  <2>1. NextMatch(t, s) = s
    BY <1>1 DEF NextMatch, Ended
  <2>. QED  BY <1>1, <2>1
<1>2. CASE ~Ended(t, s)
  <2>. DEFINE start == First(t, s.at, Char \ {"."})
              after == Match(t, start)
              r == [start |-> start, end |-> after - 1]
              ranges == IF NormalizeText(SubSeq(t, start, after - 1)) = <<>> THEN s.ranges
                        ELSE Append(s.ranges, r)
  <2>1. /\ s.at \in 1 .. Len(t) /\ start \in s.at .. Len(t) /\ after \in start + 1 .. Len(t) + 1
        /\ r \in RangesOf(t)
    <3>. HIDE DEF start, after
    <3>. QED  BY <1>2, MatchPlace DEF start, after
  <2>2. NextMatch(t, s) = [at |-> after, ranges |-> ranges]
    <3>1. ~(start > Len(t))
      BY <1>2 DEF Ended
    <3>. HIDE DEF start, after
    <3>. QED  BY <3>1 DEF NextMatch, start, after
  <2>. HIDE DEF start, after, r
  <2>3. ranges \in Seq(RangesOf(t))
    <3>1. s.ranges \in Seq(RangesOf(t))
      BY DEF ScanState
    <3>2. Append(s.ranges, r) \in Seq(RangesOf(t))
      BY <2>1, <3>1, AppendFacts
    <3>. QED  BY <3>1, <3>2
  <2>. HIDE DEF ranges
  <2>4. Len(t) \in Nat
    OBVIOUS
  <2>5. after \in 1 .. Len(t) + 1 /\ after > s.at
    BY <2>1, <2>4
  <2>. QED  BY <1>2, <2>2, <2>3, <2>5 DEF ScanState
<1>. QED  BY <1>1, <1>2

\* The loop has its rounds.
LEMMA ScanIsRounds ==
  ASSUME NEW t \in Seq(Char)
  PROVE  \E h : ScanRounds(t, h) /\ Scan(t) = h[Len(t)].ranges
<1>. DEFINE S == ScanState(t)
            n == Len(t)
            x == [at |-> 1, ranges |-> <<>>]
            step == [i \in 1 .. n |-> [s \in S |-> NextMatch(t, s)]]
            Def(g) == [i \in 0 .. n |-> IF i = 0 THEN x ELSE NextMatch(t, g[i - 1])]
            h == CHOOSE g : g = Def(g)
<1>0. n \in Nat
  OBVIOUS
<1>1. x \in S
  <2>1. <<>> \in Seq(RangesOf(t)) /\ 1 \in 1 .. n + 1
    BY <1>0
  <2>. QED  BY <2>1 DEF ScanState
<1>2. step \in [1 .. n -> [S -> S]]
  <2>. HIDE DEF S
  <2>1. \A s \in S : NextMatch(t, s) \in S
    BY RoundType DEF S
  <2>. QED  BY <2>1
<1>3. PICK g \in [0 .. n -> S] : Rounds(g, n, x, step)
  <2>. HIDE DEF S, n, x, step
  <2>. QED  BY <1>0, <1>1, <1>2, RoundsExist
<1>4. g = Def(g)
  <2>1. ASSUME NEW i \in 0 .. n PROVE g[i] = IF i = 0 THEN x ELSE NextMatch(t, g[i - 1])
    <3>. HIDE DEF x, S
    <3>1. CASE i = 0
      BY <1>3, <3>1 DEF Rounds
    <3>2. CASE i # 0
      <4>1. i \in 1 .. n /\ i - 1 \in 0 .. n
        BY <1>0, <3>2
      <4>2. g[i] = step[i][g[i - 1]] /\ g[i - 1] \in S
        BY <1>3, <4>1 DEF Rounds
      <4>3. step[i][g[i - 1]] = NextMatch(t, g[i - 1])
        BY <4>1, <4>2
      <4>. QED  BY <3>2, <4>2, <4>3
    <3>. QED  BY <3>1, <3>2
  <2>. HIDE DEF x, S, n
  <2>. QED  BY <1>3, <2>1
<1>5. h = Def(h)
  <2>. HIDE DEF Def
  <2>. QED  BY <1>4, Zenon
<1>6. Scan(t) = h[n].ranges
  BY Zenon DEF Scan
<1>. HIDE DEF h
<1>7. ScanRounds(t, h)
  <2>1. ASSUME NEW i \in 0 .. n PROVE h[i] = IF i = 0 THEN x ELSE NextMatch(t, h[i - 1])
    BY <1>5
  <2>2. 0 \in 0 .. n /\ \A i \in 1 .. n : i \in 0 .. n /\ i # 0
    BY <1>0
  <2>3. h[0] = x
    BY <2>1, <2>2
  <2>. HIDE DEF x
  <2>4. \A i \in 1 .. n : h[i] = NextMatch(t, h[i - 1])
    BY <2>1, <2>2
  <2>. QED  BY <2>3, <2>4 DEF ScanRounds, x
<1>. QED  BY <1>6, <1>7

\* Where no match is left, only characters that end a sentence are.
LEMMA EndedFacts ==
  ASSUME NEW t \in Seq(Char), NEW s \in ScanState(t), Ended(t, s)
  PROVE  /\ Letters(SubSeq(t, 1, s.at - 1)) = Letters(t)
         /\ WellPunctuated(t) /\ KeepsText(t, s) => SubSeq(t, 1, s.at - 1) = t
<1>. DEFINE n == Len(t)
            at == s.at
            first == First(t, at, Char \ {"."})
            u == SubSeq(t, 1, at - 1)
            v == SubSeq(t, at, n)
<1>0. /\ n \in Nat /\ at \in 1 .. n + 1 /\ at \in Nat /\ 1 <= at /\ at <= n + 1
      /\ DOMAIN t = 1 .. n /\ \A k \in 1 .. n : t[k] \in Char
  <2>1. at \in 1 .. n + 1
    BY DEF ScanState
  <2>. HIDE DEF at
  <2>. QED  BY <2>1
<1>1. first \in at .. n + 1 /\ first > n /\ \A k \in at .. first - 1 : t[k] \notin Char \ {"."}
  BY <1>0, FirstFacts DEF Ended
<1>. HIDE DEF first, at, n
<1>2. n \in Nat /\ at \in Nat /\ 1 <= at /\ at <= n + 1 /\ first = n + 1
  <2>1. n \in Nat /\ at \in Nat /\ 1 <= at /\ at <= n + 1
    BY <1>0
  <2>. QED  BY <1>1, <2>1
<1>3. ASSUME NEW k \in at .. n PROVE t[k] = "." /\ k \in 1 .. n
  <2>1. k \in at .. first - 1 /\ k \in 1 .. n
    BY <1>2
  <2>. QED  BY <1>0, <1>1, <2>1
<1>4. u \in Seq(Char) /\ v \in Seq(Char) /\ Len(v) = n - at + 1 /\ t = u \o v
      /\ \A i \in 1 .. n - at + 1 : v[i] = t[at + i - 1]
  <2>1. /\ 1 \in 1 .. Len(t) + 1 /\ at - 1 \in 1 - 1 .. Len(t) /\ at \in 1 .. Len(t) + 1
        /\ n \in at - 1 .. Len(t) /\ (at - 1) + 1 = at
    BY <1>2 DEF n
  <2>2. u \in Seq(Char)
    BY <2>1, StretchFacts
  <2>3. v \in Seq(Char) /\ Len(v) = n - at + 1 /\ \A i \in 1 .. n - at + 1 : v[i] = t[at + i - 1]
    BY <2>1, StretchFacts
  <2>4. SubSeq(t, 1, n) = u \o SubSeq(t, (at - 1) + 1, n)
    BY <2>1, StretchCut
  <2>5. SubSeq(t, 1, n) = t
    BY DEF n
  <2>. QED  BY <2>1, <2>2, <2>3, <2>4, <2>5
<1>5. Letters(v) = <<>>
  <2>1. DOMAIN v = 1 .. n - at + 1
    BY <1>2, <1>4
  <2>2. ASSUME NEW i \in 1 .. n - at + 1 PROVE v[i] = "."
    <3>1. at + i - 1 \in at .. n
      BY <1>2
    <3>. QED  BY <1>3, <1>4, <3>1
  <2>3. \A i \in DOMAIN v : v[i] \notin Letter
    BY <2>1, <2>2, PlainTextAssumption
  <2>. QED  BY <1>4, <2>3, LettersNone
<1>6. Letters(u) = Letters(t)
  <2>. HIDE DEF u, v
  <2>1. Letters(u \o v) = Letters(u) \o <<>> /\ Letters(u) \in Seq(Letter)
    BY <1>4, <1>5, LettersJoin
  <2>2. Letters(u) \o <<>> = Letters(u)
    BY <2>1
  <2>. QED  BY <1>4, <2>1, <2>2
<1>7. ASSUME WellPunctuated(t), KeepsText(t, s) PROVE u = t
  <2>1. at = 1 \/ at = n + 1 \/ t[at - 1] = " "
    BY <1>7 DEF KeepsText, at, n
  <2>2. at = n + 1
    <3>. SUFFICES ASSUME at # n + 1 PROVE FALSE
      OBVIOUS
    <3>1. at \in at .. n
      BY <1>2
    <3>2. t[at] = "." /\ at \in DOMAIN t
      BY <1>0, <1>3, <3>1
    <3>3. at > 1 /\ t[at - 1] \in Letter
      BY <1>7, <3>2 DEF WellPunctuated
    <3>4. at # 1
      BY <1>2, <3>3
    <3>5. " " \notin Letter
      BY PlainTextAssumption
    <3>. QED  BY <2>1, <3>3, <3>4, <3>5
  <2>3. at - 1 = Len(t)
    BY <1>2, <2>2 DEF n
  <2>. QED  BY <2>3
<1>. QED  BY <1>6, <1>7 DEF at

\* What the loop has found when it ends.
LEMMA ScanFacts ==
  ASSUME NEW t \in Seq(Char)
  PROVE  /\ Scan(t) \in Seq(RangesOf(t))
         /\ Letters(FlattenSeq(Sentences(t, Scan(t)))) = Letters(t)
         /\ WellPunctuated(t) => NormalizeText(Joined(Slices(t, Scan(t)))) = NormalizeText(t)
<1>. DEFINE n == Len(t)
<1>1. PICK h : ScanRounds(t, h) /\ Scan(t) = h[n].ranges
  BY ScanIsRounds
<1>. DEFINE Good(k) == /\ h[k] \in ScanState(t)
                       /\ KeepsLetters(t, h[k])
                       /\ WellPunctuated(t) => KeepsText(t, h[k])
                       /\ h[k].at > k \/ Ended(t, h[k])
            Q == {k \in Nat : k <= n => Good(k)}
<1>2. n \in Nat
  OBVIOUS
<1>3. 0 \in Q
  <2>1. h[0].at = 1 /\ h[0].ranges = <<>> /\ h[0] = [at |-> 1, ranges |-> <<>>]
    BY <1>1 DEF ScanRounds
  <2>2. h[0] \in ScanState(t)
    <3>1. <<>> \in Seq(RangesOf(t)) /\ 1 \in 1 .. n + 1
      BY <1>2
    <3>. QED  BY <2>1, <3>1 DEF ScanState
  <2>3. SubSeq(t, 1, 1 - 1) = <<>>
    <3>1. 1 - 1 \in 1 - 1 .. Len(t) /\ 1 \in 1 .. Len(t) + 1
      BY <1>2
    <3>2. SubSeq(t, 1, 1 - 1) \in Seq(Char) /\ Len(SubSeq(t, 1, 1 - 1)) = 1 - 1 - 1 + 1
      BY <3>1, StretchFacts
    <3>. QED  BY <3>2
  <2>4. Sentences(t, <<>>) = <<>> /\ Slices(t, <<>>) = <<>>
    BY DEF Sentences, Slices
  <2>5. FlattenSeq(<<>>) = <<>> /\ Joined(<<>>) = <<>> /\ NormalizeText(<<>>) = <<>>
    BY JoinedNone, FlattenEmpty, NormalizeEmpty
  <2>6. KeepsLetters(t, h[0])
    BY <2>1, <2>3, <2>4, <2>5 DEF KeepsLetters
  <2>7. KeepsText(t, h[0])
    BY <2>1, <2>3, <2>4, <2>5 DEF KeepsText
  <2>. QED  BY <2>1, <2>2, <2>6, <2>7
<1>4. ASSUME NEW k \in Nat, k \in Q PROVE k + 1 \in Q
  <2>. SUFFICES ASSUME k + 1 <= n PROVE Good(k + 1)
    OBVIOUS
  <2>1. Good(k)
    BY <1>2, <1>4
  <2>2. h[k + 1] = NextMatch(t, h[k])
    <3>1. k + 1 \in 1 .. Len(t) /\ (k + 1) - 1 = k
      BY <1>2
    <3>2. h[k + 1] = NextMatch(t, h[(k + 1) - 1])
      BY <1>1, <3>1 DEF ScanRounds
    <3>. QED  BY <3>1, <3>2
  <2>3. h[k + 1] \in ScanState(t)
        /\ IF Ended(t, h[k]) THEN h[k + 1] = h[k] ELSE h[k + 1].at > h[k].at
    BY <2>1, <2>2, RoundType
  <2>4. KeepsLetters(t, h[k + 1])
    BY <2>1, <2>2, RoundKeepsLetters
  <2>5. WellPunctuated(t) => KeepsText(t, h[k + 1])
    BY <2>1, <2>2, RoundKeepsText
  <2>6. h[k + 1].at > k + 1 \/ Ended(t, h[k + 1])
    <3>1. CASE Ended(t, h[k])
      BY <2>3, <3>1
    <3>2. CASE ~Ended(t, h[k])
      <4>1. h[k].at \in Nat /\ h[k + 1].at \in Nat
        <5>1. h[k].at \in 1 .. n + 1 /\ h[k + 1].at \in 1 .. n + 1
          BY <2>1, <2>3 DEF ScanState
        <5>. QED  BY <5>1
      <4>. QED  BY <2>1, <2>3, <3>2, <4>1
    <3>. QED  BY <3>1, <3>2
  <2>. QED  BY <2>3, <2>4, <2>5, <2>6
<1>5. Good(n)
  <2>. HIDE DEF Q
  <2>1. n \in Q
    BY <1>2, <1>3, <1>4, SetInduction
  <2>. QED  BY <1>2, <2>1 DEF Q
<1>. DEFINE s == h[n]
<1>6. s \in ScanState(t) /\ KeepsLetters(t, s) /\ (WellPunctuated(t) => KeepsText(t, s)) /\ s.ranges = Scan(t)
  BY <1>1, <1>5
<1>7. Ended(t, s)
  <2>1. s.at > n \/ Ended(t, s)
    BY <1>5
  <2>2. s.at \in 1 .. n + 1
    BY <1>6 DEF ScanState
  <2>. HIDE DEF s
  <2>3. CASE s.at > n
    <3>1. First(t, s.at, Char \ {"."}) \in s.at .. n + 1
      BY <2>2, FirstFacts
    <3>. QED  BY <1>2, <2>2, <2>3, <3>1 DEF Ended
  <2>. QED  BY <2>1, <2>3
<1>. HIDE DEF s
<1>8. s.ranges \in Seq(RangesOf(t))
  BY <1>6 DEF ScanState
<1>9. Letters(FlattenSeq(Sentences(t, s.ranges))) = Letters(t)
  <2>1. Letters(SubSeq(t, 1, s.at - 1)) = Letters(t)
    BY <1>6, <1>7, EndedFacts
  <2>. QED  BY <1>6, <2>1 DEF KeepsLetters
<1>10. ASSUME WellPunctuated(t)
       PROVE  NormalizeText(Joined(Slices(t, s.ranges))) = NormalizeText(t)
  <2>1. KeepsText(t, s)
    BY <1>6, <1>10
  <2>2. SubSeq(t, 1, s.at - 1) = t
    BY <1>6, <1>7, <1>10, <2>1, EndedFacts
  <2>. QED  BY <2>1, <2>2 DEF KeepsText
<1>. QED  BY <1>6, <1>8, <1>9, <1>10

-----------------------------------------------------------------------------
(* Accepting a plain proposal.                                             *)

\* A text taken as one sentence is that sentence.
LEMMA WholeFacts ==
  ASSUME NEW t \in Seq(Char), t # <<>>
  PROVE  LET ranges == <<[start |-> 1, end |-> Len(t)]>>
         IN ranges \in Seq(RangesOf(t)) /\ FlattenSeq(Sentences(t, ranges)) = t
<1>. DEFINE r == [start |-> 1, end |-> Len(t)]
            ranges == <<r>>
<1>1. r \in RangesOf(t) /\ r.start = 1 /\ r.end = Len(t)
  <2>1. 1 \in 1 .. Len(t) /\ Len(t) \in 1 .. Len(t) /\ 1 <= Len(t)
    OBVIOUS
  <2>. QED  BY <2>1 DEF RangesOf
<1>. HIDE DEF r
<1>2. <<>> \in Seq(RangesOf(t)) /\ ranges = Append(<<>>, r) /\ ranges \in Seq(RangesOf(t))
  BY <1>1
<1>3. Sentences(t, Append(<<>>, r)) = Append(Sentences(t, <<>>), SubSeq(t, r.start, r.end))
  BY <1>1, <1>2, SentencesFacts
<1>4. Sentences(t, <<>>) = <<>> /\ SubSeq(t, 1, Len(t)) = t
  BY DEF Sentences
<1>5. FlattenSeq(Append(<<>>, t)) = FlattenSeq(<<>>) \o t
  <2>1. <<>> \in Seq(Seq(Char))
    OBVIOUS
  <2>. QED  BY <2>1, FlattenAppend
<1>6. FlattenSeq(<<>>) \o t = t
  BY FlattenEmpty
<1>. QED  BY <1>1, <1>2, <1>3, <1>4, <1>5, <1>6 DEF r

\* The sentences of a text have its letters.
LEMMA SplitFacts ==
  ASSUME NEW t \in Seq(Char)
  PROVE  LET ranges == SplitTextIntoSentenceRanges(t)
         IN /\ ranges \in Seq(RangesOf(t))
            /\ Letters(FlattenSeq(Sentences(t, ranges))) = Letters(t)
<1>. DEFINE ranges == SplitTextIntoSentenceRanges(t)
<1>1. CASE ~(Scan(t) = <<>> /\ NormalizeText(t) # <<>>)
  <2>1. ranges = Scan(t)
    BY <1>1 DEF SplitTextIntoSentenceRanges
  <2>. QED  BY <2>1, ScanFacts
<1>2. CASE Scan(t) = <<>> /\ NormalizeText(t) # <<>>
  <2>1. ranges = <<[start |-> 1, end |-> Len(t)]>>
    BY <1>2 DEF SplitTextIntoSentenceRanges
  <2>2. t # <<>>
    BY <1>2, NormalizeEmpty
  <2>. QED  BY <2>1, <2>2, WholeFacts
<1>. QED  BY <1>1, <1>2

\* The sentences of a plain text have its letters; trimmed they make the text, when
\* it is well punctuated.
LEMMA PlainFacts ==
  ASSUME NEW t \in Seq(Char)
  PROVE  /\ PlainRanges(t) \in Seq(RangesOf(t))
         /\ Letters(FlattenSeq(Sentences(t, PlainRanges(t)))) = Letters(t)
         /\ WellPunctuated(t) => NormalizeText(Joined(Slices(t, PlainRanges(t)))) = NormalizeText(t)
<1>. DEFINE dots == t # <<>> /\ \A i \in DOMAIN t : t[i] = "."
<1>1. CASE ~dots
  <2>1. PlainRanges(t) = Scan(t)
    BY <1>1 DEF PlainRanges
  <2>. QED  BY <2>1, ScanFacts
<1>2. CASE dots
  <2>1. PlainRanges(t) = <<[start |-> 1, end |-> Len(t)]>>
    BY <1>2 DEF PlainRanges
  <2>2. ~WellPunctuated(t)
    <3>1. 1 \in DOMAIN t
      BY <1>2
    <3>2. t[1] = "."
      BY <1>2, <3>1
    <3>. QED  BY <3>1, <3>2 DEF WellPunctuated
  <2>. QED  BY <1>2, <2>1, <2>2, WholeFacts
<1>. QED  BY <1>1, <1>2

\* The sentences as they are shown have the letters of the sentences.
LEMMA SlicesLetters ==
  ASSUME NEW t \in Seq(Char), NEW ranges \in Seq(RangesOf(t))
  PROVE  /\ Slices(t, ranges) \in Seq(Seq(Char)) /\ Sentences(t, ranges) \in Seq(Seq(Char))
         /\ Letters(FlattenSeq(Slices(t, ranges))) = Letters(FlattenSeq(Sentences(t, ranges)))
<1>. DEFINE a == Slices(t, ranges)
            b == Sentences(t, ranges)
<1>0. ASSUME NEW k \in DOMAIN ranges
      PROVE  LET x == SubSeq(t, ranges[k].start, ranges[k].end)
             IN x \in Seq(Char) /\ Trim(x) \in Seq(Char) /\ Letters(Trim(x)) = Letters(x)
  <2>1. ranges[k] \in RangesOf(t)
    OBVIOUS
  <2>2. SubSeq(t, ranges[k].start, ranges[k].end) \in Seq(Char)
    BY <2>1, SentencesFacts
  <2>. QED  BY <2>2, TrimFacts
<1>1. DOMAIN a = DOMAIN ranges /\ DOMAIN b = DOMAIN ranges /\ DOMAIN ranges = 1 .. Len(ranges) /\ Len(ranges) \in Nat
  BY DEF Slices, Sentences
<1>2. ASSUME NEW k \in DOMAIN ranges
      PROVE  a[k] \in Seq(Char) /\ b[k] \in Seq(Char) /\ Letters(a[k]) = Letters(b[k])
  BY <1>0 DEF Slices, Sentences
<1>3. a \in [1 .. Len(ranges) -> Seq(Char)] /\ b \in [1 .. Len(ranges) -> Seq(Char)]
  <2>. DEFINE T == Seq(Char)
  <2>1. a = [k \in DOMAIN ranges |-> a[k]] /\ b = [k \in DOMAIN ranges |-> b[k]]
    BY DEF Slices, Sentences
  <2>2. \A k \in DOMAIN ranges : a[k] \in T /\ b[k] \in T
    BY <1>2
  <2>. HIDE DEF a, b, T
  <2>. QED  BY <1>1, <2>1, <2>2 DEF T
<1>. HIDE DEF a, b
<1>4. a \in Seq(Seq(Char)) /\ b \in Seq(Seq(Char))
  BY <1>1, <1>3, FunctionIsSeq
<1>5. [i \in DOMAIN a |-> Letters(a[i])] = [i \in DOMAIN b |-> Letters(b[i])]
  BY <1>1, <1>2
<1>6. /\ Letters(FlattenSeq(a)) = FlattenSeq([i \in DOMAIN a |-> Letters(a[i])])
      /\ Letters(FlattenSeq(b)) = FlattenSeq([i \in DOMAIN b |-> Letters(b[i])])
  BY <1>4, LettersJoin
<1>. QED  BY <1>4, <1>5, <1>6 DEF a, b

\* The model's answer is a text.
AnswerType == answer \in Seq(Char)

\* Every chunk leaves the answer a text.
LEMMA AnswerTyped == TextSpec => []AnswerType
<1>1. TextInit => AnswerType
  BY DEF TextInit, AnswerType
<1>2. AnswerType /\ [TextNext]_answer => AnswerType'
  <2>. SUFFICES ASSUME AnswerType, [TextNext]_answer PROVE AnswerType'
    OBVIOUS
  <2>1. ASSUME NEW c \in Char, Arrive(c) PROVE AnswerType'
    BY <2>1, AppendFacts DEF Arrive, AnswerType
  <2>2. CASE UNCHANGED answer
    BY <2>2 DEF AnswerType
  <2>. QED  BY <2>1, <2>2 DEF TextNext
<1>. QED  BY <1>1, <1>2, PTL DEF TextSpec

\* Accepting a plain proposal as it is keeps its text, whatever the text.
THEOREM AcceptKeeps == TextSpec => []AcceptKeepsPlainText
<1>1. AnswerType => AcceptKeepsPlainText
  <2>. SUFFICES ASSUME AnswerType PROVE AcceptKeepsPlainText
    OBVIOUS
  <2>0. answer \in Seq(Char)
    BY DEF AnswerType
  <2>. DEFINE ranges == PlainRanges(answer)
              accepted == Joined(GetSentenceSlices(answer))
  <2>1. /\ ranges \in Seq(RangesOf(answer))
        /\ Letters(FlattenSeq(Sentences(answer, ranges))) = Letters(answer)
        /\ WellPunctuated(answer) => NormalizeText(Joined(Slices(answer, ranges))) = NormalizeText(answer)
    BY <2>0, PlainFacts
  <2>2. GetSentenceSlices(answer) = Slices(answer, ranges)
    BY DEF GetSentenceSlices, Slices
  <2>. HIDE DEF ranges
  <2>3. /\ Slices(answer, ranges) \in Seq(Seq(Char))
        /\ Letters(FlattenSeq(Slices(answer, ranges))) = Letters(FlattenSeq(Sentences(answer, ranges)))
    BY <2>0, <2>1, SlicesLetters
  <2>4. Letters(Joined(Slices(answer, ranges))) = Letters(FlattenSeq(Slices(answer, ranges)))
    <3>1. <<>> \in Seq(Char)
      OBVIOUS
    <3>. QED  BY <2>3, <3>1, JoinedAppend
  <2>. QED  BY <2>1, <2>2, <2>3, <2>4 DEF AcceptKeepsPlainText
<1>. QED  BY <1>1, AnswerTyped, PTL

-----------------------------------------------------------------------------
(* The text nodes of a fragment in the text of all.                        *)

\* A list is its beginning and its last member.
LEMMA LastApart ==
  ASSUME NEW S, NEW k \in Nat, NEW p \in Seq(S), Len(p) = k + 1
  PROVE  /\ p = Append(SubSeq(p, 1, k), p[k + 1])
         /\ SubSeq(p, 1, k) \in Seq(S) /\ Len(SubSeq(p, 1, k)) = k /\ p[k + 1] \in S
         /\ \A i \in 1 .. k : SubSeq(p, 1, k)[i] = p[i]
<1>. DEFINE u == SubSeq(p, 1, k)
            e == p[k + 1]
<1>1. k \in 1 - 1 .. Len(p) /\ 1 \in 1 .. Len(p) + 1 /\ k - 1 + 1 = k
  OBVIOUS
<1>2. u \in Seq(S) /\ Len(u) = k - 1 + 1 /\ \A i \in 1 .. k - 1 + 1 : u[i] = p[1 + i - 1]
  BY <1>1, StretchFacts
<1>3. e \in S
  OBVIOUS
<1>4. \A i \in 1 .. k : 1 + i - 1 = i
  OBVIOUS
<1>5. u \in Seq(S) /\ Len(u) = k /\ \A i \in 1 .. k : u[i] = p[i]
  BY <1>1, <1>2, <1>4
<1>. DEFINE w == Append(u, e)
<1>. HIDE DEF u, e
<1>6. w \in Seq(S) /\ Len(w) = k + 1 /\ w[k + 1] = e /\ \A i \in 1 .. k : w[i] = u[i]
  BY <1>3, <1>5, AppendFacts
<1>. HIDE DEF w
<1>7. \A i \in 1 .. Len(p) : p[i] = w[i]
  BY <1>5, <1>6 DEF e
<1>8. p = w
  BY <1>6, <1>7, SeqEqual
<1>. QED  BY <1>3, <1>5, <1>8 DEF u, e, w

\* Where the characters of a text node are in the text of all.
LEMMA NodePlace ==
  ASSUME NEW S, NEW nodes \in Seq(Seq(S)), NEW k \in DOMAIN nodes
  PROVE  /\ End(nodes, k - 1) \in Nat /\ End(nodes, k) = End(nodes, k - 1) + Len(nodes[k])
         /\ End(nodes, k) <= Len(FlattenSeq(nodes))
         /\ \A i \in 1 .. Len(nodes[k]) : FlattenSeq(nodes)[End(nodes, k - 1) + i] = nodes[k][i]
<1>. DEFINE n == Len(nodes)
            j == k - 1
            u == SubSeq(nodes, 1, k)
            v == SubSeq(nodes, 1, j)
            e == nodes[k]
            T == Seq(S)
<1>0. n \in Nat /\ k \in 1 .. n /\ j \in Nat /\ k = j + 1 /\ e \in T
  OBVIOUS
<1>1. u \in Seq(T) /\ Len(u) = k /\ FlattenSeq(nodes) = FlattenSeq(u) \o FlattenSeq(SubSeq(nodes, k + 1, n))
      /\ SubSeq(nodes, k + 1, n) \in Seq(T)
  <2>1. k \in 0 .. Len(nodes)
    BY <1>0
  <2>. QED  BY <2>1, SplitSeq, FlattenSplit
<1>2. u[k] = e /\ v \in Seq(T) /\ SubSeq(u, 1, j) = v
  <2>1. /\ k \in 1 - 1 .. Len(nodes) /\ j \in 1 - 1 .. Len(nodes) /\ 1 \in 1 .. Len(nodes) + 1
        /\ k \in 1 .. k - 1 + 1 /\ 1 + k - 1 = k
    BY <1>0
  <2>2. u[k] = nodes[1 + k - 1]
    BY <2>1, StretchFacts
  <2>3. v \in Seq(T)
    BY <2>1, StretchFacts
  <2>4. SubSeq(u, 1, j) = v
    <3>. DEFINE x == SubSeq(u, 1, j)
    <3>1. j \in 1 - 1 .. Len(u) /\ 1 \in 1 .. Len(u) + 1 /\ j - 1 + 1 = j
      BY <1>0, <1>1
    <3>2. x \in Seq(T) /\ Len(x) = j - 1 + 1 /\ \A i \in 1 .. j - 1 + 1 : x[i] = u[1 + i - 1]
      <4>. HIDE DEF u, T
      <4>. QED  BY <1>1, <3>1, StretchFacts
    <3>3. Len(v) = j - 1 + 1 /\ \A i \in 1 .. j - 1 + 1 : v[i] = nodes[1 + i - 1]
      BY <2>1, StretchFacts
    <3>4. \A i \in 1 .. k - 1 + 1 : u[i] = nodes[1 + i - 1]
      BY <2>1, StretchFacts
    <3>. HIDE DEF x, u, v, j, T
    <3>5. \A i \in 1 .. j : x[i] = v[i]
      <4>. SUFFICES ASSUME NEW i \in 1 .. j PROVE x[i] = v[i]
        OBVIOUS
      <4>1. i \in 1 .. j - 1 + 1 /\ i \in 1 .. k - 1 + 1 /\ 1 + i - 1 = i
        BY <1>0
      <4>. QED  BY <3>2, <3>3, <3>4, <4>1
    <3>6. x = v
      BY <2>3, <3>1, <3>2, <3>3, <3>5, SeqEqual
    <3>. QED  BY <3>6 DEF x
  <2>. QED  BY <2>1, <2>2, <2>3, <2>4
<1>. DEFINE a == FlattenSeq(v)
            b == FlattenSeq(SubSeq(nodes, k + 1, n))
<1>3. FlattenSeq(u) = a \o e /\ a \in Seq(S) /\ b \in Seq(S)
  <2>1. u = Append(v, e)
    <3>. HIDE DEF u, v, T, e, j
    <3>1. Len(u) = j + 1
      BY <1>0, <1>1
    <3>2. u = Append(SubSeq(u, 1, j), u[j + 1])
      BY <1>0, <1>1, <3>1, LastApart
    <3>. QED  BY <1>0, <1>2, <3>2
  <2>2. FlattenSeq(Append(v, e)) = FlattenSeq(v) \o e
    <3>. HIDE DEF v, e
    <3>. QED  BY <1>0, <1>2, FlattenAppend
  <2>3. a \in Seq(S)
    <3>. HIDE DEF v
    <3>. QED  BY <1>2, FlattenType
  <2>4. b \in Seq(S)
    BY <1>1, FlattenType
  <2>. QED  BY <2>1, <2>2, <2>3, <2>4
<1>. HIDE DEF a, b, e
<1>4. /\ a \o e \in Seq(S) /\ Len(a \o e) = Len(a) + Len(e) /\ Len(a) \in Nat /\ Len(e) \in Nat
      /\ Len((a \o e) \o b) = Len(a \o e) + Len(b) /\ Len(b) \in Nat
  BY <1>0, <1>3, ConcatType
<1>5. ASSUME NEW i \in 1 .. Len(e) PROVE ((a \o e) \o b)[Len(a) + i] = e[i]
  <2>1. (a \o e)[Len(a) + i] = e[i]
    BY <1>0, <1>3
  <2>2. Len(a) + i \in 1 .. Len(a \o e)
    BY <1>4
  <2>. DEFINE c == a \o e
              m == Len(a) + i
  <2>3. c \in Seq(S) /\ m \in 1 .. Len(c) /\ c[m] = e[i]
    BY <1>4, <2>1, <2>2
  <2>. HIDE DEF c, m
  <2>4. (c \o b)[m] = c[m]
    BY <1>3, <2>3
  <2>. QED  BY <2>3, <2>4 DEF c, m
<1>6. FlattenSeq(nodes) = (a \o e) \o b
  BY <1>1, <1>3 DEF b
<1>7. End(nodes, k - 1) = Len(a) /\ End(nodes, k) = Len(a) + Len(e)
  BY <1>3, <1>4 DEF End, a
<1>8. Len(a) + Len(e) <= Len((a \o e) \o b)
  BY <1>4
<1>. QED  BY <1>4, <1>5, <1>6, <1>7, <1>8 DEF e

\* No text node begins before an earlier one ends.
LEMMA EndsGrow ==
  ASSUME NEW S, NEW nodes \in Seq(Seq(S))
  PROVE  /\ End(nodes, 0) = 0 /\ End(nodes, Len(nodes)) = Len(FlattenSeq(nodes))
         /\ \A k \in 0 .. Len(nodes) : End(nodes, k) \in Nat
         /\ \A j, k \in 0 .. Len(nodes) : j <= k => End(nodes, j) <= End(nodes, k)
<1>1. Len(nodes) \in Nat /\ DOMAIN nodes = 1 .. Len(nodes) /\ \A k \in 1 .. Len(nodes) : Len(nodes[k]) \in Nat
  OBVIOUS
<1>2. End(nodes, 0) = 0
  <2>1. SubSeq(nodes, 1, 0) = <<>>
    OBVIOUS
  <2>2. Len(<<>>) = 0
    OBVIOUS
  <2>3. FlattenSeq(SubSeq(nodes, 1, 0)) = <<>>
    BY <2>1, FlattenEmpty
  <2>. QED  BY <2>2, <2>3, Zenon DEF End
<1>3. End(nodes, Len(nodes)) = Len(FlattenSeq(nodes))
  <2>1. SubSeq(nodes, 1, Len(nodes)) = nodes
    OBVIOUS
  <2>. QED  BY <2>1 DEF End
<1>. DEFINE n == Len(nodes)
            E(k) == End(nodes, k)
<1>4. ASSUME NEW k \in 1 .. n PROVE E(k - 1) \in Nat /\ E(k) \in Nat /\ E(k - 1) <= E(k)
  <2>1. E(k - 1) \in Nat /\ E(k) = E(k - 1) + Len(nodes[k]) /\ Len(nodes[k]) \in Nat
    BY <1>1, NodePlace
  <2>. HIDE DEF E
  <2>. QED  BY <2>1
<1>5. ASSUME NEW k \in 0 .. n PROVE E(k) \in Nat
  <2>1. k = 0 \/ k \in 1 .. n
    BY <1>1
  <2>. QED  BY <1>2, <1>4, <2>1
<1>. HIDE DEF n, E
<1>6. ASSUME NEW j \in 0 .. n PROVE \A k \in 0 .. n : j <= k => E(j) <= E(k)
  <2>. DEFINE Q == {d \in Nat : j + d <= n => E(j) <= E(j + d)}
  <2>0. n \in Nat /\ j \in Nat
    BY <1>1 DEF n
  <2>1. 0 \in Q
    <3>1. E(j) \in Nat /\ j + 0 = j
      BY <1>5, <2>0
    <3>. QED  BY <3>1
  <2>2. ASSUME NEW d \in Nat, d \in Q PROVE d + 1 \in Q
    <3>. SUFFICES ASSUME j + (d + 1) <= n PROVE E(j) <= E(j + (d + 1))
      OBVIOUS
    <3>1. j + (d + 1) \in 1 .. n /\ (j + (d + 1)) - 1 = j + d /\ j + d <= n
      BY <2>0
    <3>2. E(j) <= E(j + d)
      BY <2>2, <3>1
    <3>3. E((j + (d + 1)) - 1) \in Nat /\ E(j + (d + 1)) \in Nat /\ E((j + (d + 1)) - 1) <= E(j + (d + 1))
      BY <1>4, <3>1
    <3>4. E(j) \in Nat
      BY <1>5
    <3>. QED  BY <3>1, <3>2, <3>3, <3>4
  <2>3. Nat \subseteq Q
    <3>. HIDE DEF Q
    <3>. QED  BY <2>1, <2>2, SetInduction
  <2>4. ASSUME NEW k \in 0 .. n, j <= k PROVE E(j) <= E(k)
    <3>1. k - j \in Nat /\ j + (k - j) = k /\ k <= n
      BY <2>0, <2>4
    <3>2. k - j \in Q
      BY <2>3, <3>1
    <3>. QED  BY <3>1, <3>2
  <2>. QED  BY <2>4
<1>. QED  BY <1>2, <1>3, <1>5, <1>6 DEF n, E

\* The node a position is found in is the first that reaches it.
LEMMA ResolveFacts ==
  ASSUME NEW S, NEW nodes \in Seq(Seq(S)), nodes # <<>>,
         NEW offset \in 0 .. Len(FlattenSeq(nodes)),
         NEW p, p = ResolveTextPosition(nodes, offset)
  PROVE  /\ p.node \in 1 .. Len(nodes) /\ p.offset = offset - End(nodes, p.node - 1)
         /\ End(nodes, p.node - 1) <= offset /\ offset <= End(nodes, p.node)
         /\ \A j \in 1 .. p.node - 1 : End(nodes, j) < offset
<1>. DEFINE n == Len(nodes)
            E(k) == End(nodes, k)
            N == {k \in 1 .. n : offset <= E(k)}
            Fits(k) == /\ offset <= E(k) \/ k = n
                       /\ \A j \in 1 .. k - 1 : offset > E(j)
            d == CHOOSE k \in DOMAIN nodes : Fits(k)
<1>0. n \in Nat /\ n >= 1 /\ DOMAIN nodes = 1 .. n /\ offset \in Nat
  <2>1. Len(FlattenSeq(nodes)) \in Nat
    BY FlattenType
  <2>. QED  BY <2>1
<1>1. /\ E(0) = 0 /\ offset <= E(n) /\ \A k \in 0 .. n : E(k) \in Nat
  <2>1. /\ End(nodes, 0) = 0 /\ End(nodes, Len(nodes)) = Len(FlattenSeq(nodes))
        /\ \A k \in 0 .. Len(nodes) : End(nodes, k) \in Nat
    BY EndsGrow
  <2>2. offset <= Len(FlattenSeq(nodes))
    <3>1. Len(FlattenSeq(nodes)) \in Nat
      BY FlattenType
    <3>. QED  BY <3>1
  <2>. QED  BY <2>1, <2>2
<1>. HIDE DEF n, E
<1>2. N \in SUBSET Nat /\ n \in N
  BY <1>0, <1>1
<1>3. PICK m \in N : \A k \in N : m <= k
  BY <1>2, LeastNumber
<1>4. m \in DOMAIN nodes /\ Fits(m)
  <2>1. ASSUME NEW j \in 1 .. m - 1 PROVE offset > E(j)
    <3>1. j \in 1 .. n /\ ~(m <= j) /\ E(j) \in Nat
      BY <1>0, <1>1
    <3>2. ~(offset <= E(j))
      BY <1>3, <3>1
    <3>. QED  BY <1>0, <3>1, <3>2
  <2>. QED  BY <1>0, <2>1
<1>5. d \in DOMAIN nodes /\ Fits(d)
  <2>. HIDE DEF Fits
  <2>. QED  BY <1>4, Zenon
<1>6. p = [node |-> d, offset |-> offset - E(d - 1)]
  BY Zenon DEF ResolveTextPosition, n, E
<1>. HIDE DEF d
<1>7. d \in 1 .. n /\ p.node = d /\ p.offset = offset - E(d - 1)
  BY <1>0, <1>5, <1>6
<1>8. offset <= E(d)
  BY <1>1, <1>5
<1>9. E(d - 1) <= offset
  <2>1. CASE d = 1
    BY <1>0, <1>1, <2>1
  <2>2. CASE d # 1
    <3>1. d - 1 \in 1 .. d - 1 /\ d - 1 \in 0 .. n
      BY <1>0, <1>7, <2>2
    <3>2. offset > E(d - 1) /\ E(d - 1) \in Nat
      BY <1>1, <1>5, <3>1
    <3>. QED  BY <1>0, <3>2
  <2>. QED  BY <2>1, <2>2
<1>10. ASSUME NEW j \in 1 .. d - 1 PROVE E(j) < offset
  <2>1. j \in 0 .. n
    BY <1>0, <1>7
  <2>2. offset > E(j) /\ E(j) \in Nat
    BY <1>1, <1>5, <2>1
  <2>. QED  BY <1>0, <2>2
<1>. QED  BY <1>7, <1>8, <1>9, <1>10 DEF n, E

\* A stretch of one text node is a stretch of the text of all.
LEMMA NodeStretch ==
  ASSUME NEW S, NEW nodes \in Seq(Seq(S)), NEW k \in DOMAIN nodes,
         NEW a \in 1 .. Len(nodes[k]) + 1, NEW b \in a - 1 .. Len(nodes[k])
  PROVE  SubSeq(nodes[k], a, b) =
           SubSeq(FlattenSeq(nodes), End(nodes, k - 1) + a, End(nodes, k - 1) + b)
<1>. DEFINE t == FlattenSeq(nodes)
            e == nodes[k]
            o == End(nodes, k - 1)
            x == SubSeq(e, a, b)
            y == SubSeq(t, o + a, o + b)
<1>1. /\ o \in Nat /\ o + Len(e) <= Len(t) /\ \A i \in 1 .. Len(e) : t[o + i] = e[i]
      /\ t \in Seq(S) /\ e \in Seq(S) /\ Len(e) \in Nat /\ Len(t) \in Nat
  <2>1. /\ o \in Nat /\ End(nodes, k) = o + Len(e) /\ End(nodes, k) <= Len(t)
        /\ \A i \in 1 .. Len(e) : t[o + i] = e[i]
    BY NodePlace
  <2>2. t \in Seq(S) /\ e \in Seq(S)
    BY FlattenType
  <2>. QED  BY <2>1, <2>2
<1>. HIDE DEF t, e, o
<1>2. a \in 1 .. Len(e) + 1 /\ b \in a - 1 .. Len(e)
      /\ a \in Nat /\ b \in Nat /\ 1 <= a /\ a <= b + 1 /\ b <= Len(e)
  <2>1. a \in 1 .. Len(e) + 1 /\ b \in a - 1 .. Len(e)
    BY DEF e
  <2>. QED  BY <1>1, <2>1
<1>3. x \in Seq(S) /\ Len(x) = b - a + 1 /\ \A i \in 1 .. b - a + 1 : x[i] = e[a + i - 1]
  BY <1>1, <1>2, StretchFacts
<1>4. y \in Seq(S) /\ Len(y) = b - a + 1 /\ \A i \in 1 .. b - a + 1 : y[i] = t[o + (a + i - 1)]
  <2>. DEFINE c == o + a
              f == o + b
  <2>1. c \in 1 .. Len(t) + 1 /\ f \in c - 1 .. Len(t) /\ f - c + 1 = b - a + 1
    <3>. DEFINE l == Len(e)
                n == Len(t)
    <3>1. /\ o \in Nat /\ l \in Nat /\ n \in Nat /\ o + l <= n
          /\ a \in Nat /\ b \in Nat /\ 1 <= a /\ a <= b + 1 /\ b <= l
      BY <1>1, <1>2
    <3>. HIDE DEF l, n
    <3>2. c \in 1 .. n + 1 /\ f \in c - 1 .. n /\ f - c + 1 = b - a + 1
      BY <3>1
    <3>. QED  BY <3>2 DEF n
  <2>2. \A i \in 1 .. b - a + 1 : c + i - 1 = o + (a + i - 1)
    BY <1>1, <1>2
  <2>. HIDE DEF c, f
  <2>3. /\ SubSeq(t, c, f) \in Seq(S) /\ Len(SubSeq(t, c, f)) = f - c + 1
        /\ \A i \in 1 .. f - c + 1 : SubSeq(t, c, f)[i] = t[c + i - 1]
    BY <1>1, <2>1, StretchFacts
  <2>. QED  BY <2>1, <2>2, <2>3 DEF c, f
<1>5. ASSUME NEW i \in 1 .. b - a + 1 PROVE x[i] = y[i]
  <2>1. a + i - 1 \in 1 .. Len(e)
    BY <1>1, <1>2
  <2>. QED  BY <1>1, <1>3, <1>4, <2>1
<1>. HIDE DEF x, y
<1>6. x = y
  BY <1>3, <1>4, <1>5, SeqEqual
<1>. QED  BY <1>6 DEF x, y, t, e, o

\* The list of the first members of a list one longer.
LEMMA FirstsAppend ==
  ASSUME NEW S, NEW m \in Nat, NEW p, \A i \in 1 .. m + 1 : p[i] \in S
  PROVE  /\ [i \in 1 .. m |-> p[i]] \in Seq(S)
         /\ [i \in 1 .. m + 1 |-> p[i]] = Append([i \in 1 .. m |-> p[i]], p[m + 1])
<1>. DEFINE u == [i \in 1 .. m |-> p[i]]
            w == [i \in 1 .. m + 1 |-> p[i]]
            e == p[m + 1]
            v == Append(u, e)
<1>1. u \in Seq(S) /\ Len(u) = m /\ \A i \in 1 .. m : u[i] = p[i]
  <2>1. u \in [1 .. m -> S]
    OBVIOUS
  <2>. HIDE DEF u
  <2>2. u \in Seq(S) /\ Len(u) = m
    BY <2>1, FunctionIsSeq
  <2>. QED  BY <2>2 DEF u
<1>2. w \in Seq(S) /\ Len(w) = m + 1 /\ w[m + 1] = e /\ \A i \in 1 .. m : w[i] = p[i]
  <2>1. w \in [1 .. m + 1 -> S] /\ m + 1 \in Nat
    OBVIOUS
  <2>2. w[m + 1] = e /\ \A i \in 1 .. m : w[i] = p[i]
    OBVIOUS
  <2>. HIDE DEF w
  <2>3. w \in Seq(S) /\ Len(w) = m + 1
    BY <2>1, FunctionIsSeq
  <2>. QED  BY <2>2, <2>3
<1>3. e \in S
  OBVIOUS
<1>. HIDE DEF u, w, e
<1>4. v \in Seq(S) /\ Len(v) = m + 1 /\ v[m + 1] = e /\ \A i \in 1 .. m : v[i] = u[i]
  BY <1>1, <1>3, AppendFacts
<1>. HIDE DEF v
<1>5. \A i \in 1 .. Len(w) : w[i] = v[i]
  BY <1>1, <1>2, <1>4
<1>6. w = v
  BY <1>2, <1>4, <1>5, SeqEqual
<1>. QED  BY <1>1, <1>6 DEF u, w, e, v

-----------------------------------------------------------------------------
(* Cloning a stretch of a fragment.                                        *)

\* What is cloned between two positions is the text between them.
LEMMA CloneIsStretch ==
  ASSUME NEW S, NEW nodes \in Seq(Seq(S)), NEW a \in Nat, NEW b \in Nat,
         1 <= a, a <= b, b <= Len(FlattenSeq(nodes))
  PROVE  CloneHtmlRange(nodes, a - 1, b) = SubSeq(FlattenSeq(nodes), a, b)
<1>. DEFINE t == FlattenSeq(nodes)
            n == Len(nodes)
            E(k) == End(nodes, k)
            from == ResolveTextPosition(nodes, a - 1)
            to == ResolveTextPosition(nodes, b)
            f == from.node
            g == to.node
            first(k) == IF k = f THEN from.offset + 1 ELSE 1
            final(k) == IF k = g THEN to.offset ELSE Len(nodes[k])
            p == [i \in 1 .. g - f + 1 |-> SubSeq(nodes[f + i - 1], first(f + i - 1), final(f + i - 1))]
            lo(k) == IF k = f THEN a ELSE E(k - 1) + 1
            hi(k) == IF k = g THEN b ELSE E(k)
            top(m) == IF m = 0 THEN a - 1 ELSE hi(f + m - 1)
            G(m) == [i \in 1 .. m |-> p[i]]
<1>1. CloneHtmlRange(nodes, a - 1, b) = FlattenSeq(p)
  BY Zenon DEF CloneHtmlRange
<1>2. n \in Nat /\ t \in Seq(S) /\ Len(t) \in Nat /\ DOMAIN nodes = 1 .. n /\ nodes # <<>>
  <2>1. t \in Seq(S)
    BY FlattenType
  <2>2. t # <<>>
    BY <2>1
  <2>. QED  BY <2>1, <2>2, FlattenEmpty
<1>3. /\ f \in 1 .. n /\ from.offset = (a - 1) - E(f - 1) /\ E(f - 1) <= a - 1 /\ a - 1 <= E(f)
      /\ \A j \in 1 .. f - 1 : E(j) < a - 1
  <2>1. a - 1 \in 0 .. Len(FlattenSeq(nodes))
    BY <1>2
  <2>. QED  BY <1>2, <2>1, ResolveFacts
<1>4. /\ g \in 1 .. n /\ to.offset = b - E(g - 1) /\ E(g - 1) <= b /\ b <= E(g)
      /\ \A j \in 1 .. g - 1 : E(j) < b
  <2>1. b \in 0 .. Len(FlattenSeq(nodes))
    BY <1>2
  <2>. QED  BY <1>2, <2>1, ResolveFacts
<1>5. ASSUME NEW k \in 1 .. n
      PROVE  /\ E(k - 1) \in Nat /\ E(k) \in Nat /\ E(k) = E(k - 1) + Len(nodes[k])
             /\ Len(nodes[k]) \in Nat /\ E(k) <= Len(t)
  <2>1. k \in DOMAIN nodes /\ nodes[k] \in Seq(S)
    BY <1>2
  <2>2. E(k - 1) \in Nat /\ E(k) = E(k - 1) + Len(nodes[k]) /\ E(k) <= Len(t)
    BY <2>1, NodePlace
  <2>3. Len(nodes[k]) \in Nat
    BY <2>1
  <2>. HIDE DEF E
  <2>. QED  BY <2>2, <2>3
<1>a. n \in Nat /\ Len(t) \in Nat
  BY <1>2
<1>. HIDE DEF n, E, from, to, f, g, t
<1>6. f \in Nat /\ g \in Nat /\ 1 <= f /\ f <= g /\ g <= n
  <2>1. f \in Nat /\ g \in Nat /\ 1 <= f /\ f <= n /\ 1 <= g /\ g <= n
    BY <1>2, <1>3, <1>4
  <2>2. ~(g < f)
    <3>. SUFFICES ASSUME g < f PROVE FALSE
      OBVIOUS
    <3>1. g \in 1 .. f - 1
      BY <2>1
    <3>2. E(g) < a - 1 /\ b <= E(g) /\ E(g) \in Nat
      BY <1>3, <1>4, <1>5, <3>1
    <3>. QED  BY <3>2
  <2>. QED  BY <2>1, <2>2
<1>7. ASSUME NEW k \in f .. g
      PROVE  /\ SubSeq(nodes[k], first(k), final(k)) = SubSeq(t, lo(k), hi(k))
             /\ SubSeq(nodes[k], first(k), final(k)) \in Seq(S)
             /\ lo(k) \in Nat /\ hi(k) \in Nat /\ lo(k) <= hi(k) + 1 /\ 1 <= lo(k) /\ hi(k) <= Len(t)
  <2>1. k \in 1 .. n /\ k \in Nat
    BY <1>a, <1>6
  <2>2. /\ E(k - 1) \in Nat /\ E(k) \in Nat /\ E(k) = E(k - 1) + Len(nodes[k])
        /\ Len(nodes[k]) \in Nat /\ E(k) <= Len(t)
    BY <1>5, <2>1
  <2>3. k = f => from.offset = (a - 1) - E(k - 1) /\ E(k - 1) <= a - 1 /\ a - 1 <= E(k)
    BY <1>3
  <2>4. k = g => to.offset = b - E(k - 1) /\ E(k - 1) <= b /\ b <= E(k)
    BY <1>4
  <2>. HIDE DEF E
  <2>5. first(k) \in Nat /\ 1 <= first(k) /\ first(k) <= Len(nodes[k]) + 1 /\ E(k - 1) + first(k) = lo(k)
    <3>1. CASE k = f
      <4>1. first(k) = from.offset + 1 /\ lo(k) = a
        BY <3>1
      <4>. DEFINE z == E(k - 1)
                  y == E(k)
                  l == Len(nodes[k])
      <4>2. z \in Nat /\ y \in Nat /\ l \in Nat /\ y = z + l /\ z <= a - 1 /\ a - 1 <= y
        BY <2>2, <2>3, <3>1
      <4>3. first(k) = ((a - 1) - z) + 1
        BY <2>3, <3>1, <4>1
      <4>. HIDE DEF first, lo, z, y, l
      <4>4. first(k) \in Nat /\ 1 <= first(k) /\ first(k) <= l + 1 /\ z + first(k) = a
        BY <4>2, <4>3
      <4>. QED  BY <4>1, <4>4 DEF l, z
    <3>2. CASE k # f
      <4>1. first(k) = 1 /\ lo(k) = E(k - 1) + 1
        BY <3>2
      <4>. HIDE DEF first, lo
      <4>. QED  BY <2>2, <4>1
    <3>. QED  BY <3>1, <3>2
  <2>6. final(k) \in Nat /\ first(k) - 1 <= final(k) /\ final(k) <= Len(nodes[k]) /\ E(k - 1) + final(k) = hi(k)
    <3>1. CASE k = g
      <4>1. final(k) = b - E(k - 1) /\ hi(k) = b /\ final(k) \in Nat /\ final(k) <= Len(nodes[k])
        BY <2>2, <2>4, <3>1
      <4>2. first(k) - 1 <= final(k)
        BY <2>2, <2>3, <2>4, <3>1
      <4>. HIDE DEF first, final, hi
      <4>. QED  BY <2>2, <4>1, <4>2
    <3>2. CASE k # g
      <4>1. final(k) = Len(nodes[k]) /\ hi(k) = E(k)
        BY <3>2
      <4>. HIDE DEF first, final, hi
      <4>. QED  BY <2>2, <2>5, <4>1
    <3>. QED  BY <3>1, <3>2
  <2>. HIDE DEF first, final, lo, hi
  <2>7. first(k) \in 1 .. Len(nodes[k]) + 1 /\ final(k) \in first(k) - 1 .. Len(nodes[k])
    BY <2>2, <2>5, <2>6
  <2>8. k \in DOMAIN nodes /\ nodes[k] \in Seq(S)
    BY <1>2, <2>1
  <2>9. SubSeq(nodes[k], first(k), final(k)) = SubSeq(t, End(nodes, k - 1) + first(k), End(nodes, k - 1) + final(k))
    BY <2>7, <2>8, NodeStretch DEF t
  <2>10. SubSeq(nodes[k], first(k), final(k)) \in Seq(S)
    BY <2>7, <2>8, StretchFacts
  <2>11. lo(k) \in Nat /\ hi(k) \in Nat /\ lo(k) <= hi(k) + 1 /\ 1 <= lo(k) /\ hi(k) <= Len(t)
    <3>. DEFINE x == first(k)
                y == final(k)
                z == E(k - 1)
                l == Len(nodes[k])
    <3>1. /\ x \in Nat /\ 1 <= x /\ y \in Nat /\ x - 1 <= y /\ y <= l /\ z \in Nat /\ l \in Nat
          /\ z + x = lo(k) /\ z + y = hi(k) /\ z + l <= Len(t) /\ Len(t) \in Nat
      BY <1>a, <2>2, <2>5, <2>6
    <3>. HIDE DEF x, y, z, l
    <3>. QED  BY <3>1
  <2>. QED  BY <2>5, <2>6, <2>9, <2>10, <2>11 DEF E
<1>8. ASSUME NEW i \in 1 .. g - f + 1
      PROVE  LET k == f + i - 1 IN
             /\ k \in f .. g /\ p[i] = SubSeq(t, lo(k), hi(k)) /\ p[i] \in Seq(S)
  <2>1. f + i - 1 \in f .. g
    BY <1>6
  <2>2. p[i] = SubSeq(nodes[f + i - 1], first(f + i - 1), final(f + i - 1))
    <3>. HIDE DEF first, final
    <3>. QED  OBVIOUS
  <2>. DEFINE k == f + i - 1
  <2>. HIDE DEF k, p, lo, hi, first, final
  <2>3. /\ SubSeq(nodes[k], first(k), final(k)) = SubSeq(t, lo(k), hi(k))
        /\ SubSeq(nodes[k], first(k), final(k)) \in Seq(S)
    BY <1>7, <2>1 DEF k
  <2>. QED  BY <2>1, <2>2, <2>3 DEF k
<1>9. p = G(g - f + 1)
  <2>. HIDE DEF first, final
  <2>. QED  OBVIOUS
<1>. HIDE DEF p
<1>. DEFINE Q == {m \in Nat : m <= g - f + 1 =>
                   /\ FlattenSeq(G(m)) = SubSeq(t, a, top(m))
                   /\ top(m) \in Nat /\ a - 1 <= top(m) /\ top(m) <= Len(t)
                   /\ m <= g - f => top(m) + 1 = lo(f + m)}
<1>10. 0 \in Q
  <2>1. G(0) = <<>>
    OBVIOUS
  <2>2. SubSeq(t, a, a - 1) = <<>>
    <3>1. a \in 1 .. Len(t) + 1 /\ a - 1 \in a - 1 .. Len(t) /\ a - 1 - a + 1 = 0
      BY <1>2 DEF t
    <3>2. SubSeq(t, a, a - 1) \in Seq(S) /\ Len(SubSeq(t, a, a - 1)) = a - 1 - a + 1
      BY <1>2, <3>1, StretchFacts
    <3>. QED  BY <3>1, <3>2
  <2>3. FlattenSeq(G(0)) = <<>>
    BY <2>1, FlattenEmpty
  <2>4. top(0) = a - 1 /\ lo(f + 0) = a
    <3>1. f + 0 = f
      BY <1>6
    <3>. QED  BY <3>1
  <2>5. a - 1 \in Nat /\ a - 1 <= a - 1 /\ a - 1 <= Len(t) /\ (a - 1) + 1 = a
    BY <1>2 DEF t
  <2>. HIDE DEF G, top, lo
  <2>. QED  BY <2>2, <2>3, <2>4, <2>5
<1>11. ASSUME NEW m \in Nat, m \in Q PROVE m + 1 \in Q
  <2>. SUFFICES ASSUME m + 1 <= g - f + 1
                PROVE  /\ FlattenSeq(G(m + 1)) = SubSeq(t, a, top(m + 1))
                       /\ top(m + 1) \in Nat /\ a - 1 <= top(m + 1) /\ top(m + 1) <= Len(t)
                       /\ m + 1 <= g - f => top(m + 1) + 1 = lo(f + (m + 1))
    <3>. HIDE DEF G, top, lo
    <3>. QED  OBVIOUS
  <2>. DEFINE k == f + m
  <2>1. /\ m <= g - f + 1 /\ m <= g - f /\ m + 1 \in 1 .. g - f + 1 /\ f + (m + 1) - 1 = k
        /\ k \in f .. g /\ m + 1 # 0
    BY <1>6
  <2>2. /\ FlattenSeq(G(m)) = SubSeq(t, a, top(m))
        /\ top(m) \in Nat /\ a - 1 <= top(m) /\ top(m) <= Len(t) /\ top(m) + 1 = lo(k)
    <3>. HIDE DEF G, top, lo
    <3>. QED  BY <1>11, <2>1
  <2>3. /\ p[m + 1] = SubSeq(t, lo(k), hi(k)) /\ \A i \in 1 .. m + 1 : p[i] \in Seq(S)
    <3>. HIDE DEF lo, hi, G, top
    <3>1. p[m + 1] = SubSeq(t, lo(k), hi(k))
      BY <1>8, <2>1
    <3>2. \A i \in 1 .. m + 1 : i \in 1 .. g - f + 1
      BY <1>6, <2>1
    <3>. QED  BY <1>8, <3>1, <3>2
  <2>4. lo(k) \in Nat /\ hi(k) \in Nat /\ lo(k) <= hi(k) + 1 /\ hi(k) <= Len(t)
    <3>. HIDE DEF lo, hi, first, final
    <3>. QED  BY <1>7, <2>1
  <2>5. top(m + 1) = hi(k)
    BY <2>1
  <2>6. /\ G(m) \in Seq(Seq(S)) /\ G(m + 1) = Append(G(m), p[m + 1])
    <3>. DEFINE T == Seq(S)
    <3>1. \A i \in 1 .. m + 1 : p[i] \in T
      BY <2>3
    <3>. HIDE DEF T
    <3>2. G(m) \in Seq(T) /\ G(m + 1) = Append(G(m), p[m + 1])
      BY <3>1, FirstsAppend
    <3>. QED  BY <3>2 DEF T
  <2>7. FlattenSeq(G(m + 1)) = FlattenSeq(G(m)) \o p[m + 1]
    <3>1. p[m + 1] \in Seq(S)
      <4>1. m + 1 \in 1 .. m + 1
        OBVIOUS
      <4>. QED  BY <2>3, <4>1
    <3>. HIDE DEF G
    <3>. QED  BY <2>6, <3>1, FlattenAppend
  <2>8. m + 1 <= g - f => hi(k) + 1 = lo(f + (m + 1))
    <3>. SUFFICES ASSUME m + 1 <= g - f PROVE hi(k) + 1 = lo(f + (m + 1))
      OBVIOUS
    <3>1. k # g /\ f + (m + 1) # f /\ (f + (m + 1)) - 1 = k
      BY <1>6
    <3>. HIDE DEF k
    <3>. QED  BY <3>1
  <2>. HIDE DEF G, top, lo, hi, k
  <2>9. SubSeq(t, a, hi(k)) = SubSeq(t, a, top(m)) \o SubSeq(t, top(m) + 1, hi(k))
    <3>1. a \in 1 .. Len(t) + 1 /\ top(m) \in a - 1 .. Len(t) /\ hi(k) \in top(m) .. Len(t)
      BY <1>2, <2>2, <2>4 DEF t
    <3>. QED  BY <1>2, <3>1, StretchCut
  <2>10. a - 1 <= hi(k)
    BY <2>2, <2>4
  <2>. QED  BY <2>2, <2>3, <2>4, <2>5, <2>7, <2>8, <2>9, <2>10
<1>12. g - f + 1 \in Q /\ g - f + 1 \in Nat
  <2>1. Nat \subseteq Q
    <3>. HIDE DEF Q
    <3>. QED  BY <1>10, <1>11, SetInduction
  <2>2. g - f + 1 \in Nat
    BY <1>6
  <2>. HIDE DEF Q
  <2>. QED  BY <2>1, <2>2
<1>13. top(g - f + 1) = b
  <2>1. g - f + 1 # 0 /\ f + (g - f + 1) - 1 = g
    BY <1>6
  <2>. QED  BY <2>1
<1>14. FlattenSeq(G(g - f + 1)) = SubSeq(t, a, b)
  <2>1. g - f + 1 <= g - f + 1
    BY <1>12
  <2>. HIDE DEF G, top, lo
  <2>. QED  BY <1>12, <1>13, <2>1
<1>. HIDE DEF G
<1>. QED  BY <1>1, <1>9, <1>14 DEF t, p

-----------------------------------------------------------------------------
(* Accepting the sentences of an HTML proposal.                            *)

\* Every sentence of an HTML proposal is inserted with the text the reviewer
\* saw, and the sentences have every letter once and in order, however the text
\* is cut into text nodes.
THEOREM HtmlSentencesKeep == \A nodes \in Seq(Seq(Char)) : SentencesKeep(nodes)
<1>. SUFFICES ASSUME NEW nodes \in Seq(Seq(Char)) PROVE SentencesKeep(nodes)
  OBVIOUS
<1>. DEFINE t == FlattenSeq(nodes)
            ranges == SplitTextIntoSentenceRanges(t)
            slices == SplitHtmlFragmentIntoSentences(nodes)
<1>1. /\ t \in Seq(Char) /\ ranges \in Seq(RangesOf(t))
      /\ Letters(FlattenSeq(Sentences(t, ranges))) = Letters(t)
  <2>1. t \in Seq(Char)
    BY FlattenType
  <2>. HIDE DEF t
  <2>. QED  BY <2>1, SplitFacts
<1>2. slices = [k \in DOMAIN ranges |->
                 [text |-> NormalizeText(SubSeq(t, ranges[k].start, ranges[k].end)),
                  html |-> CloneHtmlRange(nodes, ranges[k].start - 1, ranges[k].end)]]
  BY DEF SplitHtmlFragmentIntoSentences
<1>3. ASSUME NEW k \in DOMAIN ranges
      PROVE  CloneHtmlRange(nodes, ranges[k].start - 1, ranges[k].end) =
               SubSeq(t, ranges[k].start, ranges[k].end)
  <2>1. ranges[k] \in RangesOf(t)
    <3>. HIDE DEF ranges, t
    <3>. QED  BY <1>1
  <2>. HIDE DEF ranges
  <2>2. Len(t) \in Nat
    BY <1>1
  <2>3. /\ ranges[k].start \in 1 .. Len(t) /\ ranges[k].end \in 1 .. Len(t)
        /\ ranges[k].start <= ranges[k].end
    BY <2>1 DEF RangesOf
  <2>. DEFINE a == ranges[k].start
              b == ranges[k].end
  <2>4. a \in Nat /\ b \in Nat /\ 1 <= a /\ a <= b /\ b <= Len(FlattenSeq(nodes))
    BY <2>2, <2>3
  <2>. HIDE DEF a, b
  <2>5. CloneHtmlRange(nodes, a - 1, b) = SubSeq(FlattenSeq(nodes), a, b)
    BY <2>4, CloneIsStretch
  <2>. QED  BY <2>5 DEF a, b
<1>. HIDE DEF t, ranges, slices
<1>4. /\ DOMAIN slices = DOMAIN ranges
      /\ \A k \in DOMAIN ranges :
           /\ slices[k].html = SubSeq(t, ranges[k].start, ranges[k].end)
           /\ slices[k].text = NormalizeText(SubSeq(t, ranges[k].start, ranges[k].end))
  BY <1>2, <1>3
<1>5. \A k \in DOMAIN slices : NormalizeText(slices[k].html) = slices[k].text
  BY <1>4
<1>6. [k \in DOMAIN slices |-> slices[k].html] = Sentences(t, ranges)
  BY <1>4 DEF Sentences
<1>7. Letters(BuildAcceptedHtmlFragment(slices)) = Letters(t)
  BY <1>1, <1>6 DEF BuildAcceptedHtmlFragment
<1>. QED  BY <1>5, <1>7 DEF SentencesKeep, t, slices

-----------------------------------------------------------------------------
(* One round of the loop over the lines of a preview.                      *)

\* A line that is cut fills what is left at most, and begins the line.
LEMMA ShownFacts ==
  ASSUME NEW S, NEW line \in Seq(S), line # <<>>, NEW left \in Nat, left # 0
  PROVE  /\ Shown(line, left) \in Seq(S \union {"~"}) /\ Len(Shown(line, left)) <= left
         /\ Begins(Shown(line, left), line)
         /\ Len(line) <= left => Shown(line, left) = line
<1>. DEFINE T == S \union {"~"}
            n == Len(line)
<1>0. n \in Nat /\ line \in Seq(T)
  OBVIOUS
<1>1. CASE n <= left
  <2>1. Shown(line, left) = line
    BY <1>1 DEF Shown
  <2>. QED  BY <1>0, <1>1, <2>1 DEF Begins
<1>2. CASE ~(n <= left)
  <2>. DEFINE u == SubSeq(line, 1, left - 1)
              v == TrimEnd(u)
              w == Append(v, "~")
  <2>1. Shown(line, left) = w
    BY <1>2 DEF Shown
  <2>2. u \in Seq(T) /\ Len(u) = left - 1 /\ \A i \in 1 .. left - 1 : u[i] = line[i]
    <3>1. /\ 1 \in 1 .. Len(line) + 1 /\ left - 1 \in 1 - 1 .. Len(line) /\ left - 1 - 1 + 1 = left - 1
          /\ \A i \in 1 .. left - 1 : 1 + i - 1 = i
      BY <1>0, <1>2
    <3>2. u \in Seq(T) /\ Len(u) = left - 1 - 1 + 1 /\ \A i \in 1 .. left - 1 - 1 + 1 : u[i] = line[1 + i - 1]
      <4>. HIDE DEF T
      <4>. QED  BY <1>0, <3>1, StretchFacts
    <3>. HIDE DEF u
    <3>. QED  BY <3>1, <3>2
  <2>3. v \in Seq(T) /\ Len(v) <= left - 1 /\ Len(v) \in Nat /\ \A i \in 1 .. Len(v) : v[i] = line[i]
    <3>1. u \in Seq(T)
      BY <2>2
    <3>. HIDE DEF u, T
    <3>2. PICK k \in 0 .. Len(u) : v = SubSeq(u, 1, k)
      BY <3>1, TrimEndFacts
    <3>. HIDE DEF v
    <3>3. k \in Nat /\ k <= left - 1
      BY <2>2, <3>2
    <3>4. /\ 1 \in 1 .. Len(u) + 1 /\ k \in 1 - 1 .. Len(u) /\ k - 1 + 1 = k
          /\ \A i \in 1 .. k : 1 + i - 1 = i /\ i \in 1 .. left - 1
      BY <2>2, <3>2, <3>3
    <3>5. /\ SubSeq(u, 1, k) \in Seq(T) /\ Len(SubSeq(u, 1, k)) = k - 1 + 1
          /\ \A i \in 1 .. k - 1 + 1 : SubSeq(u, 1, k)[i] = u[1 + i - 1]
      BY <3>1, <3>4, StretchFacts
    <3>6. v \in Seq(T) /\ Len(v) = k /\ \A i \in 1 .. k : v[i] = u[i]
      BY <3>2, <3>4, <3>5
    <3>. QED  BY <2>2, <3>3, <3>4, <3>6
  <2>. HIDE DEF u, v
  <2>4. /\ w \in Seq(T) /\ Len(w) = Len(v) + 1 /\ w[Len(v) + 1] = "~" /\ \A i \in 1 .. Len(v) : w[i] = v[i]
    <3>. DEFINE e == "~"
    <3>1. e \in T
      OBVIOUS
    <3>. HIDE DEF e, T
    <3>2. /\ Append(v, e) \in Seq(T) /\ Len(Append(v, e)) = Len(v) + 1 /\ Append(v, e)[Len(v) + 1] = e
          /\ \A i \in 1 .. Len(v) : Append(v, e)[i] = v[i]
      BY <2>3, <3>1, AppendFacts
    <3>. QED  BY <3>2 DEF e
  <2>. HIDE DEF w, T
  <2>5. Len(w) <= left /\ Len(w) <= n
    BY <1>0, <1>2, <2>3, <2>4
  <2>6. Last(w) = "~"
    BY <2>4 DEF Last
  <2>7. Front(w) = v
    <3>. DEFINE k == Len(v)
    <3>1. k \in Nat /\ Len(w) = k + 1 /\ Len(w) - 1 = k
      BY <2>3, <2>4
    <3>2. SubSeq(w, 1, k) \in Seq(T) /\ Len(SubSeq(w, 1, k)) = k /\ \A i \in 1 .. k : SubSeq(w, 1, k)[i] = w[i]
      <4>. HIDE DEF k
      <4>. QED  BY <2>4, <3>1, LastApart
    <3>. DEFINE x == SubSeq(w, 1, k)
    <3>3. x = v
      <4>1. x \in Seq(T) /\ Len(x) = Len(v) /\ \A i \in 1 .. Len(x) : x[i] = v[i]
        <5>. HIDE DEF x
        <5>. QED  BY <2>4, <3>2 DEF x
      <4>. HIDE DEF x
      <4>. QED  BY <2>3, <4>1, SeqEqual
    <3>. QED  BY <3>1, <3>3 DEF Front
  <2>8. IsPrefix(v, line)
    <3>. DEFINE k == Len(v)
                x == SubSeq(v, 1, k)
                y == SubSeq(line, 1, k)
    <3>1. k \in Nat /\ k <= n
      BY <1>0, <1>2, <2>3
    <3>2. x = v
      BY <2>3
    <3>3. y \in Seq(T) /\ Len(y) = k /\ \A i \in 1 .. k : y[i] = line[i]
      <4>1. /\ 1 \in 1 .. Len(line) + 1 /\ k \in 1 - 1 .. Len(line) /\ k - 1 + 1 = k
            /\ \A i \in 1 .. k : 1 + i - 1 = i
        BY <1>0, <3>1
      <4>2. y \in Seq(T) /\ Len(y) = k - 1 + 1 /\ \A i \in 1 .. k - 1 + 1 : y[i] = line[1 + i - 1]
        BY <1>0, <4>1, StretchFacts
      <4>. HIDE DEF y, k
      <4>. QED  BY <4>1, <4>2
    <3>4. v = y
      <4>. HIDE DEF y
      <4>. QED  BY <2>3, <3>3, SeqEqual
    <3>. QED  BY <3>1, <3>2, <3>4 DEF IsPrefix
  <2>. QED  BY <1>2, <2>1, <2>4, <2>5, <2>6, <2>7, <2>8 DEF Begins, T
<1>. QED  BY <1>1, <1>2

-----------------------------------------------------------------------------
\* What the loop of buildVersionPreview knows between its rounds: the lines
\* taken from the first n.
PreviewState(S) == [taken : Seq(Seq(S)), remaining : Nat]
Stopped(s) == Len(s.taken) >= LineLimit \/ s.remaining = 0
Fits(lines) == Len(lines) <= LineLimit /\ Len(FlattenSeq(lines)) <= CharLimit

\* The lines taken keep the limits, begin the first n lines in order and, when
\* all of them fit, are the first n lines.
Taken(lines, s, n) ==
  /\ Len(FlattenSeq(s.taken)) + s.remaining = CharLimit
  /\ Len(s.taken) <= LineLimit /\ Len(s.taken) <= n
  /\ Len(s.taken) = n \/ Stopped(s)
  /\ \A k \in 1 .. Len(s.taken) : Begins(s.taken[k], lines[k])
  /\ Fits(lines) => s.taken = SubSeq(lines, 1, n)

\* A round takes the next line, or none when a limit is reached.
LEMMA RoundTakes ==
  ASSUME NEW S, "~" \in S, NEW lines \in Seq(Seq(S)), \A k \in DOMAIN lines : lines[k] # <<>>,
         NEW n \in Nat, n + 1 <= Len(lines), NEW s \in PreviewState(S), Taken(lines, s, n)
  PROVE  /\ TakeLine(s, lines[n + 1]) \in PreviewState(S)
         /\ Taken(lines, TakeLine(s, lines[n + 1]), n + 1)
<1>. DEFINE line == lines[n + 1]
            m == Len(s.taken)
            shown == Shown(line, s.remaining)
            T == Seq(S)
<1>0. /\ Len(lines) \in Nat /\ n + 1 \in 1 .. Len(lines) /\ n + 1 \in DOMAIN lines /\ line \in T /\ line # <<>>
      /\ CharLimit \in Nat /\ LineLimit \in Nat /\ S \union {"~"} = S
  <2>1. Len(lines) \in Nat /\ n + 1 \in 1 .. Len(lines) /\ n + 1 \in DOMAIN lines
    OBVIOUS
  <2>2. line \in T /\ line # <<>>
    BY <2>1
  <2>3. S \union {"~"} = S
    OBVIOUS
  <2>. QED  BY <2>1, <2>2, <2>3, PlainTextAssumption
<1>1. /\ s.taken \in Seq(T) /\ s.remaining \in Nat /\ m \in Nat
      /\ s = [taken |-> s.taken, remaining |-> s.remaining]
  BY DEF PreviewState
<1>2. FlattenSeq(s.taken) \in Seq(S)
  BY <1>1, FlattenType
<1>3. /\ Len(FlattenSeq(s.taken)) + s.remaining = CharLimit
      /\ m <= LineLimit /\ m <= n /\ (m = n \/ Stopped(s))
      /\ \A k \in 1 .. m : Begins(s.taken[k], lines[k])
      /\ Fits(lines) => s.taken = SubSeq(lines, 1, n)
  BY DEF Taken
<1>4. Fits(lines) => m = n /\ Len(line) <= s.remaining /\ ~Stopped(s)
                       /\ SubSeq(lines, 1, n + 1) = Append(SubSeq(lines, 1, n), line)
  <2>. SUFFICES ASSUME Fits(lines)
                PROVE  m = n /\ Len(line) <= s.remaining /\ ~Stopped(s)
                       /\ SubSeq(lines, 1, n + 1) = Append(SubSeq(lines, 1, n), line)
    OBVIOUS
  <2>1. SubSeq(lines, 1, n) \in Seq(T) /\ Len(SubSeq(lines, 1, n)) = n
    <3>1. n \in 0 .. Len(lines)
      BY <1>0
    <3>. QED  BY <3>1, SplitSeq
  <2>2. s.taken = SubSeq(lines, 1, n) /\ m = n
    BY <1>3, <2>1
  <2>3. /\ End(lines, n + 1) = Len(FlattenSeq(s.taken)) + Len(line) /\ End(lines, n + 1) <= Len(FlattenSeq(lines))
    <3>1. (n + 1) - 1 = n
      OBVIOUS
    <3>2. End(lines, n + 1) = End(lines, n) + Len(line) /\ End(lines, n + 1) <= Len(FlattenSeq(lines))
      BY <1>0, <3>1, NodePlace
    <3>. QED  BY <2>2, <3>2 DEF End
  <2>4. /\ Len(FlattenSeq(lines)) <= CharLimit /\ Len(lines) <= LineLimit
        /\ Len(FlattenSeq(lines)) \in Nat /\ Len(FlattenSeq(s.taken)) \in Nat /\ Len(line) \in Nat /\ Len(line) # 0
    <3>1. FlattenSeq(lines) \in Seq(S)
      BY FlattenType
    <3>2. Len(line) \in Nat /\ Len(line) # 0
      BY <1>0
    <3>. QED  BY <1>2, <3>1, <3>2 DEF Fits
  <2>5. Len(line) <= s.remaining /\ s.remaining # 0
    <3>. DEFINE a == Len(FlattenSeq(s.taken))
                b == Len(line)
                c == Len(FlattenSeq(lines))
                r == s.remaining
    <3>1. /\ a \in Nat /\ b \in Nat /\ c \in Nat /\ r \in Nat /\ b # 0 /\ CharLimit \in Nat
          /\ a + b <= c /\ c <= CharLimit /\ a + r = CharLimit
      BY <1>0, <1>1, <1>3, <2>3, <2>4
    <3>. HIDE DEF a, b, c, r
    <3>2. b <= r /\ r # 0
      BY <3>1
    <3>. QED  BY <3>2 DEF b, r
  <2>6. ~Stopped(s)
    <3>1. ~(m >= LineLimit)
      BY <1>0, <2>2, <2>4
    <3>. QED  BY <2>5, <3>1 DEF Stopped
  <2>7. SubSeq(lines, 1, n + 1) = Append(SubSeq(lines, 1, n), line)
    <3>. DEFINE p == SubSeq(lines, 1, n + 1)
                q == SubSeq(lines, 1, n)
                w == Append(q, line)
    <3>1. /\ n + 1 \in 1 - 1 .. Len(lines) /\ n \in 1 - 1 .. Len(lines) /\ 1 \in 1 .. Len(lines) + 1
          /\ n + 1 - 1 + 1 = n + 1 /\ n - 1 + 1 = n
      BY <1>0
    <3>2. p \in Seq(T) /\ Len(p) = n + 1 - 1 + 1 /\ \A i \in 1 .. n + 1 - 1 + 1 : p[i] = lines[1 + i - 1]
      <4>. HIDE DEF T
      <4>. QED  BY <3>1, StretchFacts DEF T
    <3>3. q \in Seq(T) /\ Len(q) = n - 1 + 1 /\ \A i \in 1 .. n - 1 + 1 : q[i] = lines[1 + i - 1]
      <4>. HIDE DEF T
      <4>. QED  BY <3>1, StretchFacts DEF T
    <3>. HIDE DEF p, q, line, T
    <3>4. w \in Seq(T) /\ Len(w) = n + 1 /\ w[n + 1] = line /\ \A i \in 1 .. n : w[i] = q[i]
      BY <1>0, <3>1, <3>3, AppendFacts
    <3>. HIDE DEF w
    <3>5. ASSUME NEW i \in 1 .. n + 1 PROVE p[i] = w[i]
      <4>1. p[i] = lines[i]
        <5>1. i \in 1 .. n + 1 - 1 + 1 /\ 1 + i - 1 = i
          OBVIOUS
        <5>. QED  BY <3>2, <5>1
      <4>2. CASE i = n + 1
        BY <3>4, <4>1, <4>2 DEF line
      <4>3. CASE i # n + 1
        <5>1. i \in 1 .. n - 1 + 1 /\ i \in 1 .. n /\ 1 + i - 1 = i
          BY <4>3
        <5>. QED  BY <3>3, <3>4, <4>1, <5>1
      <4>. QED  BY <4>2, <4>3
    <3>6. p = w
      <4>1. Len(p) = n + 1
        BY <3>2
      <4>. QED  BY <3>2, <3>4, <3>5, <4>1, SeqEqual
    <3>. QED  BY <3>6 DEF p, w, q
  <2>. QED  BY <2>2, <2>5, <2>6, <2>7
<1>5. CASE Stopped(s)
  <2>1. TakeLine(s, line) = s
    BY <1>5 DEF TakeLine, Stopped
  <2>2. ~Fits(lines)
    BY <1>4, <1>5
  <2>3. m <= n + 1
    BY <1>1, <1>3
  <2>. QED  BY <1>3, <1>5, <2>1, <2>2, <2>3 DEF Taken
<1>6. CASE ~Stopped(s)
  <2>. DEFINE taken == Append(s.taken, shown)
              r == s.remaining - Len(shown)
              z == TakeLine(s, line)
  <2>1. z.taken = taken /\ z.remaining = r /\ z = [taken |-> taken, remaining |-> r]
    BY <1>6 DEF TakeLine, Stopped
  <2>2. ~(m >= LineLimit) /\ s.remaining # 0
    BY <1>6 DEF Stopped
  <2>3. shown \in T /\ Len(shown) <= s.remaining /\ Begins(shown, line) /\ (Len(line) <= s.remaining => shown = line)
    <3>1. /\ shown \in Seq(S \union {"~"}) /\ Len(shown) <= s.remaining /\ Begins(shown, line)
          /\ (Len(line) <= s.remaining => shown = line)
      <4>. HIDE DEF line
      <4>. QED  BY <1>0, <1>1, <2>2, ShownFacts
    <3>. QED  BY <1>0, <3>1
  <2>4. Len(shown) \in Nat /\ m = n
    BY <1>3, <1>6, <2>3
  <2>. HIDE DEF shown, line
  <2>5. /\ taken \in Seq(T) /\ Len(taken) = m + 1 /\ taken[m + 1] = shown
        /\ \A k \in 1 .. m : taken[k] = s.taken[k]
    <3>. HIDE DEF T
    <3>. QED  BY <1>1, <2>3, AppendFacts
  <2>6. FlattenSeq(taken) = FlattenSeq(s.taken) \o shown
    BY <1>1, <2>3, FlattenAppend
  <2>7. Len(FlattenSeq(taken)) = Len(FlattenSeq(s.taken)) + Len(shown)
    BY <1>2, <2>3, <2>6, ConcatType
  <2>8. r \in Nat /\ Len(FlattenSeq(taken)) + r = CharLimit
    <3>. DEFINE a == Len(FlattenSeq(s.taken))
                b == Len(shown)
                c == s.remaining
    <3>1. a \in Nat /\ b \in Nat /\ c \in Nat /\ b <= c /\ a + c = CharLimit /\ CharLimit \in Nat
      BY <1>0, <1>1, <1>2, <1>3, <2>3, <2>4
    <3>2. Len(FlattenSeq(taken)) = a + b /\ r = c - b
      BY <2>7
    <3>. HIDE DEF a, b, c, r, taken
    <3>. QED  BY <3>1, <3>2
  <2>. HIDE DEF taken, r, z
  <2>9. z \in PreviewState(S)
    BY <2>1, <2>5, <2>8 DEF PreviewState
  <2>10. Len(taken) <= LineLimit /\ Len(taken) = n + 1
    BY <1>0, <1>1, <2>2, <2>4, <2>5
  <2>11. \A k \in 1 .. Len(taken) : Begins(taken[k], lines[k])
    <3>. SUFFICES ASSUME NEW k \in 1 .. n + 1 PROVE Begins(taken[k], lines[k])
      BY <2>10
    <3>1. CASE k = n + 1
      BY <2>3, <2>4, <2>5, <3>1 DEF line
    <3>2. CASE k # n + 1
      <4>1. k \in 1 .. m
        BY <2>4, <3>2
      <4>. QED  BY <1>3, <2>5, <4>1
    <3>. QED  BY <3>1, <3>2
  <2>12. Fits(lines) => taken = SubSeq(lines, 1, n + 1)
    <3>. SUFFICES ASSUME Fits(lines) PROVE taken = SubSeq(lines, 1, n + 1)
      OBVIOUS
    <3>1. shown = line /\ s.taken = SubSeq(lines, 1, n) /\ SubSeq(lines, 1, n + 1) = Append(SubSeq(lines, 1, n), line)
      BY <1>3, <1>4, <2>3
    <3>. QED  BY <3>1 DEF taken
  <2>13. Len(taken) <= n + 1
    BY <2>10
  <2>14. Taken(lines, z, n + 1)
    BY <2>1, <2>8, <2>10, <2>11, <2>12, <2>13 DEF Taken
  <2>. QED  BY <2>9, <2>14 DEF z, line
<1>. QED  BY <1>5, <1>6

-----------------------------------------------------------------------------
(* The preview of all lines.                                               *)

\* The rounds of the loop of buildVersionPreview.
PreviewRounds(lines, h) ==
  /\ h[0] = [taken |-> <<>>, remaining |-> CharLimit]
  /\ \A i \in 1 .. Len(lines) : h[i] = TakeLine(h[i - 1], lines[i])

\* A round keeps the state of the loop.
LEMMA TakeLineType ==
  ASSUME NEW S, "~" \in S, NEW line \in Seq(S), line # <<>>, NEW s \in PreviewState(S)
  PROVE  TakeLine(s, line) \in PreviewState(S)
<1>1. s.taken \in Seq(Seq(S)) /\ s.remaining \in Nat
  BY DEF PreviewState
<1>2. CASE Stopped(s)
  <2>1. TakeLine(s, line) = s
    BY <1>2 DEF TakeLine, Stopped
  <2>. QED  BY <2>1
<1>3. CASE ~Stopped(s)
  <2>. DEFINE shown == Shown(line, s.remaining)
              taken == Append(s.taken, shown)
              r == s.remaining - Len(shown)
  <2>1. TakeLine(s, line) = [taken |-> taken, remaining |-> r]
    BY <1>3 DEF TakeLine, Stopped
  <2>2. s.remaining # 0 /\ S \union {"~"} = S
    BY <1>3 DEF Stopped
  <2>3. shown \in Seq(S) /\ Len(shown) <= s.remaining
    <3>1. shown \in Seq(S \union {"~"}) /\ Len(shown) <= s.remaining
      BY <1>1, <2>2, ShownFacts
    <3>. QED  BY <2>2, <3>1
  <2>. HIDE DEF shown
  <2>4. taken \in Seq(Seq(S))
    BY <1>1, <2>3, AppendFacts
  <2>5. r \in Nat
    <3>1. Len(shown) \in Nat
      BY <2>3
    <3>. QED  BY <1>1, <2>3, <3>1
  <2>. HIDE DEF taken, r
  <2>. QED  BY <2>1, <2>4, <2>5 DEF PreviewState
<1>. QED  BY <1>2, <1>3

\* The loop has its rounds.
LEMMA TakeLinesIsRounds ==
  ASSUME NEW S, "~" \in S, NEW lines \in Seq(Seq(S)), \A k \in DOMAIN lines : lines[k] # <<>>
  PROVE  \E h : PreviewRounds(lines, h) /\ TakeLines(lines) = h[Len(lines)].taken
<1>. DEFINE X == PreviewState(S)
            n == Len(lines)
            x == [taken |-> <<>>, remaining |-> CharLimit]
            step == [i \in 1 .. n |-> [s \in X |-> TakeLine(s, lines[i])]]
            Def(g) == [i \in 0 .. n |-> IF i = 0 THEN x ELSE TakeLine(g[i - 1], lines[i])]
            h == CHOOSE g : g = Def(g)
<1>0. n \in Nat /\ \A i \in 1 .. n : lines[i] \in Seq(S) /\ lines[i] # <<>>
  <2>1. n \in Nat
    OBVIOUS
  <2>2. ASSUME NEW i \in 1 .. n PROVE lines[i] \in Seq(S) /\ lines[i] # <<>>
    <3>1. i \in DOMAIN lines
      OBVIOUS
    <3>. QED  BY <3>1
  <2>. QED  BY <2>1, <2>2
<1>1. x \in X
  <2>1. <<>> \in Seq(Seq(S))
    OBVIOUS
  <2>. QED  BY <2>1, PlainTextAssumption DEF PreviewState
<1>2. step \in [1 .. n -> [X -> X]]
  <2>1. ASSUME NEW i \in 1 .. n, NEW s \in X PROVE TakeLine(s, lines[i]) \in X
    <3>1. lines[i] \in Seq(S) /\ lines[i] # <<>>
      BY <1>0
    <3>. QED  BY <3>1, TakeLineType
  <2>. HIDE DEF X, n
  <2>. QED  BY <2>1
<1>3. PICK g \in [0 .. n -> X] : Rounds(g, n, x, step)
  <2>. HIDE DEF X, n, x, step
  <2>. QED  BY <1>0, <1>1, <1>2, RoundsExist
<1>4. g = Def(g)
  <2>1. ASSUME NEW i \in 0 .. n PROVE g[i] = IF i = 0 THEN x ELSE TakeLine(g[i - 1], lines[i])
    <3>. HIDE DEF x, X
    <3>1. CASE i = 0
      BY <1>3, <3>1 DEF Rounds
    <3>2. CASE i # 0
      <4>1. i \in 1 .. n /\ i - 1 \in 0 .. n
        BY <1>0, <3>2
      <4>2. g[i] = step[i][g[i - 1]] /\ g[i - 1] \in X
        BY <1>3, <4>1 DEF Rounds
      <4>3. step[i][g[i - 1]] = TakeLine(g[i - 1], lines[i])
        <5>. HIDE DEF n
        <5>. QED  BY <4>1, <4>2
      <4>. QED  BY <3>2, <4>2, <4>3
    <3>. QED  BY <3>1, <3>2
  <2>. HIDE DEF x, X, n
  <2>. QED  BY <1>3, <2>1
<1>5. h = Def(h)
  <2>. HIDE DEF Def
  <2>. QED  BY <1>4, Zenon
<1>6. TakeLines(lines) = h[n].taken
  BY Zenon DEF TakeLines
<1>. HIDE DEF h
<1>7. PreviewRounds(lines, h)
  <2>1. ASSUME NEW i \in 0 .. n PROVE h[i] = IF i = 0 THEN x ELSE TakeLine(h[i - 1], lines[i])
    <3>. HIDE DEF n
    <3>. QED  BY <1>5
  <2>2. 0 \in 0 .. n /\ \A i \in 1 .. n : i \in 0 .. n /\ i # 0
    BY <1>0
  <2>3. h[0] = x
    BY <2>1, <2>2
  <2>. HIDE DEF x
  <2>4. \A i \in 1 .. n : h[i] = TakeLine(h[i - 1], lines[i])
    <3>. HIDE DEF n
    <3>. QED  BY <2>1, <2>2
  <2>. QED  BY <2>3, <2>4 DEF PreviewRounds, x
<1>. QED  BY <1>6, <1>7

\* The preview of any lines, none of them empty: it keeps its limits of lines
\* and characters, begins the first lines in order, and shows all that fits.
THEOREM PreviewOfLines ==
  ASSUME NEW S, NEW lines \in Seq(Seq(S)), \A k \in DOMAIN lines : lines[k] # <<>>
  PROVE  PreviewKeeps(lines)
<1>. DEFINE T == S \union {"~"}
            n == Len(lines)
<1>0. lines \in Seq(Seq(T)) /\ "~" \in T /\ n \in Nat /\ CharLimit \in Nat /\ LineLimit \in Nat
  <2>1. Seq(S) \subseteq Seq(T)
    OBVIOUS
  <2>. DEFINE A == Seq(S)
              B == Seq(T)
  <2>2. lines \in Seq(B)
    <3>1. A \subseteq B /\ lines \in Seq(A)
      BY <2>1
    <3>. HIDE DEF A, B
    <3>. QED  BY <3>1
  <2>3. n \in Nat /\ "~" \in T
    OBVIOUS
  <2>. QED  BY <2>2, <2>3, PlainTextAssumption
<1>. HIDE DEF T
<1>1. PICK h : PreviewRounds(lines, h) /\ TakeLines(lines) = h[n].taken
  BY <1>0, TakeLinesIsRounds
<1>. DEFINE Q == {k \in Nat : k <= n => h[k] \in PreviewState(T) /\ Taken(lines, h[k], k)}
<1>2. 0 \in Q
  <2>1. h[0].taken = <<>> /\ h[0].remaining = CharLimit /\ h[0] = [taken |-> <<>>, remaining |-> CharLimit]
    BY <1>1 DEF PreviewRounds
  <2>2. <<>> \in Seq(Seq(T)) /\ Len(<<>>) = 0 /\ FlattenSeq(<<>>) = <<>>
    BY FlattenEmpty
  <2>3. h[0] \in PreviewState(T)
    BY <1>0, <2>1, <2>2 DEF PreviewState
  <2>4. SubSeq(lines, 1, 0) = <<>>
    OBVIOUS
  <2>5. /\ Len(h[0].taken) = 0 /\ Len(FlattenSeq(h[0].taken)) = 0
    BY <2>1, <2>2
  <2>6. Taken(lines, h[0], 0)
    <3>1. 0 + CharLimit = CharLimit /\ 0 <= LineLimit /\ 1 .. 0 = {}
      BY <1>0
    <3>. QED  BY <2>1, <2>4, <2>5, <3>1 DEF Taken
  <2>. QED  BY <2>3, <2>6
<1>3. ASSUME NEW k \in Nat, k \in Q PROVE k + 1 \in Q
  <2>. SUFFICES ASSUME k + 1 <= n
                PROVE  h[k + 1] \in PreviewState(T) /\ Taken(lines, h[k + 1], k + 1)
    OBVIOUS
  <2>1. h[k] \in PreviewState(T) /\ Taken(lines, h[k], k)
    BY <1>0, <1>3
  <2>2. h[k + 1] = TakeLine(h[k], lines[k + 1])
    <3>1. k + 1 \in 1 .. Len(lines) /\ (k + 1) - 1 = k
      BY <1>0
    <3>2. h[k + 1] = TakeLine(h[(k + 1) - 1], lines[k + 1])
      BY <1>1, <3>1 DEF PreviewRounds
    <3>. QED  BY <3>1, <3>2
  <2>3. /\ TakeLine(h[k], lines[k + 1]) \in PreviewState(T)
        /\ Taken(lines, TakeLine(h[k], lines[k + 1]), k + 1)
    BY <1>0, <2>1, RoundTakes
  <2>. QED  BY <2>2, <2>3
<1>4. h[n] \in PreviewState(T) /\ Taken(lines, h[n], n)
  <2>1. Nat \subseteq Q
    <3>. HIDE DEF Q
    <3>. QED  BY <1>2, <1>3, SetInduction
  <2>2. n \in Q
    <3>. HIDE DEF Q
    <3>. QED  BY <1>0, <2>1
  <2>. QED  BY <1>0, <2>2
<1>. DEFINE p == TakeLines(lines)
<1>5. /\ p \in Seq(Seq(T)) /\ h[n].remaining \in Nat
      /\ Len(FlattenSeq(p)) + h[n].remaining = CharLimit
      /\ Len(p) <= LineLimit /\ Len(p) <= n
      /\ \A k \in 1 .. Len(p) : Begins(p[k], lines[k])
      /\ Fits(lines) => p = SubSeq(lines, 1, n)
  BY <1>1, <1>4 DEF PreviewState, Taken
<1>. HIDE DEF p
<1>6. Len(FlattenSeq(p)) <= CharLimit
  <2>1. FlattenSeq(p) \in Seq(T)
    BY <1>5, FlattenType
  <2>2. Len(FlattenSeq(p)) \in Nat
    BY <2>1
  <2>. QED  BY <1>0, <1>5, <2>2
<1>7. DOMAIN p = 1 .. Len(p) /\ SubSeq(lines, 1, n) = lines
  BY <1>5
<1>. QED  BY <1>5, <1>6, <1>7 DEF PreviewKeeps, Fits, p
=============================================================================
