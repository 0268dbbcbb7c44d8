----------------------- MODULE EndpointRequestProofs ------------------------
(***************************************************************************)
(* Proofs about the construction of endpoint requests, for all operations,  *)
(* arguments and orders in which the parameters are visited.                *)
(***************************************************************************)
EXTENDS EndpointRequest, SequenceTheorems, WellFoundedInduction, TLAPS

-----------------------------------------------------------------------------
(* Replacing the tokens of a sequence.                                       *)

\* The sequence with every token replaced by the tokens that g has for it.
Spread(g, t) == FlattenSeq([i \in DOMAIN t |-> g[t[i]]])

\* Every nonempty set of natural numbers has a least element.
LEMMA LeastNumber ==
    ASSUME NEW T, T \subseteq Nat, T # {}
    PROVE  \E i \in T : \A j \in T : i <= j
  <1> DEFINE R == OpToRel(<, Nat)
  <1>1. IsWellFoundedOn(R, Nat)
    BY NatLessThanWellFounded
  <1>2. \A i, j \in Nat : i < j => <<i, j>> \in R
    BY DEF OpToRel
  <1> HIDE DEF R
  <1>3. PICK i \in T : \A j \in T : <<j, i>> \notin R
    BY <1>1, WFMin
  <1>4. ASSUME NEW j \in T PROVE i <= j
    <2>1. i \in Nat /\ j \in Nat /\ ~(j < i)
      BY <1>2, <1>3
    <2> QED
      BY <2>1
  <1> QED
    BY <1>4

\* A sequence is empty or an element was appended to a shorter one.
LEMMA FrontAndLast ==
    ASSUME NEW T, NEW t \in Seq(T), t # <<>>
    PROVE  \E u \in Seq(T), e \in T : t = Append(u, e) /\ Len(t) = Len(u) + 1
  <1> DEFINE n == Len(t)
             u == SubSeq(t, 1, n - 1)
  <1>1. n \in Nat /\ n >= 1 /\ \A i \in 1 .. n : t[i] \in T
    BY EmptySeq
  <1>2. u \in Seq(T) /\ Len(u) = n - 1 /\ \A i \in 1 .. n - 1 : u[i] = t[i]
    <2> HIDE DEF n
    <2>1. \A i \in 1 .. n - 1 : t[i] \in T
      BY <1>1
    <2>2. 1 \in Int /\ n - 1 \in Int /\ (n - 1) - 1 + 1 = n - 1
      BY <1>1
    <2>3. \A i \in 1 .. n - 1 : 1 + i - 1 = i
      BY <1>1
    <2>4. 1 <= n - 1 \/ n - 1 = 0
      BY <1>1
    <2> QED
      BY <2>1, <2>2, <2>3, <2>4, SubSeqProperties DEF u
  <1>3. t[n] \in T
    BY <1>1
  <1> DEFINE a == Append(u, t[n])
  <1> HIDE DEF u
  <1>4. a \in Seq(T) /\ Len(a) = n /\ \A i \in 1 .. n : a[i] = t[i]
    BY <1>1, <1>2, <1>3
  <1>5. t = a
    <2> HIDE DEF a
    <2> QED
      BY <1>4, SeqEqual
  <1> QED
    BY <1>1, <1>2, <1>3, <1>5

\* What holds of the empty sequence, and of one more token whenever it holds of a
\* sequence, holds of all sequences.
LEMMA SequenceByToken ==
    ASSUME NEW T, NEW P, <<>> \in P,
           \A t \in Seq(T), e \in T : t \in P => Append(t, e) \in P
    PROVE  Seq(T) \subseteq P
  <1> DEFINE bad == {n \in Nat : \E t \in Seq(T) : t \notin P /\ Len(t) = n}
  <1>1. ASSUME NEW t \in Seq(T), t \notin P PROVE FALSE
    <2>1. bad \subseteq Nat /\ Len(t) \in bad
      BY <1>1
    <2>2. PICK n \in bad : \A m \in bad : n <= m
      <3> HIDE DEF bad
      <3> QED
        BY <2>1, LeastNumber
    <2>3. PICK u \in Seq(T) : u \notin P /\ Len(u) = n
      BY <2>2
    <2>4. u # <<>>
      BY <2>3
    <2>5. PICK v \in Seq(T), e \in T : u = Append(v, e) /\ Len(u) = Len(v) + 1
      BY <2>4, FrontAndLast
    <2>6. v \notin P
      BY <2>3, <2>5
    <2>7. Len(v) \in bad /\ Len(v) \in Nat
      BY <2>6
    <2>8. n <= Len(v)
      BY <2>2, <2>7
    <2> QED
      BY <2>3, <2>5, <2>7, <2>8
  <1> QED
    BY <1>1

\* The run of FlattenSeq over the sequences of s.
FlattenRun(f, s) ==
    /\ DOMAIN f = 1 .. Len(s)
    /\ \A i \in 1 .. Len(s) : f[i] = IF i = 1 THEN s[i] ELSE f[i - 1] \o s[i]

\* FlattenSeq has one.
LEMMA FlattenRuns ==
    ASSUME NEW s, NEW n \in Nat, n # 0, Len(s) = n
    PROVE  \E f : FlattenRun(f, s) /\ FlattenSeq(s) = f[n]
  <1> DEFINE body_(f, i) == IF i = 1 THEN s[i] ELSE f[i - 1] \o s[i]
             upTo(m) == \E f : f = [i \in 1 .. m |-> body_(f, i)]
             bad == {m \in Nat : ~upTo(m)}
  <1>1. ASSUME NEW k \in Nat PROVE upTo(k)
    <2> SUFFICES ASSUME ~upTo(k) PROVE FALSE
      OBVIOUS
    <2>1. bad \subseteq Nat /\ k \in bad
      OBVIOUS
    <2>2. PICK m \in bad : \A j \in bad : m <= j
      <3> HIDE DEF bad
      <3> QED
        BY <2>1, LeastNumber
    <2>3. m \in Nat /\ ~upTo(m)
      OBVIOUS
    <2>4. CASE m = 0
      <3> DEFINE g == [i \in 1 .. 0 |-> 0]
      <3>1. g = [i \in 1 .. 0 |-> body_(g, i)]
        OBVIOUS
      <3> QED
        BY <2>3, <2>4, <3>1
    <2>5. CASE m # 0
      <3>1. m - 1 \in Nat /\ m - 1 < m
        BY <2>3, <2>5
      <3>2. upTo(m - 1)
        <4>1. m - 1 \in bad \/ upTo(m - 1)
          BY <3>1
        <4> HIDE DEF bad, upTo
        <4> QED
          BY <2>2, <2>3, <3>1, <4>1
      <3>3. PICK g : g = [i \in 1 .. m - 1 |-> body_(g, i)]
        BY <3>2
      <3> DEFINE h == [i \in 1 .. m |-> IF i = m THEN body_(g, m) ELSE g[i]]
      <3>4. ASSUME NEW i \in 1 .. m PROVE h[i] = body_(h, i)
        <4>1. i # 1 => h[i - 1] = g[i - 1]
          BY <2>3
        <4>2. CASE i = m
          <5>1. h[i] = body_(g, i)
            BY <4>2
          <5> HIDE DEF h
          <5> QED
            BY <4>1, <5>1
        <4>3. CASE i # m
          <5>1. i \in 1 .. m - 1
            BY <2>3, <4>3
          <5>2. h[i] = g[i]
            BY <4>3
          <5>3. g[i] = body_(g, i)
            BY <3>3, <5>1
          <5> HIDE DEF h
          <5> QED
            BY <4>1, <5>2, <5>3
        <4> QED
          BY <4>2, <4>3
      <3>5. h = [i \in 1 .. m |-> body_(h, i)]
        <4>1. DOMAIN h = 1 .. m /\ h = [i \in 1 .. m |-> h[i]]
          OBVIOUS
        <4> HIDE DEF h
        <4> QED
          BY <3>4, <4>1
      <3> HIDE DEF h
      <3> QED
        BY <2>3, <3>5
    <2> QED
      BY <2>4, <2>5
  <1> DEFINE f == CHOOSE f : f = [i \in 1 .. n |-> body_(f, i)]
  <1>2. f = [i \in 1 .. n |-> body_(f, i)]
    <2>1. upTo(n)
      BY <1>1
    <2> QED
      BY <2>1
  <1>3. FlattenSeq(s) = f[n]
    BY DEF FlattenSeq
  <1> HIDE DEF f
  <1>4. FlattenRun(f, s)
    BY <1>2 DEF FlattenRun
  <1> QED
    BY <1>3, <1>4

\* One sequence more is appended.
LEMMA FlattenAppend ==
    ASSUME NEW T, NEW s \in Seq(Seq(T)), NEW e \in Seq(T)
    PROVE  FlattenSeq(Append(s, e)) = FlattenSeq(s) \o e
  <1> DEFINE n == Len(s)
             a == Append(s, e)
  <1>1. n \in Nat /\ Len(a) = n + 1 /\ a[n + 1] = e /\ \A i \in 1 .. n : a[i] = s[i]
    OBVIOUS
  <1>2. n + 1 \in Nat /\ n + 1 # 0 /\ (n + 1) - 1 = n
    BY <1>1
  <1> HIDE DEF a, n
  <1>3. PICK g : FlattenRun(g, a) /\ FlattenSeq(a) = g[n + 1]
    BY <1>1, <1>2, FlattenRuns
  <1>4. CASE n = 0
    <2>1. s = <<>> /\ FlattenSeq(s) = s
      BY <1>4 DEF n, FlattenSeq
    <2>2. 1 \in 1 .. 1
      OBVIOUS
    <2>3. g[1] = a[1]
      BY <1>1, <1>3, <1>4, <2>2 DEF FlattenRun
    <2>4. <<>> \o e = e
      BY ConcatEmptySeq
    <2> QED
      BY <1>1, <1>3, <1>4, <2>1, <2>3, <2>4 DEF a
  <1>5. CASE n # 0
    <2>1. PICK f : FlattenRun(f, s) /\ FlattenSeq(s) = f[n]
      BY <1>1, <1>5, FlattenRuns DEF n
    <2> DEFINE bad == {i \in Nat : i \in 1 .. n /\ f[i] # g[i]}
    <2>2. ASSUME NEW i \in 1 .. n, f[i] # g[i] PROVE FALSE
      <3>1. bad \subseteq Nat /\ i \in bad
        BY <1>1, <2>2
      <3>2. PICK m \in bad : \A j \in bad : m <= j
        <4> HIDE DEF bad
        <4> QED
          BY <3>1, LeastNumber
      <3>3. m \in Nat /\ m \in 1 .. n /\ f[m] # g[m]
        BY <3>2
      <3>4. m \in 1 .. n + 1
        BY <1>1, <3>3
      <3>5. /\ f[m] = IF m = 1 THEN s[m] ELSE f[m - 1] \o s[m]
            /\ g[m] = IF m = 1 THEN a[m] ELSE g[m - 1] \o a[m]
        BY <1>1, <1>3, <2>1, <3>3, <3>4 DEF FlattenRun, n
      <3>6. a[m] = s[m]
        BY <1>1, <3>3
      <3>7. m # 1 /\ f[m - 1] # g[m - 1]
        BY <3>3, <3>5, <3>6
      <3>8. m - 1 \in Nat /\ m - 1 \in 1 .. n /\ ~(m <= m - 1)
        BY <1>1, <3>3, <3>7
      <3>9. m - 1 \in bad
        BY <3>7, <3>8
      <3> HIDE DEF bad
      <3> QED
        BY <3>2, <3>8, <3>9
    <2>3. n \in 1 .. n /\ n + 1 \in 1 .. n + 1 /\ n + 1 # 1
      BY <1>1, <1>5
    <2>4. g[n + 1] = g[n] \o a[n + 1]
      BY <1>1, <1>2, <1>3, <2>3 DEF FlattenRun
    <2>5. f[n] = g[n]
      BY <2>2, <2>3
    <2> QED
      BY <1>1, <1>3, <2>1, <2>4, <2>5 DEF a
  <1> QED
    BY <1>4, <1>5

\* The replacements of tokens by tokens.
Replacements(T) == [T -> Seq(T)]

\* Nothing is replaced by nothing.
LEMMA SpreadEmpty == \A g : Spread(g, <<>>) = <<>>
  <1> TAKE g
  <1> DEFINE s == [i \in DOMAIN <<>> |-> g[<<>>[i]]]
  <1>1. s \in Seq({}) /\ Len(s) = 0
    BY Z3
  <1>2. s = <<>>
    BY <1>1, EmptySeq
  <1> QED
    BY <1>1, <1>2 DEF Spread, FlattenSeq

\* The replacement of one token more is appended.
LEMMA SpreadAppend ==
    ASSUME NEW T, NEW g \in Replacements(T), NEW t \in Seq(T), NEW e \in T
    PROVE  Spread(g, Append(t, e)) = Spread(g, t) \o g[e]
  <1> DEFINE a == Append(t, e)
             p == [i \in DOMAIN t |-> g[t[i]]]
             q == [i \in DOMAIN a |-> g[a[i]]]
             r == Append(p, g[e])
             n == Len(t)
  <1>1. /\ n \in Nat /\ DOMAIN t = 1 .. n /\ \A i \in 1 .. n : t[i] \in T
        /\ DOMAIN a = 1 .. n + 1 /\ a[n + 1] = e /\ \A i \in 1 .. n : a[i] = t[i]
    OBVIOUS
  <1>2. \A y \in T : g[y] \in Seq(T)
    BY DEF Replacements
  <1> HIDE DEF n
  <1>3. p \in Seq(Seq(T)) /\ Len(p) = n /\ \A i \in 1 .. n : p[i] = g[t[i]]
    <2>1. p = [i \in 1 .. n |-> g[t[i]]]
      BY <1>1
    <2> QED
      BY <1>1, <1>2, <2>1
  <1>4. q \in Seq(Seq(T)) /\ Len(q) = n + 1 /\ \A i \in 1 .. n + 1 : q[i] = g[a[i]]
    <2> HIDE DEF a
    <2>1. q = [i \in 1 .. n + 1 |-> g[a[i]]]
      BY <1>1
    <2>2. \A i \in 1 .. n + 1 : a[i] \in T
      BY <1>1
    <2> QED
      BY <1>1, <1>2, <2>1, <2>2
  <1> HIDE DEF p
  <1>5. r \in Seq(Seq(T)) /\ Len(r) = n + 1 /\ r[n + 1] = g[e] /\ \A i \in 1 .. n : r[i] = p[i]
    BY <1>1, <1>2, <1>3
  <1>6. q = r
    <2> HIDE DEF a, q, r
    <2>1. ASSUME NEW i \in 1 .. n + 1 PROVE q[i] = r[i]
      <3>1. CASE i = n + 1
        BY <1>1, <1>4, <1>5, <3>1
      <3>2. CASE i # n + 1
        <4>1. i \in 1 .. n
          BY <1>1, <3>2
        <4>2. q[i] = g[a[i]] /\ a[i] = t[i]
          BY <1>1, <1>4, <4>1
        <4>3. r[i] = p[i] /\ p[i] = g[t[i]]
          BY <1>3, <1>5, <4>1
        <4> QED
          BY <4>2, <4>3
      <3> QED
        BY <3>1, <3>2
    <2> QED
      BY <1>4, <1>5, <2>1, SeqEqual
  <1>7. FlattenSeq(r) = FlattenSeq(p) \o g[e]
    BY <1>2, <1>3, FlattenAppend
  <1> QED
    BY <1>6, <1>7 DEF Spread, p

\* The replacement of one token.
LEMMA SpreadOne ==
    ASSUME NEW T, NEW g \in Replacements(T), NEW e \in T
    PROVE  Spread(g, <<e>>) = g[e]
  <1>1. <<>> \in Seq(T) /\ Append(<<>>, e) = <<e>> /\ g[e] \in Seq(T)
    BY DEF Replacements
  <1>2. Spread(g, Append(<<>>, e)) = <<>> \o g[e]
    BY <1>1, SpreadAppend, SpreadEmpty
  <1> QED
    BY <1>1, <1>2, ConcatEmptySeq

\* What replaces tokens is tokens.
LEMMA SpreadTyped ==
    ASSUME NEW T, NEW g \in Replacements(T)
    PROVE  \A t \in Seq(T) : Spread(g, t) \in Seq(T)
  <1> DEFINE P == {t \in Seq(T) : Spread(g, t) \in Seq(T)}
  <1>1. <<>> \in P
    BY SpreadEmpty, EmptySeq
  <1>2. ASSUME NEW t \in Seq(T), NEW e \in T, t \in P PROVE Append(t, e) \in P
    <2>1. Spread(g, t) \in Seq(T) /\ g[e] \in Seq(T) /\ Append(t, e) \in Seq(T)
      BY <1>2 DEF Replacements
    <2>2. Spread(g, t) \o g[e] \in Seq(T)
      BY <2>1, ConcatProperties
    <2>3. Spread(g, Append(t, e)) = Spread(g, t) \o g[e]
      BY SpreadAppend
    <2> QED
      BY <2>1, <2>2, <2>3
  <1> HIDE DEF P
  <1>3. Seq(T) \subseteq P
    BY <1>1, <1>2, SequenceByToken
  <1> QED
    BY <1>3 DEF P

\* Two parts are replaced part by part.
LEMMA SpreadConcat ==
    ASSUME NEW T, NEW g \in Replacements(T), NEW s \in Seq(T)
    PROVE  \A t \in Seq(T) : Spread(g, s \o t) = Spread(g, s) \o Spread(g, t)
  <1> DEFINE P == {t \in Seq(T) : Spread(g, s \o t) = Spread(g, s) \o Spread(g, t)}
  <1>1. <<>> \in P
    <2>1. Spread(g, s) \in Seq(T)
      BY SpreadTyped
    <2>2. s \o <<>> = s /\ Spread(g, s) \o <<>> = Spread(g, s)
      BY <2>1, ConcatEmptySeq
    <2> QED
      BY <2>2, SpreadEmpty, EmptySeq
  <1>2. ASSUME NEW t \in Seq(T), NEW e \in T, t \in P PROVE Append(t, e) \in P
    <2> DEFINE x == Spread(g, s)
               y == Spread(g, t)
               z == g[e]
    <2>1. x \in Seq(T) /\ y \in Seq(T) /\ z \in Seq(T)
      BY SpreadTyped DEF Replacements
    <2>2. s \o t \in Seq(T) /\ Append(t, e) \in Seq(T) /\ s \o Append(t, e) = Append(s \o t, e)
      OBVIOUS
    <2>3. Spread(g, Append(s \o t, e)) = Spread(g, s \o t) \o z
      BY <2>2, SpreadAppend
    <2>4. Spread(g, s \o t) = x \o y
      BY <1>2
    <2>5. Spread(g, Append(t, e)) = y \o z
      BY SpreadAppend
    <2>6. (x \o y) \o z = x \o (y \o z)
      <3> HIDE DEF x, y, z
      <3> QED
        BY <2>1, ConcatAssociative
    <2> HIDE DEF x, y, z
    <2>7. Spread(g, s \o Append(t, e)) = x \o Spread(g, Append(t, e))
      BY <2>2, <2>3, <2>4, <2>5, <2>6
    <2> QED
      BY <2>2, <2>7 DEF x
  <1> HIDE DEF P
  <1>3. Seq(T) \subseteq P
    BY <1>1, <1>2, SequenceByToken
  <1> QED
    BY <1>3 DEF P

\* Two replacements one after the other are one.
LEMMA SpreadTwice ==
    ASSUME NEW T, NEW g \in Replacements(T), NEW h \in Replacements(T),
           NEW k \in Replacements(T), \A y \in T : k[y] = Spread(h, g[y])
    PROVE  \A t \in Seq(T) : Spread(h, Spread(g, t)) = Spread(k, t)
  <1> DEFINE P == {t \in Seq(T) : Spread(h, Spread(g, t)) = Spread(k, t)}
  <1>1. <<>> \in P
    BY SpreadEmpty, EmptySeq
  <1>2. ASSUME NEW t \in Seq(T), NEW e \in T, t \in P PROVE Append(t, e) \in P
    <2>1. Spread(g, t) \in Seq(T)
      BY SpreadTyped
    <2>2. Spread(g, Append(t, e)) = Spread(g, t) \o g[e] /\ Append(t, e) \in Seq(T)
      BY SpreadAppend
    <2>3. Spread(h, Spread(g, t) \o g[e]) = Spread(h, Spread(g, t)) \o Spread(h, g[e])
      <3>1. g[e] \in Seq(T)
        BY DEF Replacements
      <3>2. \A a, b \in Seq(T) : Spread(h, a \o b) = Spread(h, a) \o Spread(h, b)
        BY SpreadConcat
      <3> QED
        BY <2>1, <3>1, <3>2
    <2>4. Spread(k, Append(t, e)) = Spread(k, t) \o k[e]
      BY SpreadAppend
    <2>5. Spread(h, Spread(g, t)) = Spread(k, t)
      BY <1>2
    <2>6. Spread(h, Spread(g, Append(t, e))) = Spread(k, Append(t, e))
      BY <2>2, <2>3, <2>4, <2>5
    <2> QED
      BY <2>2, <2>6
  <1> HIDE DEF P
  <1>3. Seq(T) \subseteq P
    BY <1>1, <1>2, SequenceByToken
  <1> QED
    BY <1>3 DEF P

\* A sequence of which no token is replaced stays.
LEMMA SpreadNothing ==
    ASSUME NEW T, NEW g \in Replacements(T)
    PROVE  \A t \in Seq(T) : (\A i \in 1 .. Len(t) : g[t[i]] = <<t[i]>>) => Spread(g, t) = t
  <1> DEFINE kept(t) == \A i \in 1 .. Len(t) : g[t[i]] = <<t[i]>>
             P == {t \in Seq(T) : kept(t) => Spread(g, t) = t}
  <1>1. <<>> \in P
    BY SpreadEmpty, EmptySeq
  <1>2. ASSUME NEW t \in Seq(T), NEW e \in T, t \in P PROVE Append(t, e) \in P
    <2>1. Append(t, e) \in Seq(T) /\ t \o <<e>> = Append(t, e)
      OBVIOUS
    <2>2. ASSUME kept(Append(t, e)) PROVE Spread(g, Append(t, e)) = Append(t, e)
      <3> DEFINE a == Append(t, e)
      <3>1. /\ Len(t) \in Nat /\ Len(a) = Len(t) + 1 /\ a[Len(t) + 1] = e
            /\ \A i \in 1 .. Len(t) : a[i] = t[i]
        OBVIOUS
      <3>2. \A i \in 1 .. Len(a) : g[a[i]] = <<a[i]>>
        BY <2>2
      <3> HIDE DEF a
      <3>3. kept(t)
        BY <3>1, <3>2
      <3>4. g[e] = <<e>>
        <4>1. Len(t) + 1 \in 1 .. Len(a)
          BY <3>1
        <4> QED
          BY <3>1, <3>2, <4>1
      <3>5. Spread(g, t) = t
        BY <1>2, <3>3
      <3>6. Spread(g, Append(t, e)) = t \o <<e>>
        BY <3>4, <3>5, SpreadAppend
      <3> QED
        BY <2>1, <3>6
    <2> QED
      BY <2>1, <2>2
  <1> HIDE DEF P
  <1>3. Seq(T) \subseteq P
    BY <1>1, <1>2, SequenceByToken
  <1> QED
    BY <1>3 DEF P

\* Every token of the result is of the replacement of a token.
LEMMA SpreadTokens ==
    ASSUME NEW T, NEW g \in Replacements(T)
    PROVE  \A t \in Seq(T) : \A k \in 1 .. Len(Spread(g, t)) : \E i \in 1 .. Len(t) :
              \E j \in 1 .. Len(g[t[i]]) : Spread(g, t)[k] = g[t[i]][j]
  <1> DEFINE from(t, y) == \E i \in 1 .. Len(t) : \E j \in 1 .. Len(g[t[i]]) : y = g[t[i]][j]
             P == {t \in Seq(T) : \A k \in 1 .. Len(Spread(g, t)) : from(t, Spread(g, t)[k])}
  <1>1. <<>> \in P
    BY SpreadEmpty, EmptySeq
  <1>2. ASSUME NEW t \in Seq(T), NEW e \in T, t \in P PROVE Append(t, e) \in P
    <2> DEFINE a == Append(t, e)
               x == Spread(g, t)
               y == Spread(g, a)
    <2>1. /\ Len(t) \in Nat /\ Len(a) = Len(t) + 1 /\ a[Len(t) + 1] = e
          /\ \A i \in 1 .. Len(t) : a[i] = t[i]
      OBVIOUS
    <2>2. x \in Seq(T) /\ g[e] \in Seq(T) /\ a \in Seq(T)
      BY SpreadTyped DEF Replacements
    <2>3. y = x \o g[e]
      BY SpreadAppend
    <2>4. \A k \in 1 .. Len(x) : from(t, x[k])
      BY <1>2
    <2> HIDE DEF a, x, y
    <2>5. ASSUME NEW k \in 1 .. Len(y) PROVE from(a, y[k])
      <3>1. Len(x) \in Nat /\ Len(g[e]) \in Nat /\ Len(y) = Len(x) + Len(g[e])
        BY <2>2, <2>3
      <3>2. CASE k <= Len(x)
        <4>1. k \in 1 .. Len(x) /\ y[k] = x[k]
          BY <2>2, <2>3, <3>1, <3>2
        <4>2. PICK i \in 1 .. Len(t) : \E j \in 1 .. Len(g[t[i]]) : x[k] = g[t[i]][j]
          BY <2>4, <4>1
        <4>3. i \in 1 .. Len(a) /\ a[i] = t[i]
          BY <2>1
        <4> QED
          BY <4>1, <4>2, <4>3
      <3>3. CASE ~(k <= Len(x))
        <4>1. k - Len(x) \in 1 .. Len(g[e]) /\ y[k] = g[e][k - Len(x)]
          BY <2>2, <2>3, <3>1, <3>3
        <4>2. Len(t) + 1 \in 1 .. Len(a) /\ a[Len(t) + 1] = e
          BY <2>1
        <4> QED
          BY <4>1, <4>2
      <3> QED
        BY <3>2, <3>3
    <2> QED
      BY <2>2, <2>5 DEF a, y
  <1> HIDE DEF P
  <1>3. Seq(T) \subseteq P
    BY <1>1, <1>2, SequenceByToken
  <1> QED
    BY <1>3 DEF P

-----------------------------------------------------------------------------
(* The inductive invariant.                                                  *)

\* The parameters of the operation.
parameters == DOMAIN endpoint.parameters

\* The parameters that were applied or passed over so far.
visited == parameters \ todo

\* The endpoint and the arguments are those of a call of an operation.
CallFixed ==
    /\ operation \in Operations
    /\ endpoint = generatedConfig(operation, "host", generatedTool(operation, NoSchema, FALSE))
    /\ arguments \in Calls
    /\ todo \subseteq parameters

\* The verdict so far is that on the parameters visited so far.
VerdictSoFar ==
    /\ err # NoParam => err \in parameters /\ unacceptable(err)
    /\ err = NoParam => \A n \in visited : ~unacceptable(n)

\* What a query parameter contributes, element by element and in order.
valuesOf(n) ==
    IF arguments[n].kind = "array"
    THEN [i \in DOMAIN arguments[n].items |-> arguments[n].items[i].text]
    ELSE <<arguments[n].text>>

\* The query so far holds the values of the query parameters visited so far.
QuerySoFar ==
    /\ DOMAIN query \subseteq given("query") \ todo
    /\ err = NoParam =>
         \A n \in given("query") \ todo :
            IF valuesOf(n) = <<>> THEN n \notin DOMAIN query
            ELSE n \in DOMAIN query /\ query[n] = valuesOf(n)

\* So do the headers, over the one that every request has.
HeadersSoFar ==
    /\ "accept" \in DOMAIN extraHeaders
    /\ "accept" \notin given("header") => extraHeaders["accept"] = <<"*/*">>
    /\ err = NoParam =>
         \A n \in given("header") \ todo :
            n \in DOMAIN extraHeaders /\ extraHeaders[n] = arguments[n].text

\* The tokens of the texts of one call's arguments.
textTokens(args) == UNION {{args[n].text[i] : i \in DOMAIN args[n].text} : n \in DOMAIN args}

\* The tokens of the paths of operations and of the texts of arguments.
Tokens ==
    (UNION {{op.path[i] : i \in DOMAIN op.path} : op \in Operations})
    \cup (UNION {textTokens(args) : args \in Calls})

\* The parameters of D that own the placeholder y.
owners(D, y) == {m \in D : y = Placeholder(m)}

\* What the arguments of the path parameters in D make of each token.
applied(D) ==
    [y \in Tokens |-> IF owners(D, y) = {} THEN <<y>>
                      ELSE arguments[CHOOSE m \in owners(D, y) : TRUE].text]

\* A token of the path so far came with a value, or is one of the template that
\* no parameter visited so far replaces.
TokenSoFar(y) ==
    \/ \E n \in given("path") : Contains(arguments[n].text, y)
    \/ /\ \E i \in DOMAIN endpoint.path : y = endpoint.path[i]
       /\ \A n \in given("path") \ todo : y # Placeholder(n)

\* The path so far is the template with the arguments visited so far in it; if no
\* value has a placeholder, exactly as if they had been put in at once.
PathSoFar ==
    /\ path \in Seq(Tokens)
    /\ err = NoParam => \A k \in DOMAIN path : TokenSoFar(path[k])
    /\ err = NoParam /\ plainValues =>
         path = Spread(applied(given("path") \ todo), endpoint.path)

\* The inductive invariant.
EInv == CallFixed /\ VerdictSoFar /\ QuerySoFar /\ HeadersSoFar /\ PathSoFar

\* Templates are made of tokens.
LEMMA TemplateOfTokens ==
    ASSUME CallFixed
    PROVE  endpoint.path \in Seq(Tokens)
  <1> DEFINE S == {operation.path[i] : i \in DOMAIN operation.path}
  <1>1. endpoint.path = operation.path /\ operation \in Operations
    BY DEF CallFixed, generatedConfig
  <1>2. operation.path \in Seq(S)
    BY <1>1, RequestAssumption
  <1>3. S \subseteq Tokens
    BY <1>1 DEF Tokens
  <1> QED
    BY <1>1, <1>2, <1>3, SeqMonotonic

\* So are the texts of arguments.
LEMMA TextOfTokens ==
    ASSUME CallFixed, NEW n \in DOMAIN arguments
    PROVE  arguments[n].text \in Seq(Tokens)
  <1> DEFINE S == {arguments[n].text[i] : i \in DOMAIN arguments[n].text}
  <1>1. arguments \in Calls
    BY DEF CallFixed
  <1>2. arguments[n].text \in Seq(S)
    BY <1>1, RequestAssumption
  <1>3. ASSUME NEW i \in DOMAIN arguments[n].text PROVE arguments[n].text[i] \in Tokens
    <2>1. arguments[n].text[i] \in textTokens(arguments)
      BY DEF textTokens
    <2> QED
      BY <1>1, <2>1 DEF Tokens
  <1>4. S \subseteq Tokens
    BY <1>3
  <1> QED
    BY <1>2, <1>4, SeqMonotonic

\* strings.ReplaceAll as a replacement of tokens.
replacing(n, text) == [y \in Tokens |-> IF y = Placeholder(n) THEN text ELSE <<y>>]

\* It is one, for a text made of tokens,
LEMMA ReplacingTyped ==
    ASSUME NEW n, NEW text \in Seq(Tokens)
    PROVE  replacing(n, text) \in Replacements(Tokens)
  BY DEF replacing, Replacements

\* and it is what replaceAll does.
LEMMA ReplaceAllSpreads ==
    ASSUME NEW n, NEW text, NEW t \in Seq(Tokens)
    PROVE  replaceAll(t, n, text) = Spread(replacing(n, text), t)
  <1>1. \A i \in DOMAIN t : t[i] \in Tokens
    OBVIOUS
  <1>2. \A i \in DOMAIN t :
           replacing(n, text)[t[i]] = IF t[i] = Placeholder(n) THEN text ELSE <<t[i]>>
    BY <1>1 DEF replacing
  <1>3. [i \in DOMAIN t |-> IF t[i] = Placeholder(n) THEN text ELSE <<t[i]>>] =
          [i \in DOMAIN t |-> replacing(n, text)[t[i]]]
    BY <1>2
  <1> QED
    BY <1>3 DEF replaceAll, Spread

\* No two parameters own a placeholder.
LEMMA OnePlaceholder == \A m, n : Placeholder(m) = Placeholder(n) => m = n
  BY DEF Placeholder

\* What the arguments of D make of a token.
LEMMA AppliedTokens ==
    ASSUME CallFixed, NEW D, D \subseteq DOMAIN arguments
    PROVE  /\ applied(D) \in Replacements(Tokens)
           /\ \A y \in Tokens, m \in D : y = Placeholder(m) => applied(D)[y] = arguments[m].text
           /\ \A y \in Tokens : (\A m \in D : y # Placeholder(m)) => applied(D)[y] = <<y>>
  <1>1. ASSUME NEW y \in Tokens, NEW m \in D, y = Placeholder(m)
        PROVE  applied(D)[y] = arguments[m].text
    <2>1. owners(D, y) = {m}
      BY <1>1, OnePlaceholder DEF owners
    <2>2. (CHOOSE k \in owners(D, y) : TRUE) = m
      BY <2>1
    <2> QED
      BY <2>1, <2>2 DEF applied
  <1>2. ASSUME NEW y \in Tokens, \A m \in D : y # Placeholder(m)
        PROVE  applied(D)[y] = <<y>>
    <2>1. owners(D, y) = {}
      BY <1>2 DEF owners
    <2> QED
      BY <2>1 DEF applied
  <1>3. applied(D) \in Replacements(Tokens)
    <2>1. ASSUME NEW y \in Tokens PROVE applied(D)[y] \in Seq(Tokens)
      <3>1. CASE \E m \in D : y = Placeholder(m)
        <4>1. PICK m \in D : y = Placeholder(m)
          BY <3>1
        <4>2. arguments[m].text \in Seq(Tokens)
          BY TextOfTokens
        <4> QED
          BY <1>1, <4>1, <4>2
      <3>2. CASE \A m \in D : y # Placeholder(m)
        BY <1>2, <3>2
      <3> QED
        BY <3>1, <3>2
    <2>2. applied(D) = [y \in Tokens |-> applied(D)[y]]
      BY DEF applied
    <2> QED
      BY <2>1, <2>2 DEF Replacements
  <1> QED
    BY <1>1, <1>2, <1>3

\* A path to which nothing was applied is the template.
LEMMA TemplateSoFar ==
    ASSUME CallFixed, path = endpoint.path, given("path") \ todo = {}
    PROVE  PathSoFar
  <1>1. path \in Seq(Tokens)
    BY TemplateOfTokens
  <1>2. \A k \in DOMAIN path : TokenSoFar(path[k])
    BY DEF TokenSoFar
  <1>3. /\ applied({}) \in Replacements(Tokens)
        /\ \A y \in Tokens : applied({})[y] = <<y>>
    BY AppliedTokens
  <1>4. Spread(applied({}), endpoint.path) = endpoint.path
    <2>1. \A i \in 1 .. Len(endpoint.path) : applied({})[endpoint.path[i]] = <<endpoint.path[i]>>
      BY <1>1, <1>3
    <2> QED
      BY <1>1, <1>3, <2>1, SpreadNothing
  <1> QED
    BY <1>1, <1>2, <1>4 DEF PathSoFar

\* Visiting a parameter that is not in the path leaves the path as it is.
LEMMA OtherPath ==
    ASSUME PathSoFar, NEW n, todo' = todo \ {n},
           UNCHANGED <<endpoint, operation, arguments, path>>,
           err' = NoParam => err = NoParam /\ n \notin given("path")
    PROVE  PathSoFar'
  <1>1. /\ given("path")' = given("path") /\ (plainValues' <=> plainValues)
        /\ \A D : applied(D)' = applied(D)
    BY DEF given, plainValues, placeholdersIn, applied, owners
  <1>2. err' = NoParam => given("path") \ todo' = given("path") \ todo
    OBVIOUS
  <1>3. ASSUME err' = NoParam PROVE \A y : TokenSoFar(y)' <=> TokenSoFar(y)
    BY <1>1, <1>2, <1>3 DEF TokenSoFar
  <1> QED
    BY <1>1, <1>2, <1>3 DEF PathSoFar

\* Putting in the argument of one parameter more.
LEMMA PathApplied ==
    ASSUME CallFixed, PathSoFar, err = NoParam,
           NEW n \in given("path"), n \in todo, todo' = todo \ {n},
           path' = replaceAll(path, n, arguments[n].text),
           UNCHANGED <<endpoint, operation, arguments, err>>
    PROVE  PathSoFar'
  <1> DEFINE text == arguments[n].text
             g == replacing(n, text)
             D == given("path") \ todo
             E == given("path") \ todo'
  <1>1. /\ given("path")' = given("path") /\ (plainValues' <=> plainValues)
        /\ \A F : applied(F)' = applied(F)
    BY DEF given, plainValues, placeholdersIn, applied, owners
  <1>2. E = D \cup {n} /\ n \notin D
    OBVIOUS
  <1>3. /\ n \in DOMAIN arguments /\ n \in DOMAIN endpoint.parameters
        /\ D \subseteq DOMAIN arguments /\ E \subseteq DOMAIN arguments
    BY DEF given
  <1>4. text \in Seq(Tokens) /\ path \in Seq(Tokens) /\ endpoint.path \in Seq(Tokens)
    BY <1>3, TextOfTokens, TemplateOfTokens DEF PathSoFar
  <1> HIDE DEF text
  <1>5. g \in Replacements(Tokens)
    BY <1>4, ReplacingTyped
  <1>6. path' = Spread(g, path)
    BY <1>4, ReplaceAllSpreads DEF text
  <1>7. \A y \in Tokens : g[y] = IF y = Placeholder(n) THEN text ELSE <<y>>
    BY DEF replacing
  <1> HIDE DEF g
  <1>8. path' \in Seq(Tokens)
    BY <1>4, <1>5, <1>6, SpreadTyped
  <1>9. ASSUME NEW y, NEW k \in DOMAIN path', y = path'[k] PROVE TokenSoFar(y)'
    <2>1. k \in 1 .. Len(Spread(g, path))
      BY <1>6, <1>8
    <2>2. PICK i \in 1 .. Len(path) : \E j \in 1 .. Len(g[path[i]]) : path'[k] = g[path[i]][j]
      BY <1>4, <1>5, <1>6, <2>1, SpreadTokens
    <2>3. PICK j \in 1 .. Len(g[path[i]]) : path'[k] = g[path[i]][j]
      BY <2>2
    <2>4. path[i] \in Tokens /\ i \in DOMAIN path
      BY <1>4
    <2>5. CASE path[i] = Placeholder(n)
      <3>1. g[path[i]] = text
        BY <1>7, <2>4, <2>5
      <3>2. Contains(arguments[n].text, path'[k])
        BY <2>3, <3>1 DEF Contains, text
      <3>3. \E m \in given("path")' : Contains(arguments'[m].text, y)
        BY <1>1, <1>9, <3>2
      <3> QED
        BY <3>3 DEF TokenSoFar
    <2>6. CASE path[i] # Placeholder(n)
      <3>1. g[path[i]] = <<path[i]>>
        BY <1>7, <2>4, <2>6
      <3>2. j \in 1 .. Len(<<path[i]>>) /\ path'[k] = <<path[i]>>[j]
        BY <2>3, <3>1
      <3>3. path'[k] = path[i]
        BY <3>2
      <3>4. TokenSoFar(path[i])
        BY <2>4 DEF PathSoFar
      <3>5. TokenSoFar(y) /\ y # Placeholder(n)
        BY <1>9, <2>6, <3>3, <3>4
      <3>6. \A m \in E : (\A l \in D : y # Placeholder(l)) => y # Placeholder(m)
        BY <1>2, <3>5
      <3> HIDE DEF D
      <3> QED
        BY <1>1, <3>5, <3>6 DEF TokenSoFar, D
    <2> QED
      BY <2>5, <2>6
  <1>10. ASSUME plainValues PROVE path' = Spread(applied(E), endpoint.path)
    <2>1. ASSUME NEW y \in Tokens PROVE applied(E)[y] = Spread(g, applied(D)[y])
      <3>1. CASE \E m \in D : y = Placeholder(m)
        <4>1. PICK m \in D : y = Placeholder(m)
          BY <3>1
        <4> DEFINE u == arguments[m].text
        <4>2. applied(D)[y] = u /\ applied(E)[y] = u
          BY <1>2, <1>3, <4>1, AppliedTokens
        <4>3. u \in Seq(Tokens)
          BY <1>3, TextOfTokens
        <4>4. ~Contains(u, Placeholder(n))
          BY <1>3, <1>10 DEF plainValues, placeholdersIn
        <4> HIDE DEF u
        <4>5. \A i \in 1 .. Len(u) : u[i] \in Tokens /\ u[i] # Placeholder(n)
          BY <4>3, <4>4 DEF Contains
        <4>6. \A i \in 1 .. Len(u) : g[u[i]] = <<u[i]>>
          BY <1>7, <4>5
        <4>7. Spread(g, u) = u
          BY <1>5, <4>3, <4>6, SpreadNothing
        <4> QED
          BY <4>2, <4>7
      <3>2. CASE \A m \in D : y # Placeholder(m)
        <4>1. applied(D)[y] = <<y>>
          BY <1>3, <3>2, AppliedTokens
        <4>2. Spread(g, <<y>>) = g[y]
          BY <1>5, SpreadOne
        <4>3. applied(E)[y] = g[y]
          <5>1. CASE y = Placeholder(n)
            <6>1. applied(E)[y] = text
              BY <1>2, <1>3, <5>1, AppliedTokens DEF text
            <6> QED
              BY <1>7, <5>1, <6>1
          <5>2. CASE y # Placeholder(n)
            <6>1. \A m \in E : y # Placeholder(m)
              BY <1>2, <3>2, <5>2
            <6>2. applied(E)[y] = <<y>>
              BY <1>3, <6>1, AppliedTokens
            <6> QED
              BY <1>7, <5>2, <6>2
          <5> QED
            BY <5>1, <5>2
        <4> QED
          BY <4>1, <4>2, <4>3
      <3> QED
        BY <3>1, <3>2
    <2>2. applied(D) \in Replacements(Tokens) /\ applied(E) \in Replacements(Tokens)
      BY <1>3, AppliedTokens
    <2>3. path = Spread(applied(D), endpoint.path)
      BY <1>10 DEF PathSoFar
    <2> HIDE DEF D, E
    <2>4. Spread(g, Spread(applied(D), endpoint.path)) = Spread(applied(E), endpoint.path)
      BY <1>4, <1>5, <2>1, <2>2, SpreadTwice
    <2> QED
      BY <1>6, <2>3, <2>4
  <1> QED
    BY <1>1, <1>8, <1>9, <1>10 DEF PathSoFar

\* No parameter has the name that stands for none.
LEMMA ParametersNamed ==
    ASSUME CallFixed
    PROVE  NoParam \notin parameters
  <1>1. parameters = parameterNames(operation)
    BY DEF CallFixed, parameters, generatedConfig, endpointParams
  <1>2. operation \in Operations
    BY DEF CallFixed
  <1> QED
    BY <1>1, <1>2, RequestAssumption DEF parameterNames

\* An argument is refused where the verdict without order has it unacceptable.
LEMMA RefusedUnacceptable ==
    ASSUME CallFixed, NEW n \in parameters, n \in DOMAIN arguments
    PROVE  refused(endpoint.parameters[n].in, arguments[n]) <=> unacceptable(n)
  <1>1. /\ arguments[n].kind \in {"scalar", "array", "other"}
        /\ arguments[n].kind # "array" => arguments[n].items = <<>>
    BY RequestAssumption DEF CallFixed
  <1>2. DOMAIN <<>> = {}
    OBVIOUS
  <1>3. CASE endpoint.parameters[n].in \in {"path", "header"}
    BY <1>3 DEF refused, unacceptable, isScalar
  <1>4. CASE endpoint.parameters[n].in = "query"
    BY <1>1, <1>2, <1>4 DEF refused, unacceptable, isScalar
  <1>5. CASE endpoint.parameters[n].in \notin {"path", "header", "query"}
    BY <1>5 DEF refused, unacceptable
  <1> QED
    BY <1>3, <1>4, <1>5

\* A request that was just begun has visited nothing.
LEMMA InitEInv == RequestInit => EInv
  <1> SUFFICES ASSUME RequestInit PROVE EInv
    OBVIOUS
  <1>1. CallFixed /\ visited = {} /\ err = NoParam
    BY DEF RequestInit, CallFixed, visited, parameters
  <1>2. VerdictSoFar
    BY <1>1 DEF VerdictSoFar
  <1>3. todo = parameters /\ DOMAIN query = {}
    BY DEF RequestInit, parameters
  <1>4. QuerySoFar
    BY <1>3 DEF QuerySoFar, given, parameters
  <1>5. "accept" \in DOMAIN extraHeaders /\ extraHeaders["accept"] = <<"*/*">>
    BY DEF RequestInit, initialHeaders
  <1>6. HeadersSoFar
    BY <1>3, <1>5 DEF HeadersSoFar, given, parameters
  <1>7. PathSoFar
    BY <1>1, <1>3, TemplateSoFar DEF RequestInit, given, parameters
  <1> QED
    BY <1>1, <1>2, <1>4, <1>6, <1>7 DEF EInv

\* A parameter that is visited and leaves query and headers as they are, or is
\* refused.
LEMMA PassKeepsEInv ==
    ASSUME EInv, NEW n \in parameters, Visit(n),
           UNCHANGED <<endpoint, operation, arguments, path, query, extraHeaders, body>>,
           \/ err' = NoParam /\ ~unacceptable(n) /\ n \notin DOMAIN arguments
           \/ err' = n /\ unacceptable(n)
    PROVE  EInv'
  <1>1. todo' = todo \ {n} /\ err = NoParam
    BY DEF Visit
  <1>2. CallFixed'
    BY <1>1 DEF EInv, CallFixed, parameters
  <1>3. NoParam \notin parameters
    BY ParametersNamed DEF EInv
  <1>4. /\ parameters' = parameters
        /\ \A m : unacceptable(m)' <=> unacceptable(m)
        /\ \A in : given(in)' = given(in)
        /\ \A m : valuesOf(m)' = valuesOf(m)
    BY DEF parameters, unacceptable, given, valuesOf
  <1>5. n \notin DOMAIN arguments \/ err' # NoParam
    BY <1>3
  <1>6. VerdictSoFar'
    BY <1>1, <1>3, <1>4 DEF EInv, VerdictSoFar, visited
  <1>7. err' = NoParam => \A in : n \notin given(in)
    BY <1>5 DEF given
  <1>8. QuerySoFar'
    BY <1>1, <1>4, <1>7 DEF EInv, QuerySoFar
  <1>9. HeadersSoFar'
    BY <1>1, <1>4, <1>7 DEF EInv, HeadersSoFar
  <1>10. PathSoFar'
    BY <1>1, <1>7, OtherPath DEF EInv
  <1> QED
    BY <1>2, <1>6, <1>8, <1>9, <1>10 DEF EInv

\* An argument that is applied goes where its parameter is, whole.
LEMMA ApplyKeepsEInv ==
    ASSUME EInv, NEW n \in parameters, applyEndpointArgument(n)
    PROVE  EInv'
  <1> DEFINE in     == endpoint.parameters[n].in
             values == queryParamValues(arguments[n])
  <1>1. /\ n \in todo /\ todo' = todo \ {n} /\ err = NoParam
        /\ n \in DOMAIN arguments /\ ~refused(in, arguments[n])
        /\ UNCHANGED <<endpoint, operation, arguments, body, err>>
        /\ query' = IF in = "query" /\ values # <<>>
                    THEN [q \in DOMAIN query \cup {n} |-> IF q = n THEN values ELSE query[q]]
                    ELSE query
        /\ extraHeaders' = IF in = "header"
                           THEN [h \in DOMAIN extraHeaders \cup {n} |->
                                   IF h = n THEN arguments[n].text ELSE extraHeaders[h]]
                           ELSE extraHeaders
        /\ path' = IF in = "path" THEN replaceAll(path, n, arguments[n].text) ELSE path
    BY DEF applyEndpointArgument, Visit
  <1>2. CallFixed'
    BY <1>1 DEF EInv, CallFixed, parameters
  <1>3. ~unacceptable(n)
    BY <1>1, RefusedUnacceptable DEF EInv
  <1>4. /\ parameters' = parameters
        /\ \A m : unacceptable(m)' <=> unacceptable(m)
        /\ \A place : given(place)' = given(place)
        /\ \A m : valuesOf(m)' = valuesOf(m)
    BY <1>1 DEF parameters, unacceptable, given, valuesOf
  <1>5. VerdictSoFar'
    BY <1>1, <1>3, <1>4 DEF EInv, VerdictSoFar, visited
  <1>6. \A place : n \in given(place) <=> in = place
    BY <1>1 DEF given, parameters
  <1>7. values = valuesOf(n)
    BY DEF queryParamValues, valuesOf
  <1> HIDE DEF in, values
  <1>8. QuerySoFar'
    <2>1. CASE in = "query" /\ values # <<>>
      <3>1. /\ DOMAIN query' = DOMAIN query \cup {n}
            /\ query'[n] = values
            /\ \A q \in DOMAIN query : q # n => query'[q] = query[q]
        BY <1>1, <2>1
      <3>2. n \in given("query") /\ n \notin todo'
        BY <1>1, <1>6, <2>1
      <3> QED
        BY <1>1, <1>4, <1>7, <2>1, <3>1, <3>2 DEF EInv, QuerySoFar
    <2>2. CASE in = "query" /\ values = <<>>
      <3>1. query' = query
        BY <1>1, <2>2
      <3>2. n \notin DOMAIN query
        BY <1>1 DEF EInv, QuerySoFar
      <3> QED
        BY <1>1, <1>4, <1>7, <2>2, <3>1, <3>2 DEF EInv, QuerySoFar
    <2>3. CASE in # "query"
      <3>1. query' = query /\ n \notin given("query")
        BY <1>1, <1>6, <2>3
      <3> QED
        BY <1>1, <1>4, <3>1 DEF EInv, QuerySoFar
    <2> QED
      BY <2>1, <2>2, <2>3
  <1>9. HeadersSoFar'
    <2>1. CASE in = "header"
      <3>1. /\ DOMAIN extraHeaders' = DOMAIN extraHeaders \cup {n}
            /\ extraHeaders'[n] = arguments[n].text
            /\ \A h \in DOMAIN extraHeaders : h # n => extraHeaders'[h] = extraHeaders[h]
        BY <1>1, <2>1
      <3>2. n \in given("header")
        BY <1>6, <2>1
      <3> QED
        BY <1>1, <1>4, <3>1, <3>2 DEF EInv, HeadersSoFar
    <2>2. CASE in # "header"
      <3>1. extraHeaders' = extraHeaders /\ n \notin given("header")
        BY <1>1, <1>6, <2>2
      <3> QED
        BY <1>1, <1>4, <3>1 DEF EInv, HeadersSoFar
    <2> QED
      BY <2>1, <2>2
  <1>10. PathSoFar'
    <2>1. CASE in = "path"
      <3>1. path' = replaceAll(path, n, arguments[n].text) /\ n \in given("path")
        BY <1>1, <1>6, <2>1
      <3> QED
        BY <1>1, <3>1, PathApplied DEF EInv
    <2>2. CASE in # "path"
      <3>1. path' = path /\ n \notin given("path")
        BY <1>1, <1>6, <2>2
      <3> QED
        BY <1>1, <3>1, OtherPath DEF EInv
    <2> QED
      BY <2>1, <2>2
  <1> QED
    BY <1>2, <1>5, <1>8, <1>9, <1>10 DEF EInv

\* Every step keeps the invariant.
LEMMA NextEInv == EInv /\ [RequestNext]_requestVars => EInv'
  <1> SUFFICES ASSUME EInv, [RequestNext]_requestVars PROVE EInv'
    OBVIOUS
  <1>1. ASSUME NEW n \in todo, MissingArgument(n) PROVE EInv'
    <2>1. n \in parameters /\ Visit(n)
      BY <1>1 DEF EInv, CallFixed, MissingArgument
    <2>2. unacceptable(n) <=> endpoint.parameters[n].required
      BY <1>1 DEF MissingArgument, unacceptable
    <2> QED
      BY <1>1, <2>1, <2>2, PassKeepsEInv DEF MissingArgument, Visit
  <1>2. ASSUME NEW n \in todo, RefuseArgument(n) PROVE EInv'
    <2>1. n \in parameters /\ Visit(n)
      BY <1>2 DEF EInv, CallFixed, RefuseArgument
    <2>2. unacceptable(n)
      BY <1>2, <2>1, RefusedUnacceptable DEF EInv, RefuseArgument
    <2> QED
      BY <1>2, <2>1, <2>2, PassKeepsEInv DEF RefuseArgument
  <1>3. ASSUME NEW n \in todo, applyEndpointArgument(n) PROVE EInv'
    BY <1>3, ApplyKeepsEInv DEF EInv, CallFixed
  <1>4. ASSUME UNCHANGED <<endpoint, operation, arguments, todo, path, query, extraHeaders, err>>
        PROVE  EInv'
    <2>1. /\ parameters' = parameters
          /\ \A m : unacceptable(m)' <=> unacceptable(m)
          /\ \A in : given(in)' = given(in)
          /\ \A m : valuesOf(m)' = valuesOf(m)
      BY <1>4 DEF parameters, unacceptable, given, valuesOf
    <2>2. PathSoFar'
      <3>1. /\ plainValues' <=> plainValues
            /\ \A D : applied(D)' = applied(D)
            /\ \A y : TokenSoFar(y)' <=> TokenSoFar(y)
        BY <1>4, <2>1 DEF plainValues, placeholdersIn, applied, owners, TokenSoFar
      <3> QED
        BY <1>4, <2>1, <3>1 DEF EInv, PathSoFar
    <2> QED
      BY <1>4, <2>1, <2>2 DEF EInv, CallFixed, VerdictSoFar, QuerySoFar, HeadersSoFar, visited
  <1>5. CASE MarshalBody
    BY <1>4, <1>5 DEF MarshalBody
  <1>6. CASE UNCHANGED requestVars
    BY <1>4, <1>6 DEF requestVars
  <1> QED
    BY <1>1, <1>2, <1>3, <1>5, <1>6 DEF RequestNext

\* The invariant holds in every reachable state.
LEMMA RequestInvariance == RequestSpec => []EInv
  <1> QED
    BY InitEInv, NextEInv, PTL DEF RequestSpec

\* Of several parameters with one name the last counts: the set of their places
\* has a greatest element.
LEMMA LastPlace ==
    ASSUME NEW N \in Nat, NEW S \in SUBSET (1 .. N), S # {}
    PROVE  Max(S) \in S /\ \A j \in S : j <= Max(S)
  <1> DEFINE T == {N - j : j \in S}
  <1>1. T \subseteq Nat /\ T # {}
    <2>1. \A j \in S : j \in Int /\ 1 <= j /\ j <= N
      OBVIOUS
    <2>2. \A j \in S : N - j \in Nat
      BY <2>1
    <2> QED
      BY <2>2
  <1>2. PICK t \in T : \A u \in T : t <= u
    <2> HIDE DEF T
    <2> QED
      BY <1>1, LeastNumber
  <1>3. PICK k \in S : t = N - k
    BY <1>2
  <1>4. ASSUME NEW j \in S PROVE k >= j
    <2>1. N - j \in T /\ N - j \in Nat /\ t \in Nat
      BY <1>1, <1>2
    <2>2. t <= N - j
      BY <1>2, <2>1
    <2>3. j \in Int /\ k \in Int
      OBVIOUS
    <2> HIDE DEF T
    <2> QED
      BY <1>3, <2>1, <2>2, <2>3
  <1>5. Max(S) \in S /\ \A j \in S : Max(S) >= j
    BY <1>3, <1>4 DEF Max
  <1> QED
    BY <1>5

-----------------------------------------------------------------------------
(* The theorems.                                                             *)

\* A call is refused exactly when one of its arguments is unacceptable, whatever
\* the order in which newEndpointRequest ranges over the parameters.
THEOREM OneVerdict == RequestSpec => []VerdictFixed
  <1>1. EInv => VerdictFixed
    <2> SUFFICES ASSUME EInv, done
                 PROVE  /\ err # NoParam => unacceptable(err)
                        /\ err = NoParam => \A n \in DOMAIN endpoint.parameters : ~unacceptable(n)
      BY DEF VerdictFixed
    <2>1. err = NoParam => visited = DOMAIN endpoint.parameters
      BY DEF done, visited, parameters
    <2> QED
      BY <2>1 DEF EInv, VerdictSoFar
  <1> QED
    BY <1>1, RequestInvariance, PTL

\* Query and headers of a finished request are those of the arguments, complete
\* and in order, whatever the order of the parameters.
THEOREM CarriesArguments == RequestSpec => []QueryAndHeadersComplete
  <1>1. EInv => QueryAndHeadersComplete
    <2> SUFFICES ASSUME EInv, built PROVE QueryAndHeadersComplete
      BY DEF QueryAndHeadersComplete
    <2>1. err = NoParam /\ todo = {}
      BY DEF built
    <2> QED
      BY <2>1 DEF EInv, QuerySoFar, HeadersSoFar, QueryAndHeadersComplete, valuesOf
  <1> QED
    BY <1>1, RequestInvariance, PTL

\* A call without an argument that the input schema lists as required is refused,
\* except for the body and for a name that several parameters have.
THEOREM RequiredRefused == RequestSpec => []RequiredAsListed
  <1>1. ASSUME EInv PROVE RequiredAsListed
    <2> SUFFICES ASSUME built, NEW n \in requiredFields(operation) \ DOMAIN arguments, n # "body"
                 PROVE  \E i, j \in DOMAIN operation.parameters :
                           /\ i < j /\ operation.parameters[i].name = n
                           /\ operation.parameters[j].name = n
                           /\ ~operation.parameters[j].required
      BY DEF RequiredAsListed
    <2> DEFINE ps == operation.parameters
               S  == {j \in DOMAIN ps : ps[j].name = n}
    <2>1. Len(ps) \in Nat /\ DOMAIN ps = 1 .. Len(ps)
      BY <1>1, RequestAssumption DEF EInv, CallFixed
    <2>2. PICK i \in DOMAIN ps : ps[i].name = n /\ ps[i].required
      BY DEF requiredFields
    <2>3. Max(S) \in S /\ \A j \in S : j <= Max(S)
      BY <2>1, <2>2, LastPlace
    <2>4. n \in parameterNames(operation)
      BY <2>2 DEF parameterNames
    <2>5. endpoint.parameters = endpointParams(operation)
      BY <1>1 DEF EInv, CallFixed, generatedConfig
    <2>6. n \in parameters /\ endpoint.parameters[n].required = ps[Max(S)].required
      BY <2>4, <2>5 DEF parameters, endpointParams
    <2>7. ~unacceptable(n)
      BY <1>1, <2>6 DEF EInv, VerdictSoFar, built, visited, parameters
    <2>8. ~ps[Max(S)].required
      BY <2>6, <2>7 DEF unacceptable
    <2>9. i \in S /\ i # Max(S) /\ i <= Max(S)
      BY <2>2, <2>3, <2>8
    <2>10. i < Max(S)
      BY <2>1, <2>3, <2>9
    <2> QED
      BY <2>2, <2>3, <2>8, <2>10
  <1> QED
    BY <1>1, RequestInvariance, PTL

\* Where no value has a placeholder, newEndpointRequest makes of the template what
\* putting in all arguments at once makes of it, whatever the order of the
\* parameters.
THEOREM PathAsSubstituted == RequestSpec => []PathIsSubstitution
  <1>1. ASSUME EInv, built, plainValues PROVE path = simultaneous(endpoint.path)
    <2> DEFINE D == given("path")
               t == endpoint.path
    <2>1. D \ todo = D
      BY <1>1 DEF built
    <2>2. path = Spread(applied(D), t)
      BY <1>1, <2>1 DEF EInv, PathSoFar, built
    <2>3. t \in Seq(Tokens)
      BY <1>1, TemplateOfTokens DEF EInv
    <2> HIDE DEF D, t
    <2>4. \A i \in DOMAIN t : t[i] \in Tokens
      BY <2>3
    <2>5. \A i \in DOMAIN t : applied(D)[t[i]] =
             IF owners(D, t[i]) = {} THEN <<t[i]>>
             ELSE arguments[CHOOSE m \in owners(D, t[i]) : TRUE].text
      BY <2>4 DEF applied
    <2>6. [i \in DOMAIN t |-> applied(D)[t[i]]] =
            [i \in DOMAIN t |-> IF owners(D, t[i]) = {} THEN <<t[i]>>
                                ELSE arguments[CHOOSE m \in owners(D, t[i]) : TRUE].text]
      BY <2>5
    <2>7. simultaneous(t) = Spread(applied(D), t)
      BY <2>6 DEF simultaneous, Spread, owners, D
    <2> QED
      BY <2>2, <2>7 DEF t
  <1>2. EInv => PathIsSubstitution
    BY <1>1 DEF PathIsSubstitution
  <1> QED
    BY <1>2, RequestInvariance, PTL

\* A placeholder that a well-declared operation has in its path never reaches the
\* API: newEndpointRequest replaces it or refuses the call.
THEOREM TemplateIsFilled == RequestSpec => []NoPlaceholderLeft
  <1>1. ASSUME EInv, built, wellDeclared, NEW k \in DOMAIN path, path[k][1] = "placeholder"
        PROVE  \E n \in given("path") : Contains(arguments[n].text, path[k])
    <2> SUFFICES ASSUME ~\E n \in given("path") : Contains(arguments[n].text, path[k])
                 PROVE  FALSE
      OBVIOUS
    <2> DEFINE ps == operation.parameters
    <2>1. err = NoParam /\ todo = {}
      BY <1>1 DEF built
    <2>2. TokenSoFar(path[k])
      BY <1>1, <2>1 DEF EInv, PathSoFar
    <2>3. PICK i \in DOMAIN endpoint.path : path[k] = endpoint.path[i]
      BY <2>2 DEF TokenSoFar
    <2>4. \A n \in given("path") : path[k] # Placeholder(n)
      BY <2>1, <2>2 DEF TokenSoFar
    <2>5. /\ operation \in Operations /\ endpoint.path = operation.path
          /\ endpoint.parameters = endpointParams(operation)
      BY <1>1 DEF EInv, CallFixed, generatedConfig
    <2> DEFINE name == operation.path[i][2]
    <2>6. path[k] = Placeholder(name)
      <3>1. operation.path[i] = <<operation.path[i][1], operation.path[i][2]>>
        BY <2>3, <2>5, RequestAssumption
      <3>2. path[k] = operation.path[i]
        BY <2>3, <2>5
      <3> QED
        BY <1>1, <3>1, <3>2 DEF Placeholder
    <2>8. PICK j \in DOMAIN ps : ps[j].name = name /\ ps[j].in = "path" /\ ps[j].required
      BY <1>1, <2>3, <2>5 DEF wellDeclared
    <2> HIDE DEF name
    <2> DEFINE S == {l \in DOMAIN ps : ps[l].name = name}
    <2>9. S = {j}
      BY <1>1, <2>8 DEF wellDeclared
    <2>10. Max(S) = j
      <3>1. Len(ps) \in Nat /\ DOMAIN ps = 1 .. Len(ps)
        BY <2>5, RequestAssumption
      <3> QED
        BY <2>9, <3>1, LastPlace
    <2>11. name \in parameterNames(operation)
      BY <2>8 DEF parameterNames
    <2>12. /\ name \in parameters /\ endpoint.parameters[name].in = "path"
           /\ endpoint.parameters[name].required
      <3>1. endpointParams(operation)[name] = [in |-> ps[j].in, required |-> ps[j].required]
        BY <2>10, <2>11 DEF endpointParams
      <3>2. name \in DOMAIN endpointParams(operation)
        BY <2>11 DEF endpointParams
      <3> QED
        BY <2>5, <2>8, <3>1, <3>2 DEF parameters
    <2>13. ~unacceptable(name)
      BY <1>1, <2>1, <2>12 DEF EInv, VerdictSoFar, visited
    <2>14. name \in given("path")
      BY <2>12, <2>13 DEF unacceptable, given, parameters
    <2> QED
      BY <2>4, <2>6, <2>14
  <1>2. EInv => NoPlaceholderLeft
    BY <1>1 DEF NoPlaceholderLeft
  <1> QED
    BY <1>2, RequestInvariance, PTL
=============================================================================
