-------------------------- MODULE LikePatternProofs --------------------------
(***************************************************************************)
(* The search finds exactly the texts with the term in them.               *)
(***************************************************************************)
EXTENDS LikePattern, FiniteSetTheorems, SequenceTheorems, TLAPS

\* Induction over the natural numbers, for a set: counting one further is an
\* injection of the part of S below a gap into itself, so it reaches 0.
LEMMA SetInduction ==
  ASSUME NEW S, 0 \in S, \A n \in Nat : n \in S => n + 1 \in S
  PROVE  \A n \in Nat : n \in S
<1>1. SUFFICES ASSUME NEW n \in Nat, n \notin S PROVE FALSE
  OBVIOUS
<1> DEFINE A == {k \in 0 .. n : k \in S}
           f == [k \in A |-> k + 1]
<1>2. IsFiniteSet(A)
  <2>1. IsFiniteSet(0 .. n) /\ A \in SUBSET (0 .. n)
    BY FS_Interval
  <2> QED BY <2>1, FS_Subset
<1>3. f \in [A -> A]
  <2>1. ASSUME NEW k \in A PROVE k + 1 \in A
    BY <1>1
  <2> QED BY <2>1
<1>4. f \in Injection(A, A)
  BY <1>3 DEF Injection, IsInjective
<1>5. f \in Surjection(A, A)
  BY <1>2, <1>4, FS_Injection
<1>6. PICK k \in A : f[k] = 0
  <2>1. 0 \in A
    OBVIOUS
  <2> HIDE DEF A, f
  <2> QED BY <1>5, <2>1 DEF Surjection
<1>7. k \in Nat /\ k + 1 = 0
  BY <1>6
<1> QED BY <1>7

-----------------------------------------------------------------------------
(* Concatenation *)

\* The partial concatenations that FlattenSeq takes the last of.
LEMMA FlattenIs ==
  ASSUME NEW b, NEW L \in Nat, L > 0, Len(b) = L
  PROVE  \E g : /\ g = [i \in 1 .. L |-> IF i = 1 THEN b[i] ELSE g[i - 1] \o b[i]]
                /\ FlattenSeq(b) = g[L]
<1> DEFINE Step(g, i) == IF i = 1 THEN b[i] ELSE g[i - 1] \o b[i]
           Cat(g, n) == g = [i \in 1 .. n |-> Step(g, i)]
           S == {n \in Nat : \E g : Cat(g, n)}
<1>1. 0 \in S
  <2> DEFINE g == [i \in 1 .. 0 |-> b[i]]
  <2>1. Cat(g, 0)
    OBVIOUS
  <2> QED BY <2>1
<1>2. ASSUME NEW n \in Nat, n \in S
      PROVE  n + 1 \in S
  <2>1. PICK g : Cat(g, n)
    BY <1>2
  <2>2. \A i \in 1 .. n : g[i] = Step(g, i)
    <3> HIDE DEF Step
    <3> QED BY <2>1
  <2> DEFINE h == [i \in 1 .. n + 1 |-> Step(g, i)]
  <2>3. \A i \in 1 .. n : h[i] = g[i]
    <3> HIDE DEF Step
    <3> QED BY <2>2
  <2>4. \A i \in 1 .. n + 1 : i # 1 => i - 1 \in 1 .. n
    OBVIOUS
  <2>5. \A i \in 1 .. n + 1 : Step(h, i) = Step(g, i)
    <3> HIDE DEF h
    <3> QED BY <2>3, <2>4
  <2>6. Cat(h, n + 1)
    <3> HIDE DEF Step
    <3> QED BY <2>5
  <2>7. \E f : Cat(f, n + 1)
    <3> HIDE DEF h, Cat
    <3> QED BY <2>6
  <2> HIDE DEF Cat
  <2> QED BY <2>7
<1>3. L \in S
  <2> HIDE DEF S
  <2> QED BY <1>1, <1>2, SetInduction
<1>4. PICK g : Cat(g, L)
  BY <1>3
<1> DEFINE f == CHOOSE f : f = [i \in 1 .. L |-> IF i = 1 THEN b[i] ELSE f[i - 1] \o b[i]]
<1>5. Cat(f, L)
  BY <1>4
<1>6. FlattenSeq(b) = f[L]
  BY DEF FlattenSeq
<1> HIDE DEF f
<1> QED BY <1>5, <1>6

\* In F the first n of the sequences b lie one after the other, from w[1] to w[n].
Laid(F, b, w, n) ==
  /\ w \in [1 .. n + 1 -> Nat] /\ w[1] = 1 /\ w[n + 1] = Len(F) + 1
  /\ \A j \in 1 .. n + 1 : 1 <= w[j] /\ w[j] <= Len(F) + 1
  /\ \A j \in 1 .. n :
       /\ w[j + 1] = w[j] + Len(b[j])
       /\ \A k \in 1 .. Len(b[j]) : F[w[j] + (k - 1)] = b[j][k]

\* One more of them can be appended.
LEMMA LaidNext ==
  ASSUME NEW C, NEW b, NEW n \in Nat, \A j \in 1 .. n + 1 : b[j] \in Seq(C),
         NEW F \in Seq(C), NEW w, Laid(F, b, w, n)
  PROVE  F \o b[n + 1] \in Seq(C) /\ \E v : Laid(F \o b[n + 1], b, v, n + 1)
<1> DEFINE e == b[n + 1]
           G == F \o e
           v == [j \in 1 .. n + 2 |-> IF j <= n + 1 THEN w[j] ELSE Len(F) + Len(e) + 1]
<1>1. /\ G \in Seq(C) /\ Len(G) = Len(F) + Len(e) /\ Len(F) \in Nat /\ Len(e) \in Nat
      /\ \A i \in 1 .. Len(F) : G[i] = F[i]
      /\ \A k \in 1 .. Len(e) : G[Len(F) + k] = e[k]
  <2> HIDE DEF e
  <2>1. e \in Seq(C)
    BY n + 1 \in 1 .. n + 1 DEF e
  <2>2. G \in Seq(C) /\ Len(G) = Len(F) + Len(e) /\ Len(F) \in Nat /\ Len(e) \in Nat
    BY <2>1
  <2>3. \A i \in 1 .. Len(F) + Len(e) : G[i] = IF i <= Len(F) THEN F[i] ELSE e[i - Len(F)]
    BY <2>1
  <2> HIDE DEF G
  <2>4. \A i \in 1 .. Len(F) : G[i] = F[i]
    BY <2>2, <2>3
  <2>5. ASSUME NEW k \in 1 .. Len(e)
        PROVE  G[Len(F) + k] = e[k]
    <3>1. Len(F) + k \in 1 .. Len(F) + Len(e) /\ ~ Len(F) + k <= Len(F)
          /\ Len(F) + k - Len(F) = k
      BY <2>2
    <3> QED BY <2>3, <3>1
  <2> QED BY <2>2, <2>4, <2>5
<1> HIDE DEF e, G
<1>2. /\ w \in [1 .. n + 1 -> Nat] /\ w[1] = 1 /\ w[n + 1] = Len(F) + 1
      /\ \A j \in 1 .. n + 1 : 1 <= w[j] /\ w[j] <= Len(F) + 1
      /\ \A j \in 1 .. n :
           /\ w[j + 1] = w[j] + Len(b[j])
           /\ \A k \in 1 .. Len(b[j]) : F[w[j] + (k - 1)] = b[j][k]
  BY DEF Laid
<1>3. /\ v \in [1 .. n + 2 -> Nat] /\ v[1] = 1 /\ v[n + 2] = Len(G) + 1
      /\ \A j \in 1 .. n + 1 : v[j] = w[j]
      /\ \A j \in 1 .. n + 2 : 1 <= v[j] /\ v[j] <= Len(G) + 1
  BY <1>1, <1>2
<1> HIDE DEF v
<1>4. ASSUME NEW j \in 1 .. n
      PROVE  /\ v[j + 1] = v[j] + Len(b[j])
             /\ \A k \in 1 .. Len(b[j]) : G[v[j] + (k - 1)] = b[j][k]
  <2>1. v[j] = w[j] /\ v[j + 1] = w[j + 1] /\ w[j] \in Nat /\ w[j + 1] \in Nat
        /\ 1 <= w[j] /\ w[j + 1] <= Len(F) + 1
    BY <1>2, <1>3
  <2>2. w[j + 1] = w[j] + Len(b[j]) /\ \A k \in 1 .. Len(b[j]) : F[w[j] + (k - 1)] = b[j][k]
    BY <1>2
  <2>3. ASSUME NEW k \in 1 .. Len(b[j])
        PROVE  G[v[j] + (k - 1)] = b[j][k]
    <3>1. w[j] + (k - 1) \in 1 .. Len(F)
      <4>1. Len(b[j]) \in Nat
        BY j \in 1 .. n + 1
      <4>2. w[j] + Len(b[j]) <= Len(F) + 1
        BY <2>1, <2>2
      <4> DEFINE x == w[j]
                 l == Len(b[j])
      <4>3. x \in Nat /\ 1 <= x /\ l \in Nat /\ k \in 1 .. l /\ x + l <= Len(F) + 1
            /\ Len(F) \in Nat
        BY <1>1, <2>1, <4>1, <4>2
      <4> HIDE DEF x, l
      <4>4. x + (k - 1) \in 1 .. Len(F)
        BY <4>3
      <4> QED BY <4>4 DEF x
    <3> QED BY <1>1, <2>1, <2>2, <3>1
  <2> QED BY <2>1, <2>2, <2>3
<1>5. v[n + 1 + 1] = v[n + 1] + Len(e) /\ \A k \in 1 .. Len(e) : G[v[n + 1] + (k - 1)] = e[k]
  <2>1. v[n + 1] = Len(F) + 1 /\ n + 1 + 1 = n + 2
    BY <1>2, <1>3
  <2>2. \A k \in 1 .. Len(e) : Len(F) + 1 + (k - 1) = Len(F) + k
    BY <1>1
  <2> QED BY <1>1, <1>3, <2>1, <2>2
<1>6. Laid(G, b, v, n + 1)
  <2>1. \A j \in 1 .. n + 1 : j \in 1 .. n \/ j = n + 1
    OBVIOUS
  <2>2. n + 1 + 1 = n + 2
    OBVIOUS
  <2> QED BY <1>3, <1>4, <1>5, <2>1, <2>2 DEF Laid, e
<1> QED BY <1>1, <1>6 DEF e, G

\* FlattenSeq lays them all.
LEMMA FlattenLays ==
  ASSUME NEW C, NEW L \in Nat, NEW b \in [1 .. L -> Seq(C)]
  PROVE  FlattenSeq(b) \in Seq(C) /\ \E w : Laid(FlattenSeq(b), b, w, L)
<1>1. Len(b) = L /\ <<>> \in Seq(C) /\ Len(<<>>) = 0
  OBVIOUS
<1>2. \E w : Laid(<<>>, b, w, 0)
  <2> DEFINE w == [j \in 1 .. 1 |-> 1]
  <2>1. Laid(<<>>, b, w, 0)
    BY <1>1 DEF Laid
  <2> QED BY <2>1
<1>3. CASE L = 0
  <2>1. b = <<>> /\ FlattenSeq(b) = b
    BY <1>1, <1>3 DEF FlattenSeq
  <2> QED BY <1>1, <1>2, <1>3, <2>1
<1>4. CASE L > 0
  <2>1. PICK g : /\ g = [i \in 1 .. L |-> IF i = 1 THEN b[i] ELSE g[i - 1] \o b[i]]
                 /\ FlattenSeq(b) = g[L]
    BY <1>1, <1>4, FlattenIs
  <2> DEFINE Join(x, y) == x \o y
             Step(i) == IF i = 1 THEN b[i] ELSE Join(g[i - 1], b[i])
  <2>2. \A i \in 1 .. L : g[i] = Step(i)
    <3>1. g = [i \in 1 .. L |-> Step(i)]
      BY <2>1
    <3> HIDE DEF Step
    <3> QED BY <3>1
  <2> DEFINE G(n) == IF n = 0 THEN <<>> ELSE g[n]
             S == {n \in Nat : n > L \/ (G(n) \in Seq(C) /\ \E w : Laid(G(n), b, w, n))}
  <2>3. 0 \in S
    BY <1>1, <1>2
  <2>4. ASSUME NEW n \in Nat, n \in S
        PROVE  n + 1 \in S
    <3>1. CASE n + 1 > L
      BY <3>1
    <3>2. CASE n + 1 <= L
      <4>1. n + 1 \in 1 .. L /\ \A j \in 1 .. n + 1 : b[j] \in Seq(C)
        BY <3>2
      <4>2. G(n) \in Seq(C) /\ \E w : Laid(G(n), b, w, n)
        BY <2>4, <3>2
      <4>3. G(n + 1) = G(n) \o b[n + 1]
        <5>1. CASE n = 0
          BY <2>2, <4>1, <5>1, ConcatEmptySeq
        <5>2. CASE n # 0
          <6>1. n + 1 - 1 = n /\ n + 1 # 1 /\ n + 1 # 0
            BY <5>2
          <6>2. g[n + 1] = Step(n + 1)
            BY <2>2, <4>1
          <6>3. Step(n + 1) = g[n] \o b[n + 1]
            <7>1. Step(n + 1) = Join(g[n], b[n + 1])
              <8> HIDE DEF Join
              <8> QED BY <6>1
            <7> QED BY <7>1
          <6>4. G(n + 1) = g[n + 1] /\ G(n) = g[n]
            BY <5>2, <6>1
          <6> QED BY <6>2, <6>3, <6>4
        <5> QED BY <5>1, <5>2
      <4> HIDE DEF G
      <4>4. G(n + 1) \in Seq(C) /\ \E w : Laid(G(n + 1), b, w, n + 1)
        BY <4>1, <4>2, <4>3, LaidNext
      <4> QED BY <4>4
    <3> QED BY <3>1, <3>2
  <2>5. L \in S
    <3> HIDE DEF S
    <3> QED BY <2>3, <2>4, SetInduction
  <2>6. G(L) = FlattenSeq(b)
    BY <1>4, <2>1
  <2> HIDE DEF G
  <2> QED BY <2>5, <2>6
<1> QED BY <1>3, <1>4

-----------------------------------------------------------------------------
(* Escaping *)

\* The characters of the texts, as a set that the provers know to have these three.
Chars == STRING \cup {Backslash, Percent, Underscore}

\* They are three different ones.
LEMMA CharsHas ==
  /\ STRING \subseteq Chars
  /\ Backslash \in Chars /\ Percent \in Chars /\ Underscore \in Chars
  /\ Backslash # Percent /\ Backslash # Underscore /\ Percent # Underscore
<1>1. Backslash # Percent /\ Backslash # Underscore /\ Percent # Underscore
  BY Zenon DEF Backslash, Percent, Underscore
<1>2. /\ STRING \subseteq Chars
      /\ Backslash \in Chars /\ Percent \in Chars /\ Underscore \in Chars
  BY DEF Chars
<1> QED BY <1>1, <1>2

\* Where the characters of e come to be in F when c is escaped: the j-th at w[j].
Places(e, c, F, w) ==
  /\ w \in [1 .. Len(e) + 1 -> Nat] /\ w[1] = 1 /\ w[Len(e) + 1] = Len(F) + 1
  /\ \A j \in 1 .. Len(e) + 1 : 1 <= w[j] /\ w[j] <= Len(F) + 1
  /\ \A j \in 1 .. Len(e) :
       /\ e[j] = c => w[j + 1] = w[j] + 2 /\ F[w[j]] = Backslash /\ F[w[j] + 1] = c
       /\ e[j] # c => w[j + 1] = w[j] + 1 /\ F[w[j]] = e[j]

\* Escaping puts them there.
LEMMA EscapedIs ==
  ASSUME NEW e \in Seq(Chars), NEW c \in Chars
  PROVE  Escaped(e, c) \in Seq(Chars) /\ \E w : Places(e, c, Escaped(e, c), w)
<1> DEFINE L == Len(e)
           b == [i \in 1 .. L |-> IF e[i] = c THEN <<Backslash, c>> ELSE <<e[i]>>]
           F == FlattenSeq(b)
<1>1. L \in Nat /\ \A i \in 1 .. L : e[i] \in Chars
  OBVIOUS
<1>2. <<Backslash, c>> \in Seq(Chars) /\ \A i \in 1 .. L : <<e[i]>> \in Seq(Chars)
  <2>1. Backslash \in Chars
    BY CharsHas
  <2> HIDE DEF L
  <2> QED BY <1>1, <2>1
<1>3. b \in [1 .. L -> Seq(Chars)]
  BY <1>2
<1>4. \A j \in 1 .. L :
        /\ e[j] = c => Len(b[j]) = 2 /\ b[j][1] = Backslash /\ b[j][2] = c
        /\ e[j] # c => Len(b[j]) = 1 /\ b[j][1] = e[j]
  OBVIOUS
<1>5. Escaped(e, c) = F
  BY DEF Escaped
<1>6. \A j \in 1 .. L :
         /\ e[j] = c => 1 \in 1 .. Len(b[j]) /\ 2 \in 1 .. Len(b[j])
         /\ e[j] # c => 1 \in 1 .. Len(b[j])
  <2> HIDE DEF b, L
  <2> QED BY <1>4
<1> HIDE DEF b, L
<1>7. F \in Seq(Chars) /\ \E w : Laid(F, b, w, L)
  BY <1>1, <1>3, FlattenLays
<1> HIDE DEF F
<1>8. PICK w : Laid(F, b, w, L)
  BY <1>7
<1>9. /\ w \in [1 .. L + 1 -> Nat] /\ w[1] = 1 /\ w[L + 1] = Len(F) + 1
      /\ \A j \in 1 .. L + 1 : 1 <= w[j] /\ w[j] <= Len(F) + 1
      /\ \A j \in 1 .. L :
           /\ w[j + 1] = w[j] + Len(b[j])
           /\ \A k \in 1 .. Len(b[j]) : F[w[j] + (k - 1)] = b[j][k]
  BY <1>8 DEF Laid
<1>10. ASSUME NEW j \in 1 .. L
      PROVE  /\ e[j] = c => /\ w[j + 1] = w[j] + 2
                            /\ F[w[j]] = Backslash /\ F[w[j] + 1] = c
             /\ e[j] # c => w[j + 1] = w[j] + 1 /\ F[w[j]] = e[j]
  <2>1. w[j] \in Nat /\ w[j] + (1 - 1) = w[j] /\ w[j] + (2 - 1) = w[j] + 1
    BY <1>1, <1>9
  <2>2. w[j + 1] = w[j] + Len(b[j]) /\ \A k \in 1 .. Len(b[j]) : F[w[j] + (k - 1)] = b[j][k]
    BY <1>9
  <2>3. CASE e[j] = c
    <3>1. 1 \in 1 .. Len(b[j]) /\ 2 \in 1 .. Len(b[j]) /\ Len(b[j]) = 2
      BY <1>4, <1>6, <2>3
    <3>2. F[w[j] + (1 - 1)] = b[j][1] /\ F[w[j] + (2 - 1)] = b[j][2]
      BY <2>2, <3>1
    <3> QED BY <1>4, <2>1, <2>2, <2>3, <3>1, <3>2
  <2>4. CASE e[j] # c
    <3>1. 1 \in 1 .. Len(b[j]) /\ Len(b[j]) = 1
      BY <1>4, <1>6, <2>4
    <3>2. F[w[j] + (1 - 1)] = b[j][1]
      BY <2>2, <3>1
    <3> QED BY <1>4, <2>1, <2>2, <2>4, <3>1, <3>2
  <2> QED BY <2>3, <2>4
<1>11. Places(e, c, F, w)
  BY <1>9, <1>10 DEF Places, L
<1> QED BY <1>5, <1>7, <1>11

\* The text e stands for s, with a backslash before the characters in D: pos[k] is
\* where it does for the k-th.
Codes(e, s, D, pos) ==
  /\ pos \in [1 .. Len(s) + 1 -> Nat] /\ pos[1] = 1 /\ pos[Len(s) + 1] = Len(e) + 1
  /\ \A k \in 1 .. Len(s) + 1 : 1 <= pos[k] /\ pos[k] <= Len(e) + 1
  /\ \A k \in 1 .. Len(s) :
       /\ s[k] \in D => /\ pos[k + 1] = pos[k] + 2
                        /\ e[pos[k]] = Backslash /\ e[pos[k] + 1] = s[k]
       /\ s[k] \notin D => pos[k + 1] = pos[k] + 1 /\ e[pos[k]] = s[k]

\* Each replacement puts a backslash before one more character; the backslash
\* itself has to be the first.
LEMMA EscapedCodes ==
  ASSUME NEW s \in Seq(Chars), NEW e \in Seq(Chars), NEW D, NEW pos, Codes(e, s, D, pos),
         NEW c \in Chars, c \notin D, c = Backslash => D = {}
  PROVE  /\ Escaped(e, c) \in Seq(Chars)
         /\ \E v : Codes(Escaped(e, c), s, D \cup {c}, v)
<1> DEFINE F == Escaped(e, c)
           L == Len(s)
<1>1. /\ pos \in [1 .. L + 1 -> Nat] /\ pos[1] = 1 /\ pos[L + 1] = Len(e) + 1
      /\ \A k \in 1 .. L + 1 : 1 <= pos[k] /\ pos[k] <= Len(e) + 1
  BY DEF Codes
<1>2. \A k \in 1 .. L :
       /\ s[k] \in D => /\ pos[k + 1] = pos[k] + 2
                        /\ e[pos[k]] = Backslash /\ e[pos[k] + 1] = s[k]
       /\ s[k] \notin D => pos[k + 1] = pos[k] + 1 /\ e[pos[k]] = s[k]
  BY DEF Codes
<1>3. F \in Seq(Chars) /\ \E w : Places(e, c, F, w)
  BY EscapedIs
<1>4. Len(e) \in Nat /\ L \in Nat /\ Len(F) \in Nat
  <2> HIDE DEF F
  <2> QED BY <1>3
<1>5. PICK w : Places(e, c, F, w)
  BY <1>3
<1>6. /\ w \in [1 .. Len(e) + 1 -> Nat] /\ w[1] = 1 /\ w[Len(e) + 1] = Len(F) + 1
      /\ \A j \in 1 .. Len(e) + 1 : 1 <= w[j] /\ w[j] <= Len(F) + 1
  BY <1>5 DEF Places
<1>7. \A j \in 1 .. Len(e) :
         /\ e[j] = c => w[j + 1] = w[j] + 2 /\ F[w[j]] = Backslash /\ F[w[j] + 1] = c
         /\ e[j] # c => w[j + 1] = w[j] + 1 /\ F[w[j]] = e[j]
  BY <1>5 DEF Places
<1> DEFINE v == [k \in 1 .. L + 1 |-> w[pos[k]]]
<1> HIDE DEF F, L
<1>8. \A k \in 1 .. L + 1 : pos[k] \in 1 .. Len(e) + 1 /\ v[k] = w[pos[k]] /\ w[pos[k]] \in Nat
  BY <1>1, <1>4, <1>6
<1>9. /\ v \in [1 .. L + 1 -> Nat] /\ v[1] = 1 /\ v[L + 1] = Len(F) + 1
      /\ \A k \in 1 .. L + 1 : 1 <= v[k] /\ v[k] <= Len(F) + 1
  BY <1>1, <1>6, <1>4, <1>8
<1> HIDE DEF v
<1>10. ASSUME NEW k \in 1 .. L
      PROVE  /\ s[k] \in D \cup {c} => /\ v[k + 1] = v[k] + 2
                                       /\ F[v[k]] = Backslash /\ F[v[k] + 1] = s[k]
             /\ s[k] \notin D \cup {c} => v[k + 1] = v[k] + 1 /\ F[v[k]] = s[k]
  <2> DEFINE p == pos[k]
  <2>1. k \in 1 .. L + 1 /\ k + 1 \in 1 .. L + 1
    BY <1>4
  <2>2. p \in Nat /\ 1 <= p /\ v[k] = w[p] /\ v[k + 1] = w[pos[k + 1]] /\ w[p] \in Nat
        /\ pos[k + 1] <= Len(e) + 1
    BY <1>1, <1>8, <2>1
  <2>3. /\ s[k] \in D => pos[k + 1] = p + 2 /\ e[p] = Backslash /\ e[p + 1] = s[k]
        /\ s[k] \notin D => pos[k + 1] = p + 1 /\ e[p] = s[k]
    BY <1>2
  <2> HIDE DEF p
  <2>4. CASE s[k] \in D
    <3>1. e[p] # c /\ e[p + 1] # c
      BY <2>3, <2>4
    <3>2. p \in 1 .. Len(e) /\ p + 1 \in 1 .. Len(e)
      BY <1>4, <2>2, <2>3, <2>4
    <3>3. w[p + 1] = w[p] + 1 /\ F[w[p]] = e[p]
      BY <1>7, <3>1, <3>2
    <3>4. w[p + 1 + 1] = w[p + 1] + 1 /\ F[w[p + 1]] = e[p + 1]
      BY <1>7, <3>1, <3>2
    <3>5. p + 1 + 1 = p + 2 /\ w[p] + 1 + 1 = w[p] + 2
      BY <2>2
    <3> QED BY <2>2, <2>3, <2>4, <3>3, <3>4, <3>5
  <2>5. CASE s[k] \notin D /\ s[k] = c
    <3>1. p \in 1 .. Len(e)
      BY <1>4, <2>2, <2>3, <2>5
    <3>2. w[p + 1] = w[p] + 2 /\ F[w[p]] = Backslash /\ F[w[p] + 1] = c
      BY <1>7, <2>3, <2>5, <3>1
    <3> QED BY <2>2, <2>3, <2>5, <3>2
  <2>6. CASE s[k] \notin D /\ s[k] # c
    <3>1. p \in 1 .. Len(e)
      BY <1>4, <2>2, <2>3, <2>6
    <3>2. w[p + 1] = w[p] + 1 /\ F[w[p]] = e[p]
      BY <1>7, <2>3, <2>6, <3>1
    <3> QED BY <2>2, <2>3, <2>6, <3>2
  <2> QED BY <2>4, <2>5, <2>6
<1>11. Codes(F, s, D \cup {c}, v)
  BY <1>9, <1>10 DEF Codes, L
<1> QED BY <1>3, <1>11 DEF F

\* The three characters that mean something in a pattern are escaped.
LEMMA EscapeLikeCodes ==
  ASSUME NEW s \in Seq(Chars)
  PROVE  /\ EscapeLike(s) \in Seq(Chars)
         /\ \E pos : Codes(EscapeLike(s), s, {Backslash, Percent, Underscore}, pos)
<1>1. Codes(s, s, {}, [k \in 1 .. Len(s) + 1 |-> k])
  BY DEF Codes
<1>2. /\ Backslash \in Chars /\ Percent \in Chars /\ Underscore \in Chars
      /\ Backslash # Percent /\ Backslash # Underscore /\ Percent # Underscore
  BY CharsHas
<1> DEFINE a == Escaped(s, Backslash)
           b == Escaped(a, Percent)
           d == Escaped(b, Underscore)
<1>3. a \in Seq(Chars) /\ \E pos : Codes(a, s, {Backslash}, pos)
  <2>1. {} \cup {Backslash} = {Backslash}
    OBVIOUS
  <2> HIDE DEF a
  <2>2. a \in Seq(Chars) /\ \E pos : Codes(a, s, {} \cup {Backslash}, pos)
    BY <1>1, <1>2, EscapedCodes DEF a
  <2> QED BY <2>1, <2>2
<1> HIDE DEF a
<1>4. b \in Seq(Chars) /\ \E pos : Codes(b, s, {Backslash} \cup {Percent}, pos)
  BY <1>2, <1>3, EscapedCodes
<1> HIDE DEF b
<1>5. d \in Seq(Chars) /\ \E pos : Codes(d, s, {Backslash} \cup {Percent} \cup {Underscore}, pos)
  BY <1>2, <1>4, EscapedCodes
<1>6. {Backslash} \cup {Percent} \cup {Underscore} = {Backslash, Percent, Underscore}
  OBVIOUS
<1>7. EscapeLike(s) = d
  BY DEF EscapeLike, a, b
<1> HIDE DEF d
<1> QED BY <1>5, <1>6, <1>7

-----------------------------------------------------------------------------
(* Matching *)

\* One row of the table m that ILike computes: from which positions the text
\* matches the pattern from i on.
MatchRow(m, text, p, i) ==
  IF i > Len(p) THEN {Len(text) + 1}
  ELSE IF p[i] = Percent THEN {j \in 1 .. Len(text) + 1 : \E k \in m[i + 1] : j <= k}
  ELSE LET literal == p[i] = Backslash /\ i < Len(p)
           next    == IF literal THEN i + 2 ELSE i + 1
       IN {j \in 1 .. Len(text) :
             /\ \/ ~literal /\ p[i] = Underscore
                \/ Lower(text[j]) = Lower(p[next - 1])
             /\ j + 1 \in m[next]}

\* A row depends only on the rows below.
LEMMA MatchRowDepends ==
  ASSUME NEW p, Len(p) \in Nat, NEW text, NEW i \in Int,
         NEW m, NEW n, \A k \in i + 1 .. Len(p) + 1 : m[k] = n[k]
  PROVE  MatchRow(m, text, p, i) = MatchRow(n, text, p, i)
<1>1. CASE i > Len(p)
  BY <1>1 DEF MatchRow
<1>2. CASE i <= Len(p)
  <2>1. m[i + 1] = n[i + 1]
    BY <1>2
  <2>2. i < Len(p) => m[i + 2] = n[i + 2]
    BY <1>2
  <2> QED BY <1>2, <2>1, <2>2 DEF MatchRow
<1> QED BY <1>1, <1>2

\* ILike computes such a table.
LEMMA ILikeIs ==
  ASSUME NEW C, NEW p \in Seq(C), NEW text
  PROVE  \E m : /\ \A i \in 1 .. Len(p) + 1 : m[i] = MatchRow(m, text, p, i)
                /\ ILike(text, p) <=> 1 \in m[1]
<1> DEFINE L == Len(p)
           Row(m, i) == MatchRow(m, text, p, i)
           Tab(m, n) == m = [i \in L + 1 - n .. L + 1 |-> Row(m, i)]
           S == {n \in Nat : \E m : Tab(m, n)}
<1>1. L \in Nat
  OBVIOUS
<1> HIDE DEF L, Row
<1>2. 0 \in S
  <2> DEFINE m == [i \in L + 1 - 0 .. L + 1 |-> {Len(text) + 1}]
  <2>1. \A i \in L + 1 - 0 .. L + 1 : Row(m, i) = {Len(text) + 1}
    <3>1. SUFFICES ASSUME NEW i \in L + 1 - 0 .. L + 1
                   PROVE  Row(m, i) = {Len(text) + 1}
      OBVIOUS
    <3>2. i > L
      BY <1>1
    <3> HIDE DEF m
    <3> QED BY <3>2 DEF Row, MatchRow, L
  <2>2. Tab(m, 0)
    BY <2>1
  <2> HIDE DEF m, Tab
  <2> QED BY <2>2
<1>3. ASSUME NEW n \in Nat, n \in S
      PROVE  n + 1 \in S
  <2>1. PICK m : Tab(m, n)
    BY <1>3
  <2>2. \A i \in L + 1 - n .. L + 1 : m[i] = Row(m, i)
    BY <2>1
  <2> DEFINE h == [i \in L + 1 - (n + 1) .. L + 1 |-> Row(m, i)]
  <2>3. \A i \in L + 1 - (n + 1) + 1 .. L + 1 : h[i] = m[i]
    BY <1>1, <2>2
  <2> HIDE DEF h
  <2>4. \A i \in L + 1 - (n + 1) .. L + 1 : Row(h, i) = Row(m, i)
    <3>1. SUFFICES ASSUME NEW i \in L + 1 - (n + 1) .. L + 1
                   PROVE  MatchRow(h, text, p, i) = MatchRow(m, text, p, i)
      BY DEF Row
    <3>2. i \in Int /\ Len(p) \in Nat /\ \A k \in i + 1 .. Len(p) + 1 : h[k] = m[k]
      BY <1>1, <2>3 DEF L
    <3> QED BY <3>2, MatchRowDepends
  <2>5. Tab(h, n + 1)
    BY <2>4 DEF h
  <2> HIDE DEF Tab
  <2> QED BY <2>5
<1>4. L \in S
  <2> HIDE DEF S
  <2> QED BY <1>1, <1>2, <1>3, SetInduction
<1>5. \E m : m = [i \in 1 .. L + 1 |-> Row(m, i)]
  <2>1. PICK m : Tab(m, L)
    BY <1>4
  <2>2. L + 1 - L = 1
    BY <1>1
  <2> QED BY <2>1, <2>2
<1> DEFINE f == CHOOSE f : f = [i \in 1 .. L + 1 |-> Row(f, i)]
<1>6. f = [i \in 1 .. L + 1 |-> Row(f, i)]
  BY <1>5
<1>7. ILike(text, p) <=> 1 \in f[1]
  BY DEF ILike, Row, MatchRow, L
<1> HIDE DEF f
<1>8. \A i \in 1 .. L + 1 : f[i] = Row(f, i)
  BY <1>6
<1> QED BY <1>7, <1>8 DEF Row, L

\* From where on the text has the term from its k-th character on.
Rest(text, s, k) ==
  {j \in 1 .. Len(text) + 1 : \A i \in k .. Len(s) :
     j + (i - k) <= Len(text) /\ Lower(text[j + (i - k)]) = Lower(s[i])}

\* It has it there if it has that character there, and what follows one further.
LEMMA RestStep ==
  ASSUME NEW text, Len(text) \in Nat, NEW s, Len(s) \in Nat, NEW k \in 1 .. Len(s)
  PROVE  Rest(text, s, k)
           = {j \in 1 .. Len(text) : /\ Lower(text[j]) = Lower(s[k])
                                     /\ j + 1 \in Rest(text, s, k + 1)}
<1>1. ASSUME NEW j \in Rest(text, s, k)
      PROVE  j \in 1 .. Len(text) /\ Lower(text[j]) = Lower(s[k])
               /\ j + 1 \in Rest(text, s, k + 1)
  <2>1. j \in 1 .. Len(text) + 1 /\ \A i \in k .. Len(s) :
          j + (i - k) <= Len(text) /\ Lower(text[j + (i - k)]) = Lower(s[i])
    BY DEF Rest
  <2>2. k \in k .. Len(s) /\ j + (k - k) = j
    BY <2>1
  <2>3. j \in 1 .. Len(text) /\ Lower(text[j]) = Lower(s[k])
    BY <2>1, <2>2
  <2>4. ASSUME NEW i \in k + 1 .. Len(s)
        PROVE  /\ j + 1 + (i - (k + 1)) <= Len(text)
               /\ Lower(text[j + 1 + (i - (k + 1))]) = Lower(s[i])
    <3>1. i \in k .. Len(s) /\ j + 1 + (i - (k + 1)) = j + (i - k)
      BY <2>3
    <3> QED BY <2>1, <3>1
  <2> QED BY <2>3, <2>4 DEF Rest
<1>2. ASSUME NEW j \in 1 .. Len(text), Lower(text[j]) = Lower(s[k]),
             j + 1 \in Rest(text, s, k + 1)
      PROVE  j \in Rest(text, s, k)
  <2>1. \A i \in k + 1 .. Len(s) :
          /\ j + 1 + (i - (k + 1)) <= Len(text)
          /\ Lower(text[j + 1 + (i - (k + 1))]) = Lower(s[i])
    BY <1>2 DEF Rest
  <2>2. ASSUME NEW i \in k .. Len(s)
        PROVE  j + (i - k) <= Len(text) /\ Lower(text[j + (i - k)]) = Lower(s[i])
    <3>1. CASE i = k
      <4>1. j + (i - k) = j
        BY <3>1
      <4> QED BY <1>2, <3>1, <4>1
    <3>2. CASE i # k
      <4>1. i \in k + 1 .. Len(s) /\ j + 1 + (i - (k + 1)) = j + (i - k)
        BY <3>2
      <4> QED BY <2>1, <4>1
    <3> QED BY <3>1, <3>2
  <2> QED BY <2>2 DEF Rest
<1> QED BY <1>1, <1>2

\* A text has a term that it has from somewhere on.
LEMMA RestContains ==
  ASSUME NEW text, Len(text) \in Nat, NEW s, Len(s) \in Nat
  PROVE  ContainsTerm(text, s) <=> Rest(text, s, 1) # {}
<1>1. ASSUME ContainsTerm(text, s)
      PROVE  Rest(text, s, 1) # {}
  <2>1. PICK k \in 0 .. Len(text) - Len(s) :
          \A i \in 1 .. Len(s) : Lower(text[k + i]) = Lower(s[i])
    BY <1>1 DEF ContainsTerm
  <2>2. ASSUME NEW i \in 1 .. Len(s)
        PROVE  /\ k + 1 + (i - 1) <= Len(text)
               /\ Lower(text[k + 1 + (i - 1)]) = Lower(s[i])
    <3>1. k + 1 + (i - 1) = k + i /\ k + i <= Len(text)
      OBVIOUS
    <3> QED BY <2>1, <3>1
  <2>3. k + 1 \in Rest(text, s, 1)
    BY <2>2 DEF Rest
  <2> QED BY <2>3
<1>2. ASSUME NEW j \in Rest(text, s, 1)
      PROVE  ContainsTerm(text, s)
  <2>1. j \in 1 .. Len(text) + 1 /\ \A i \in 1 .. Len(s) :
          j + (i - 1) <= Len(text) /\ Lower(text[j + (i - 1)]) = Lower(s[i])
    BY DEF Rest
  <2>2. j - 1 \in 0 .. Len(text) - Len(s)
    <3>1. CASE Len(s) = 0
      BY <2>1, <3>1
    <3>2. CASE Len(s) > 0
      <4>1. Len(s) \in 1 .. Len(s)
        BY <3>2
      <4>2. j + (Len(s) - 1) <= Len(text)
        BY <2>1, <4>1
      <4> QED BY <2>1, <4>2
    <3> QED BY <3>1, <3>2
  <2>3. ASSUME NEW i \in 1 .. Len(s)
        PROVE  Lower(text[j - 1 + i]) = Lower(s[i])
    <3>1. j - 1 + i = j + (i - 1)
      BY <2>1
    <3> QED BY <2>1, <3>1
  <2> QED BY <2>2, <2>3 DEF ContainsTerm
<1> QED BY <1>1, <1>2

\* q is s, and then t.
Joins(q, s, t) ==
  /\ Len(q) = Len(s) + Len(t)
  /\ \A i \in 1 .. Len(s) : q[i] = s[i]
  /\ \A i \in 1 .. Len(t) : q[Len(s) + i] = t[i]

\* One sequence after another.
LEMMA AfterEach ==
  ASSUME NEW C, NEW s \in Seq(C), NEW t \in Seq(C)
  PROVE  s \o t \in Seq(C) /\ Joins(s \o t, s, t)
<1>1. /\ s \o t \in Seq(C) /\ Len(s \o t) = Len(s) + Len(t)
      /\ Len(s) \in Nat /\ Len(t) \in Nat
  OBVIOUS
<1>2. \A i \in 1 .. Len(s) + Len(t) : (s \o t)[i] = IF i <= Len(s) THEN s[i] ELSE t[i - Len(s)]
  OBVIOUS
<1> DEFINE q == s \o t
<1> HIDE DEF q
<1>3. \A i \in 1 .. Len(s) + Len(t) : q[i] = IF i <= Len(s) THEN s[i] ELSE t[i - Len(s)]
  BY <1>2 DEF q
<1>4. \A i \in 1 .. Len(s) : q[i] = s[i]
  BY <1>1, <1>3
<1>5. ASSUME NEW i \in 1 .. Len(t)
      PROVE  q[Len(s) + i] = t[i]
  <2>1. Len(s) + i \in 1 .. Len(s) + Len(t) /\ ~ Len(s) + i <= Len(s)
        /\ Len(s) + i - Len(s) = i
    BY <1>1
  <2> QED BY <1>3, <2>1
<1> QED BY <1>1, <1>4, <1>5 DEF q, Joins

\* What the pattern of a term looks like.
LEMMA PatternIs ==
  ASSUME NEW s \in Seq(Chars)
  PROVE  LET E == EscapeLike(s)
             p == Pattern(s)
         IN  /\ Len(E) \in Nat /\ p \in Seq(Chars) /\ Len(p) = Len(E) + 2
             /\ p[1] = Percent /\ p[Len(E) + 2] = Percent
             /\ \A j \in 1 .. Len(E) : p[j + 1] = E[j]
<1> DEFINE E == EscapeLike(s)
           P == <<Percent>>
           q == P \o E
           p == q \o P
<1>1. E \in Seq(Chars) /\ Len(E) \in Nat
  <2>1. E \in Seq(Chars)
    BY EscapeLikeCodes
  <2> HIDE DEF E
  <2> QED BY <2>1
<1>2. P \in Seq(Chars) /\ Len(P) = 1 /\ P[1] = Percent
  <2>1. Percent \in Chars
    BY CharsHas
  <2> QED BY <2>1
<1>3. Pattern(s) = p
  BY DEF Pattern
<1> HIDE DEF E, P
<1>4. q \in Seq(Chars) /\ Joins(q, P, E)
  BY <1>1, <1>2, AfterEach
<1> HIDE DEF q
<1>5. p \in Seq(Chars) /\ Joins(p, q, P)
  BY <1>2, <1>4, AfterEach
<1> HIDE DEF p
<1>6. Len(p) = Len(E) + 2 /\ p[1] = Percent /\ p[Len(E) + 2] = Percent
  <2>1. 1 \in 1 .. Len(q) /\ 1 \in 1 .. Len(P) /\ Len(q) + 1 = Len(E) + 2
    BY <1>1, <1>2, <1>4 DEF Joins
  <2> QED BY <1>1, <1>2, <1>4, <1>5, <2>1 DEF Joins
<1>7. ASSUME NEW j \in 1 .. Len(E)
      PROVE  p[j + 1] = E[j]
  <2>1. j + 1 \in 1 .. Len(q) /\ Len(P) + j = j + 1
    BY <1>1, <1>2, <1>4 DEF Joins
  <2> QED BY <1>4, <1>5, <2>1 DEF Joins
<1> QED BY <1>1, <1>3, <1>5, <1>6, <1>7 DEF E

\* The rows of the table, by what the pattern has at i: nothing more, a wildcard,
\* an escaped character.
LEMMA MatchRowIs ==
  ASSUME NEW m, NEW text, NEW p, Len(p) \in Nat, NEW i \in Nat
  PROVE  /\ i = Len(p) + 1 => MatchRow(m, text, p, i) = {Len(text) + 1}
         /\ i <= Len(p) /\ p[i] = Percent =>
              MatchRow(m, text, p, i)
                = {j \in 1 .. Len(text) + 1 : \E k \in m[i + 1] : j <= k}
         /\ i < Len(p) /\ p[i] = Backslash =>
              MatchRow(m, text, p, i)
                = {j \in 1 .. Len(text) : /\ Lower(text[j]) = Lower(p[i + 1])
                                          /\ j + 1 \in m[i + 2]}
<1>1. CASE i = Len(p) + 1
  <2>1. i > Len(p) /\ ~ i <= Len(p) /\ ~ i < Len(p)
    BY <1>1
  <2> QED BY <2>1 DEF MatchRow
<1>2. CASE i <= Len(p) /\ p[i] = Percent
  <2>1. Backslash # Percent /\ i # Len(p) + 1
    BY <1>2, CharsHas
  <2> QED BY <1>2, <2>1 DEF MatchRow
<1>3. CASE i < Len(p) /\ p[i] = Backslash
  <2>1. Backslash # Percent /\ i + 2 - 1 = i + 1 /\ ~ i > Len(p) /\ i # Len(p) + 1
    BY <1>3, CharsHas
  <2> DEFINE Fits(j) == Lower(text[j]) = Lower(p[i + 1])
  <2>2. MatchRow(m, text, p, i) = {j \in 1 .. Len(text) : Fits(j) /\ j + 1 \in m[i + 2]}
    BY <1>3, <2>1 DEF MatchRow
  <2> QED BY <1>3, <2>1, <2>2
<1> QED BY <1>1, <1>2, <1>3

\* The positions where c stands, followed by one of the positions of rest.
Standing(text, c, rest) ==
  {j \in 1 .. Len(text) : Lower(text[j]) = Lower(c) /\ j + 1 \in rest}

\* Any other character stands for itself.
LEMMA MatchRowPlain ==
  ASSUME NEW m, NEW text, NEW p, Len(p) \in Nat, NEW i \in Nat, i <= Len(p),
         p[i] # Backslash, p[i] # Percent, p[i] # Underscore
  PROVE  MatchRow(m, text, p, i) = Standing(text, p[i], m[i + 1])
<1>1. i + 1 - 1 = i /\ ~ i > Len(p)
  OBVIOUS
<1> QED BY <1>1 DEF MatchRow, Standing

\* A text is a sequence of these characters.
LEMMA TextChars ==
  ASSUME NEW A, NEW B, A \subseteq B, NEW s \in Seq(A)
  PROVE  s \in Seq(B) /\ Len(s) \in Nat
OBVIOUS

\* The search of list_public finds the texts that have the term in them, letter
\* case apart, and no others, whatever the text and the term.
THEOREM SearchIsExact ==
  ASSUME NEW text \in Seq(STRING), NEW term \in Seq(STRING)
  PROVE  ILike(text, Pattern(term)) <=> ContainsTerm(text, term)
<1> DEFINE E == EscapeLike(term)
           p == Pattern(term)
           L == Len(term)
           D == {Backslash, Percent, Underscore}
<1>1. term \in Seq(Chars) /\ L \in Nat /\ Len(text) \in Nat
  <2>1. STRING \subseteq Chars
    BY CharsHas
  <2> QED BY <2>1, TextChars
<1>2. /\ Len(E) \in Nat /\ p \in Seq(Chars) /\ Len(p) = Len(E) + 2
      /\ p[1] = Percent /\ p[Len(E) + 2] = Percent
      /\ \A j \in 1 .. Len(E) : p[j + 1] = E[j]
  BY <1>1, PatternIs
<1>3. PICK pos : Codes(E, term, D, pos)
  BY <1>1, EscapeLikeCodes
<1>4. PICK m : /\ \A i \in 1 .. Len(p) + 1 : m[i] = MatchRow(m, text, p, i)
               /\ ILike(text, p) <=> 1 \in m[1]
  BY <1>2, ILikeIs
<1> HIDE DEF E, p, D, L
<1>5. /\ pos \in [1 .. L + 1 -> Nat] /\ pos[1] = 1 /\ pos[L + 1] = Len(E) + 1
      /\ \A k \in 1 .. L + 1 : 1 <= pos[k] /\ pos[k] <= Len(E) + 1
      /\ \A k \in 1 .. L :
           /\ term[k] \in D => /\ pos[k + 1] = pos[k] + 2
                               /\ E[pos[k]] = Backslash /\ E[pos[k] + 1] = term[k]
           /\ term[k] \notin D => pos[k + 1] = pos[k] + 1 /\ E[pos[k]] = term[k]
  BY <1>3 DEF Codes, L
\* After the term: the last wildcard takes whatever is left.
<1>6. m[Len(E) + 2] = Rest(text, term, L + 1)
  <2>1. m[Len(E) + 3] = {Len(text) + 1}
    <3>1. Len(E) + 3 \in 1 .. Len(p) + 1 /\ Len(E) + 3 \in Nat /\ Len(E) + 3 = Len(p) + 1
      BY <1>2
    <3> QED BY <1>2, <1>4, <3>1, MatchRowIs
  <2>2. m[Len(E) + 2] = {j \in 1 .. Len(text) + 1 : \E k \in m[Len(E) + 2 + 1] : j <= k}
    <3> DEFINE i == Len(E) + 2
    <3>1. i \in 1 .. Len(p) + 1 /\ i \in Nat /\ i <= Len(p) /\ p[i] = Percent
          /\ Len(p) \in Nat
      BY <1>2
    <3> HIDE DEF i
    <3>2. m[i] = {j \in 1 .. Len(text) + 1 : \E k \in m[i + 1] : j <= k}
      BY <1>4, <3>1, MatchRowIs
    <3> QED BY <3>2 DEF i
  <2>3. m[Len(E) + 2] = 1 .. Len(text) + 1
    BY <1>1, <1>2, <2>1, <2>2
  <2>4. Rest(text, term, L + 1) = 1 .. Len(text) + 1
    BY <1>1 DEF Rest, L
  <2> QED BY <2>3, <2>4
\* Each character of the term, escaped or not, stands for itself.
<1>7. ASSUME NEW k \in 1 .. L
      PROVE  m[pos[k] + 1] = {j \in 1 .. Len(text) : /\ Lower(text[j]) = Lower(term[k])
                                                     /\ j + 1 \in m[pos[k + 1] + 1]}
  <2> DEFINE x == pos[k]
             y == pos[k + 1]
             i == x + 1
  <2>1. x \in Nat /\ 1 <= x /\ y \in Nat /\ y <= Len(E) + 1 /\ Len(p) \in Nat
    <3>1. k \in 1 .. L + 1 /\ k + 1 \in 1 .. L + 1
      BY <1>1
    <3>2. pos[k] \in Nat /\ pos[k + 1] \in Nat
      BY <1>5, <3>1
    <3>3. 1 <= pos[k] /\ pos[k + 1] <= Len(E) + 1
      BY <1>5, <3>1
    <3>4. Len(p) \in Nat
      BY <1>2
    <3> QED BY <3>2, <3>3, <3>4
  <2>2. /\ term[k] \in D => y = x + 2 /\ E[x] = Backslash /\ E[x + 1] = term[k]
        /\ term[k] \notin D => y = x + 1 /\ E[x] = term[k]
    BY <1>5
  <2> HIDE DEF x, y
  <2>3. CASE term[k] \in D
    <3>1. y = x + 2 /\ E[x] = Backslash /\ E[x + 1] = term[k]
      BY <2>2, <2>3
    <3>2. x \in 1 .. Len(E) /\ x + 1 \in 1 .. Len(E)
      BY <1>2, <2>1, <3>1
    <3>3. p[i] = Backslash /\ p[i + 1] = term[k]
      BY <1>2, <3>1, <3>2
    <3>4. i < Len(p) /\ i \in 1 .. Len(p) + 1 /\ i + 2 = y + 1 /\ i \in Nat
      BY <1>2, <2>1, <3>1, <3>2
    <3> HIDE DEF i
    <3>5. m[i] = {j \in 1 .. Len(text) : /\ Lower(text[j]) = Lower(term[k])
                                         /\ j + 1 \in m[i + 2]}
      BY <1>4, <2>1, <3>3, <3>4, MatchRowIs
    <3> QED BY <3>4, <3>5 DEF i, x, y
  <2>4. CASE term[k] \notin D
    <3>1. y = x + 1 /\ E[x] = term[k]
      BY <2>2, <2>4
    <3>2. x \in 1 .. Len(E)
      BY <1>2, <2>1, <3>1
    <3>3. p[i] = term[k] /\ p[i] # Backslash /\ p[i] # Percent /\ p[i] # Underscore
      BY <1>2, <2>4, <3>1, <3>2 DEF D
    <3>4. i <= Len(p) /\ i \in 1 .. Len(p) + 1 /\ i + 1 = y + 1 /\ i \in Nat
      BY <1>2, <2>1, <3>1, <3>2
    <3> HIDE DEF i
    <3>5. m[i] = {j \in 1 .. Len(text) : /\ Lower(text[j]) = Lower(term[k])
                                         /\ j + 1 \in m[i + 1]}
      <4>1. m[i] = MatchRow(m, text, p, i)
        BY <1>4, <3>4
      <4>2. MatchRow(m, text, p, i) = Standing(text, p[i], m[i + 1])
        BY <2>1, <3>3, <3>4, MatchRowPlain
      <4> QED BY <3>3, <4>1, <4>2 DEF Standing
    <3> QED BY <3>4, <3>5 DEF i, x, y
  <2> QED BY <2>3, <2>4
\* So the pattern from the k-th character on matches where the term does.
<1> DEFINE S == {n \in Nat : n > L \/ m[pos[L + 1 - n] + 1] = Rest(text, term, L + 1 - n)}
<1>8. 0 \in S
  <2>1. L + 1 - 0 = L + 1 /\ pos[L + 1] + 1 = Len(E) + 2
    BY <1>1, <1>2, <1>5
  <2> QED BY <1>6, <2>1
<1>9. ASSUME NEW n \in Nat, n \in S
      PROVE  n + 1 \in S
  <2>1. CASE n + 1 > L
    BY <2>1
  <2>2. CASE ~ n + 1 > L
    <3> DEFINE k == L - n
    <3>1. k \in 1 .. L /\ L + 1 - n = k + 1 /\ L + 1 - (n + 1) = k /\ ~ n > L
      BY <1>1, <2>2
    <3> HIDE DEF k
    <3>2. m[pos[k + 1] + 1] = Rest(text, term, k + 1)
      BY <1>9, <3>1
    <3>3. m[pos[k] + 1] = {j \in 1 .. Len(text) : /\ Lower(text[j]) = Lower(term[k])
                                                  /\ j + 1 \in Rest(text, term, k + 1)}
      BY <1>7, <3>1, <3>2
    <3>4. m[pos[k] + 1] = Rest(text, term, k)
      BY <1>1, <3>1, <3>3, RestStep DEF L
    <3> QED BY <3>1, <3>4
  <2> QED BY <2>1, <2>2
<1>10. m[2] = Rest(text, term, 1)
  <2>1. L \in S
    <3> HIDE DEF S
    <3> QED BY <1>1, <1>8, <1>9, SetInduction
  <2>2. L + 1 - L = 1 /\ pos[1] + 1 = 2 /\ ~ L > L
    BY <1>1, <1>5
  <2> QED BY <2>1, <2>2
\* The first wildcard tries every position.
<1>11. 1 \in m[1] <=> Rest(text, term, 1) # {}
  <2>1. m[1] = {j \in 1 .. Len(text) + 1 : \E k \in m[1 + 1] : j <= k}
    <3>1. 1 \in 1 .. Len(p) + 1 /\ 1 \in Nat /\ 1 <= Len(p)
      BY <1>2
    <3> QED BY <1>2, <1>4, <3>1, MatchRowIs
  <2>2. 1 + 1 = 2 /\ 1 \in 1 .. Len(text) + 1
    BY <1>1
  <2>3. \A k \in Rest(text, term, 1) : 1 <= k
    BY <1>1 DEF Rest
  <2> QED BY <1>10, <2>1, <2>2, <2>3
<1> QED BY <1>1, <1>4, <1>11, RestContains DEF p, L
=============================================================================
