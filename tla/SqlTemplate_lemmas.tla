------------------------- MODULE SqlTemplate_lemmas -------------------------
(***************************************************************************)
(* What Pick and FlattenSeq compute, for sequences of every length.  Both  *)
(* are recursive functions; a fact about every prefix is proved with       *)
(* SetInduction, whose set is the set of the lengths it holds at.          *)
(***************************************************************************)
EXTENDS SqlTemplate, TLAPS, WellFoundedInduction

\* Induction over the naturals for a set of numbers.
LEMMA SetInduction ==
    ASSUME NEW S, 0 \in S, \A n \in Nat : n \in S => n + 1 \in S
    PROVE  Nat \subseteq S
<1>. SUFFICES ASSUME Nat \ S # {}  PROVE FALSE
  OBVIOUS
<1>. DEFINE R == {ss \in Nat \X Nat : ss[1] < ss[2]}
<1>1. IsWellFoundedOn(R, Nat)
  <2>1. R = OpToRel(<, Nat)  BY DEF OpToRel
  <2>. QED  BY <2>1, NatLessThanWellFounded
<1>2. PICK x \in Nat \ S : \A y \in Nat \ S : ~(<<y, x>> \in R)
  BY <1>1, WFMin
<1>3. x \in Nat /\ x # 0 /\ x \notin S  BY <1>2
<1>4. x - 1 \in Nat /\ (x - 1) + 1 = x /\ x - 1 < x  BY <1>3
<1>5. \A y \in Nat : y < x => <<y, x>> \in R
  <2>. SUFFICES ASSUME NEW y \in Nat, y < x PROVE <<y, x>> \in R
    OBVIOUS
  <2>1. <<y, x>> \in Nat \X Nat /\ <<y, x>>[1] < <<y, x>>[2]  OBVIOUS
  <2>. QED BY <2>1
<1>. HIDE DEF R
<1>6. x - 1 \notin Nat \ S  BY <1>2, <1>3, <1>4, <1>5
<1>. QED  BY <1>4, <1>6

\* A set of numbers that is not empty has a least one.
LEMMA Least ==
    ASSUME NEW S \in SUBSET Nat, S # {}
    PROVE  \E x \in S : \A y \in S : x <= y
<1>. SUFFICES ASSUME \A x \in S : \E y \in S : ~(x <= y)  PROVE FALSE
  OBVIOUS
<1>. DEFINE Above == {n \in Nat : \A x \in S : n < x}
<1>1. 0 \in Above
  <2>1. \A x \in S : x \in Nat /\ x # 0  OBVIOUS
  <2>. QED  BY <2>1
<1>2. \A n \in Nat : n \in Above => n + 1 \in Above
  <2>. SUFFICES ASSUME NEW n \in Nat, n \in Above, NEW x \in S  PROVE n + 1 < x
    OBVIOUS
  <2>1. PICK y \in S : ~(x <= y)  OBVIOUS
  <2>2. x \in Nat /\ y \in Nat /\ n < y  BY <2>1
  <2>. QED  BY <2>1, <2>2
<1>3. Nat \subseteq Above
  <2>. HIDE DEF Above
  <2>. QED  BY <1>1, <1>2, SetInduction
<1>4. PICK x \in S : TRUE  OBVIOUS
<1>5. x \in Nat /\ x < x  BY <1>3, <1>4
<1>. QED  BY <1>5

\* A function that begins with x0 and goes from each value to the next by step.
Iterates(f, N, x0, step) == f[0] = x0 /\ \A i \in 1 .. N : f[i] = step[i][f[i - 1]]

\* There is one, whatever the steps.
LEMMA Iteration ==
    ASSUME NEW N \in Nat, NEW X, NEW x0 \in X, NEW step \in [1 .. N -> [X -> X]]
    PROVE  \E f \in [0 .. N -> X] : Iterates(f, N, x0, step)
<1>. DEFINE Fits(f, n) == f[0] = x0 /\ \A i \in 1 .. n : f[i] = step[i][f[i - 1]]
            S == {n \in Nat : n <= N => \E f \in [0 .. n -> X] : Fits(f, n)}
<1>1. 0 \in S
  <2>. DEFINE f == [i \in 0 .. 0 |-> x0]
  <2>1. f \in [0 .. 0 -> X] /\ Fits(f, 0)  OBVIOUS
  <2>. QED  BY <2>1
<1>2. ASSUME NEW n \in Nat, n \in S  PROVE n + 1 \in S
  <2>. SUFFICES ASSUME n + 1 <= N  PROVE \E f \in [0 .. n + 1 -> X] : Fits(f, n + 1)
    OBVIOUS
  <2>1. PICK f \in [0 .. n -> X] : Fits(f, n)  BY <1>2
  <2>. DEFINE g == [i \in 0 .. n + 1 |-> IF i = n + 1 THEN step[i][f[n]] ELSE f[i]]
  <2>2. step[n + 1] \in [X -> X] /\ f[n] \in X  BY <2>1
  <2>3. g \in [0 .. n + 1 -> X]  BY <2>2
  <2>4. g[0] = x0  BY <2>1
  <2>5. ASSUME NEW i \in 1 .. n + 1  PROVE g[i] = step[i][g[i - 1]]
    <3>1. CASE i = n + 1  BY <3>1
    <3>2. CASE i # n + 1
      <4>1. i \in 1 .. n /\ i \in 0 .. n + 1 /\ i - 1 \in 0 .. n + 1 /\ i - 1 # n + 1  BY <3>2
      <4>. QED  BY <2>1, <3>2, <4>1
    <3>. QED  BY <3>1, <3>2
  <2>. QED  BY <2>3, <2>4, <2>5
<1>3. N \in S
  <2>. HIDE DEF S
  <2>. QED  BY <1>1, <1>2, SetInduction
<1>. QED  BY <1>3 DEF Iterates

-----------------------------------------------------------------------------
(* Pick.                                                                   *)

\* The function that Pick builds: its value at n is what is picked of the
\* first n elements.
PickFn(s, K) ==
    CHOOSE pick : pick = [i \in 0 .. Len(s) |->
        IF i = 0 THEN << >>
        ELSE IF i \in K THEN Append(pick[i - 1], s[i]) ELSE pick[i - 1]]

LEMMA PickIs == ASSUME NEW s, NEW K  PROVE Pick(s, K) = PickFn(s, K)[Len(s)]
BY DEF Pick, PickFn

\* It starts with nothing, and takes an element at the positions in K.
LEMMA PickSteps ==
    ASSUME NEW X, NEW s \in Seq(X), NEW K
    PROVE  /\ PickFn(s, K) \in [0 .. Len(s) -> Seq(X)]
           /\ PickFn(s, K)[0] = << >>
           /\ \A i \in 1 .. Len(s) :
                  PickFn(s, K)[i] = IF i \in K THEN Append(PickFn(s, K)[i - 1], s[i])
                                    ELSE PickFn(s, K)[i - 1]
<1>. DEFINE step == [i \in 1 .. Len(s) |-> [x \in Seq(X) |->
                        IF i \in K THEN Append(x, s[i]) ELSE x]]
            Built(f) == [i \in 0 .. Len(s) |->
                            IF i = 0 THEN << >>
                            ELSE IF i \in K THEN Append(f[i - 1], s[i]) ELSE f[i - 1]]
<1>1. step \in [1 .. Len(s) -> [Seq(X) -> Seq(X)]] /\ Len(s) \in Nat /\ << >> \in Seq(X)
  <2>1. \A i \in 1 .. Len(s), x \in Seq(X) : Append(x, s[i]) \in Seq(X)  OBVIOUS
  <2>. QED  BY <2>1
<1>2. PICK f \in [0 .. Len(s) -> Seq(X)] :
          f[0] = << >> /\ \A i \in 1 .. Len(s) : f[i] = step[i][f[i - 1]]
  <2>. HIDE DEF step
  <2>1. \E f \in [0 .. Len(s) -> Seq(X)] : Iterates(f, Len(s), << >>, step)
    BY <1>1, Iteration
  <2>. QED  BY <2>1 DEF Iterates
<1>3. \A i \in 1 .. Len(s) : f[i] = IF i \in K THEN Append(f[i - 1], s[i]) ELSE f[i - 1]
  <2>. SUFFICES ASSUME NEW i \in 1 .. Len(s)
                PROVE  f[i] = IF i \in K THEN Append(f[i - 1], s[i]) ELSE f[i - 1]
    OBVIOUS
  <2>1. i - 1 \in 0 .. Len(s)  OBVIOUS
  <2>2. f[i - 1] \in Seq(X)  BY <2>1
  <2>. QED  BY <1>2, <2>2
<1>4. f = Built(f)
  <2>1. \A i \in 0 .. Len(s) : f[i] = Built(f)[i]
    <3>. SUFFICES ASSUME NEW i \in 0 .. Len(s)  PROVE f[i] = Built(f)[i]
      OBVIOUS
    <3>1. CASE i = 0  BY <3>1, <1>2
    <3>2. CASE i # 0
      <4>1. i \in 1 .. Len(s)  BY <3>2
      <4>. QED  BY <1>3, <3>2, <4>1
    <3>. QED  BY <3>1, <3>2
  <2>. QED  BY <2>1
<1>. DEFINE g == PickFn(s, K)
<1>5. g = Built(g)
  <2>. HIDE DEF step
  <2>. QED  BY <1>4 DEF PickFn
<1>6. g[0] = << >>  BY <1>1, <1>5
<1>7. \A i \in 1 .. Len(s) : g[i] = IF i \in K THEN Append(g[i - 1], s[i]) ELSE g[i - 1]
  <2>. SUFFICES ASSUME NEW i \in 1 .. Len(s)
                PROVE  g[i] = IF i \in K THEN Append(g[i - 1], s[i]) ELSE g[i - 1]
    OBVIOUS
  <2>1. i \in 0 .. Len(s) /\ i # 0  OBVIOUS
  <2>2. g[i] = Built(g)[i]  BY <1>5
  <2>. HIDE DEF g
  <2>. QED  BY <2>1, <2>2
<1>8. g \in [0 .. Len(s) -> Seq(X)]
  <2>. HIDE DEF g
  <2>. DEFINE Same == {n \in Nat : n <= Len(s) => g[n] = f[n]}
  <2>1. 0 \in Same  BY <1>2, <1>6
  <2>2. ASSUME NEW n \in Nat, n \in Same  PROVE n + 1 \in Same
    <3>. SUFFICES ASSUME n + 1 <= Len(s)  PROVE g[n + 1] = f[n + 1]
      OBVIOUS
    <3>1. n + 1 \in 1 .. Len(s) /\ (n + 1) - 1 = n /\ g[n] = f[n]  BY <2>2, <1>1
    <3>. QED  BY <1>3, <1>7, <3>1
  <2>3. Nat \subseteq Same
    <3>. HIDE DEF Same
    <3>. QED  BY <2>1, <2>2, SetInduction
  <2>4. \A i \in 0 .. Len(s) : g[i] \in Seq(X)
    <3>1. \A i \in 0 .. Len(s) : i \in Nat /\ i <= Len(s)  BY <1>1
    <3>. QED  BY <2>3, <3>1
  <2>5. DOMAIN g = 0 .. Len(s) /\ g = [i \in DOMAIN g |-> g[i]]
    <3>1. DOMAIN Built(g) = 0 .. Len(s) /\ Built(g) = [i \in DOMAIN Built(g) |-> Built(g)[i]]
      OBVIOUS
    <3>. QED  BY <1>5, <3>1
  <2>. QED  BY <2>4, <2>5
<1>. QED  BY <1>6, <1>7, <1>8

LEMMA PickType == ASSUME NEW X, NEW s \in Seq(X), NEW K  PROVE Pick(s, K) \in Seq(X)
BY PickIs, PickSteps

\* What is at a position in K is picked.
LEMMA PickHas ==
    ASSUME NEW X, NEW s \in Seq(X), NEW K, NEW i \in 1 .. Len(s), i \in K
    PROVE  \E j \in 1 .. Len(Pick(s, K)) : Pick(s, K)[j] = s[i]
<1>. DEFINE g == PickFn(s, K)
            S == {n \in Nat : i <= n /\ n <= Len(s) => \E j \in 1 .. Len(g[n]) : g[n][j] = s[i]}
<1>1. 0 \in S  OBVIOUS
<1>2. ASSUME NEW n \in Nat, n \in S  PROVE n + 1 \in S
  <2>. SUFFICES ASSUME i <= n + 1, n + 1 <= Len(s)
                PROVE  \E j \in 1 .. Len(g[n + 1]) : g[n + 1][j] = s[i]
    OBVIOUS
  <2>1. n \in 0 .. Len(s) /\ n + 1 \in 1 .. Len(s) /\ (n + 1) - 1 = n  OBVIOUS
  <2>2. g[n] \in Seq(X) /\ s[n + 1] \in X  BY <2>1, PickSteps
  <2>3. g[n + 1] = IF n + 1 \in K THEN Append(g[n], s[n + 1]) ELSE g[n]
    BY <2>1, PickSteps
  <2>. HIDE DEF g
  <2>4. CASE i = n + 1
    <3>1. g[n + 1] = Append(g[n], s[i])  BY <2>3, <2>4
    <3>2. Len(g[n]) + 1 \in 1 .. Len(g[n + 1]) /\ g[n + 1][Len(g[n]) + 1] = s[i]
      BY <2>2, <3>1
    <3>. QED  BY <3>2
  <2>5. CASE i # n + 1
    <3>1. PICK j \in 1 .. Len(g[n]) : g[n][j] = s[i]  BY <1>2, <2>1, <2>5
    <3>2. j \in 1 .. Len(g[n + 1]) /\ g[n + 1][j] = s[i]
      BY <2>2, <2>3, <3>1
    <3>. QED  BY <3>2
  <2>. QED  BY <2>4, <2>5
<1>3. Len(s) \in S
  <2>. HIDE DEF S
  <2>. QED  BY <1>1, <1>2, SetInduction
<1>. QED  BY <1>3, PickIs

\* What is picked was at a position in K.
LEMMA PickFrom ==
    ASSUME NEW X, NEW s \in Seq(X), NEW K, NEW j \in 1 .. Len(Pick(s, K))
    PROVE  \E i \in 1 .. Len(s) : i \in K /\ Pick(s, K)[j] = s[i]
<1>. DEFINE g == PickFn(s, K)
            S == {n \in Nat : n <= Len(s) => \A k \in 1 .. Len(g[n]) :
                      \E i \in 1 .. Len(s) : i \in K /\ g[n][k] = s[i]}
<1>1. 0 \in S  BY PickSteps
<1>2. ASSUME NEW n \in Nat, n \in S  PROVE n + 1 \in S
  <2>. SUFFICES ASSUME n + 1 <= Len(s), NEW k \in 1 .. Len(g[n + 1])
                PROVE  \E i \in 1 .. Len(s) : i \in K /\ g[n + 1][k] = s[i]
    OBVIOUS
  <2>1. n \in 0 .. Len(s) /\ n + 1 \in 1 .. Len(s) /\ (n + 1) - 1 = n  OBVIOUS
  <2>2. g[n] \in Seq(X) /\ s[n + 1] \in X  BY <2>1, PickSteps
  <2>3. g[n + 1] = IF n + 1 \in K THEN Append(g[n], s[n + 1]) ELSE g[n]
    BY <2>1, PickSteps
  <2>4. \A m \in 1 .. Len(g[n]) : \E i \in 1 .. Len(s) : i \in K /\ g[n][m] = s[i]
    BY <1>2, <2>1
  <2>. HIDE DEF g
  <2>5. CASE n + 1 \in K
    <3>1. g[n + 1] = Append(g[n], s[n + 1])  BY <2>3, <2>5
    <3>2. \/ k \in 1 .. Len(g[n]) /\ g[n + 1][k] = g[n][k]
          \/ g[n + 1][k] = s[n + 1]
      BY <2>2, <3>1
    <3>. QED  BY <2>1, <2>4, <2>5, <3>2
  <2>6. CASE n + 1 \notin K  BY <2>3, <2>4, <2>6
  <2>. QED  BY <2>5, <2>6
<1>3. Len(s) \in S
  <2>. HIDE DEF S
  <2>. QED  BY <1>1, <1>2, SetInduction
<1>. QED  BY <1>3, PickIs

\* Where no position is in K, nothing more is picked.
LEMMA PickStill ==
    ASSUME NEW X, NEW s \in Seq(X), NEW K, NEW m \in 0 .. Len(s), NEW n \in 0 .. Len(s), m <= n,
           \A i \in m + 1 .. n : i \notin K
    PROVE  PickFn(s, K)[n] = PickFn(s, K)[m]
<1>. DEFINE g == PickFn(s, K)
            S == {d \in Nat : m + d <= n => g[m + d] = g[m]}
<1>1. 0 \in S  OBVIOUS
<1>2. ASSUME NEW d \in Nat, d \in S  PROVE d + 1 \in S
  <2>. SUFFICES ASSUME m + (d + 1) <= n  PROVE g[m + (d + 1)] = g[m]
    OBVIOUS
  <2>. DEFINE k == m + (d + 1)
  <2>1. k \in 1 .. Len(s) /\ k - 1 = m + d /\ k \in m + 1 .. n /\ m + d <= n  OBVIOUS
  <2>2. g[k - 1] = g[m]  BY <1>2, <2>1
  <2>3. k \notin K  BY <2>1
  <2>. HIDE DEF k
  <2>4. g[k] = g[k - 1]  BY <2>1, <2>3, PickSteps
  <2>. QED  BY <2>2, <2>4 DEF k
<1>3. n - m \in S
  <2>1. n - m \in Nat  OBVIOUS
  <2>. HIDE DEF S
  <2>. QED  BY <1>1, <1>2, <2>1, SetInduction
<1>. QED  BY <1>3

\* Two sequences that agree on K have the same picked.
LEMMA PickSame ==
    ASSUME NEW X, NEW s \in Seq(X), NEW t \in Seq(X), NEW K, Len(s) = Len(t),
           \A i \in 1 .. Len(s) : i \in K => s[i] = t[i]
    PROVE  Pick(s, K) = Pick(t, K)
<1>. DEFINE g == PickFn(s, K)
            h == PickFn(t, K)
            S == {n \in Nat : n <= Len(s) => g[n] = h[n]}
<1>1. 0 \in S  BY PickSteps
<1>2. ASSUME NEW n \in Nat, n \in S  PROVE n + 1 \in S
  <2>. SUFFICES ASSUME n + 1 <= Len(s)  PROVE g[n + 1] = h[n + 1]
    OBVIOUS
  <2>1. n + 1 \in 1 .. Len(s) /\ n + 1 \in 1 .. Len(t) /\ (n + 1) - 1 = n /\ g[n] = h[n]
    BY <1>2
  <2>2. g[n + 1] = IF n + 1 \in K THEN Append(g[n], s[n + 1]) ELSE g[n]
    BY <2>1, PickSteps
  <2>3. h[n + 1] = IF n + 1 \in K THEN Append(h[n], t[n + 1]) ELSE h[n]
    BY <2>1, PickSteps
  <2>. HIDE DEF g, h
  <2>. QED  BY <2>1, <2>2, <2>3
<1>3. Len(s) \in S
  <2>. HIDE DEF S
  <2>. QED  BY <1>1, <1>2, SetInduction
<1>. QED  BY <1>3, PickIs

-----------------------------------------------------------------------------
(* FlattenSeq.                                                             *)

LEMMA ConcatFacts ==
    ASSUME NEW X, NEW u \in Seq(X), NEW v \in Seq(X)
    PROVE  /\ u \o v \in Seq(X) /\ Len(u \o v) = Len(u) + Len(v)
           /\ \A i \in 1 .. Len(u) : i \in 1 .. Len(u \o v) /\ (u \o v)[i] = u[i]
           /\ \A i \in 1 .. Len(v) : Len(u) + i \in 1 .. Len(u \o v) /\ (u \o v)[Len(u) + i] = v[i]
           /\ \A i \in 1 .. Len(u \o v) : i \in 1 .. Len(u) \/ i - Len(u) \in 1 .. Len(v)
OBVIOUS

\* The function that FlattenSeq builds: its value at n is the first n lines
\* in a row.
FlatFn(ss) ==
    CHOOSE flatten : flatten = [i \in 1 .. Len(ss) |->
        IF i = 1 THEN ss[i] ELSE flatten[i - 1] \o ss[i]]

LEMMA FlatIs ==
    ASSUME NEW ss  PROVE FlattenSeq(ss) = IF Len(ss) = 0 THEN ss ELSE FlatFn(ss)[Len(ss)]
BY DEF FlattenSeq, FlatFn

\* It starts with nothing, and each line is put after those before it.
LEMMA FlatSteps ==
    ASSUME NEW X, NEW Y \in SUBSET Seq(X), NEW ss \in Seq(Y)
    PROVE  \E f \in [0 .. Len(ss) -> Seq(X)] :
               /\ f[0] = << >>
               /\ \A i \in 1 .. Len(ss) : f[i] = f[i - 1] \o ss[i]
               /\ FlattenSeq(ss) = f[Len(ss)]
<1>. DEFINE step == [i \in 1 .. Len(ss) |-> [x \in Seq(X) |-> x \o ss[i]]]
            Built(f) == [i \in 1 .. Len(ss) |-> IF i = 1 THEN ss[i] ELSE f[i - 1] \o ss[i]]
<1>0. \A i \in 1 .. Len(ss) : ss[i] \in Seq(X)  OBVIOUS
<1>1. step \in [1 .. Len(ss) -> [Seq(X) -> Seq(X)]] /\ Len(ss) \in Nat /\ << >> \in Seq(X)
  <2>1. \A i \in 1 .. Len(ss), x \in Seq(X) : x \o ss[i] \in Seq(X)  BY <1>0
  <2>. QED  BY <2>1
<1>2. PICK f \in [0 .. Len(ss) -> Seq(X)] :
          f[0] = << >> /\ \A i \in 1 .. Len(ss) : f[i] = step[i][f[i - 1]]
  <2>. HIDE DEF step
  <2>1. \E f \in [0 .. Len(ss) -> Seq(X)] : Iterates(f, Len(ss), << >>, step)
    BY <1>1, Iteration
  <2>. QED  BY <2>1 DEF Iterates
<1>3. \A i \in 1 .. Len(ss) : f[i] = f[i - 1] \o ss[i] /\ f[i - 1] \in Seq(X) /\ ss[i] \in Seq(X)
  <2>. SUFFICES ASSUME NEW i \in 1 .. Len(ss)
                PROVE  f[i] = f[i - 1] \o ss[i] /\ f[i - 1] \in Seq(X) /\ ss[i] \in Seq(X)
    OBVIOUS
  <2>1. i - 1 \in 0 .. Len(ss)  OBVIOUS
  <2>2. f[i - 1] \in Seq(X)  BY <2>1
  <2>3. step[i] = [x \in Seq(X) |-> x \o ss[i]]  OBVIOUS
  <2>4. f[i] = step[i][f[i - 1]]  BY <1>2
  <2>. HIDE DEF step
  <2>5. step[i][f[i - 1]] = f[i - 1] \o ss[i]  BY <2>2, <2>3
  <2>. QED  BY <1>0, <2>2, <2>4, <2>5
<1>. DEFINE h == [i \in 1 .. Len(ss) |-> f[i]]
<1>4. h = Built(h)
  <2>1. \A i \in 1 .. Len(ss) : h[i] = Built(h)[i]
    <3>. SUFFICES ASSUME NEW i \in 1 .. Len(ss)  PROVE h[i] = Built(h)[i]
      OBVIOUS
    <3>1. CASE i = 1
      <4>1. f[i] = << >> \o ss[i]
        <5>1. i - 1 = 0  BY <3>1
        <5>. QED  BY <1>2, <1>3, <5>1
      <4>2. << >> \o ss[i] = ss[i]  BY <1>3
      <4>. QED  BY <3>1, <4>1, <4>2
    <3>2. CASE i # 1
      <4>1. i - 1 \in 1 .. Len(ss)  BY <3>2
      <4>. QED  BY <1>3, <3>2, <4>1
    <3>. QED  BY <3>1, <3>2
  <2>. QED  BY <2>1
<1>. DEFINE g == FlatFn(ss)
<1>5. g = Built(g)
  <2>. HIDE DEF step, h
  <2>. QED  BY <1>4 DEF FlatFn
<1>6. \A i \in 1 .. Len(ss) : g[i] = IF i = 1 THEN ss[i] ELSE g[i - 1] \o ss[i]
  <2>. SUFFICES ASSUME NEW i \in 1 .. Len(ss)
                PROVE  g[i] = IF i = 1 THEN ss[i] ELSE g[i - 1] \o ss[i]
    OBVIOUS
  <2>1. g[i] = Built(g)[i]  BY <1>5
  <2>. HIDE DEF g
  <2>. QED  BY <2>1
<1>7. CASE Len(ss) = 0
  <2>1. FlattenSeq(ss) = << >>
    <3>1. ss = << >>  BY <1>7
    <3>. QED  BY <1>7, <3>1, FlatIs
  <2>. QED  BY <1>2, <1>3, <1>7, <2>1
<1>8. CASE Len(ss) # 0
  <2>. DEFINE Same == {n \in Nat : 1 <= n /\ n <= Len(ss) => g[n] = f[n]}
  <2>. HIDE DEF g, step, h
  <2>1. 0 \in Same  OBVIOUS
  <2>2. ASSUME NEW n \in Nat, n \in Same  PROVE n + 1 \in Same
    <3>. SUFFICES ASSUME n + 1 <= Len(ss)  PROVE g[n + 1] = f[n + 1]
      OBVIOUS
    <3>1. n + 1 \in 1 .. Len(ss) /\ (n + 1) - 1 = n  BY <1>1
    <3>2. CASE n = 0
      <4>1. g[1] = ss[1]  BY <1>6, <3>1, <3>2
      <4>2. f[1] = << >> \o ss[1] /\ ss[1] \in Seq(X)
        <5>1. 1 \in 1 .. Len(ss) /\ 1 - 1 = 0  BY <3>1, <3>2
        <5>. QED  BY <1>2, <1>3, <5>1
      <4>3. << >> \o ss[1] = ss[1]  BY <4>2
      <4>. QED  BY <3>2, <4>1, <4>2, <4>3
    <3>3. CASE n # 0
      <4>1. g[n] = f[n]  BY <2>2, <3>3, <1>1
      <4>2. n + 1 # 1  BY <3>3
      <4>3. g[n + 1] = g[n] \o ss[n + 1]  BY <1>6, <3>1, <4>2
      <4>4. f[n + 1] = f[n] \o ss[n + 1]  BY <1>3, <3>1
      <4>. QED  BY <4>1, <4>3, <4>4
    <3>. QED  BY <3>2, <3>3
  <2>3. Len(ss) \in Same
    <3>. HIDE DEF Same
    <3>. QED  BY <1>1, <2>1, <2>2, SetInduction
  <2>4. FlattenSeq(ss) = f[Len(ss)]
    <3>1. FlattenSeq(ss) = g[Len(ss)]  BY <1>8, FlatIs DEF g
    <3>. QED  BY <1>1, <1>8, <2>3, <3>1
  <2>. QED  BY <1>2, <1>3, <2>4
<1>. QED  BY <1>7, <1>8

LEMMA FlatType == ASSUME NEW X, NEW Y \in SUBSET Seq(X), NEW ss \in Seq(Y)  PROVE FlattenSeq(ss) \in Seq(X)
<1>1. PICK f \in [0 .. Len(ss) -> Seq(X)] : FlattenSeq(ss) = f[Len(ss)]  BY FlatSteps
<1>2. Len(ss) \in 0 .. Len(ss)  OBVIOUS
<1>. QED  BY <1>1, <1>2

\* Every element of every line is in the row.
LEMMA FlatHas ==
    ASSUME NEW X, NEW Y \in SUBSET Seq(X), NEW ss \in Seq(Y), NEW k \in 1 .. Len(ss), NEW c \in 1 .. Len(ss[k])
    PROVE  \E j \in 1 .. Len(FlattenSeq(ss)) : FlattenSeq(ss)[j] = ss[k][c]
<1>1. PICK f \in [0 .. Len(ss) -> Seq(X)] :
          /\ f[0] = << >>
          /\ \A i \in 1 .. Len(ss) : f[i] = f[i - 1] \o ss[i]
          /\ FlattenSeq(ss) = f[Len(ss)]
  BY FlatSteps
<1>0. \A i \in 1 .. Len(ss) : ss[i] \in Seq(X)  OBVIOUS
<1>. DEFINE S == {n \in Nat : k <= n /\ n <= Len(ss) => \E j \in 1 .. Len(f[n]) : f[n][j] = ss[k][c]}
<1>2. 0 \in S  OBVIOUS
<1>3. ASSUME NEW n \in Nat, n \in S  PROVE n + 1 \in S
  <2>. SUFFICES ASSUME k <= n + 1, n + 1 <= Len(ss)
                PROVE  \E j \in 1 .. Len(f[n + 1]) : f[n + 1][j] = ss[k][c]
    OBVIOUS
  <2>1. n \in 0 .. Len(ss) /\ n + 1 \in 1 .. Len(ss) /\ (n + 1) - 1 = n  OBVIOUS
  <2>. DEFINE u == f[n]
              v == ss[n + 1]
              w == f[n + 1]
  <2>2. u \in Seq(X) /\ v \in Seq(X)  BY <1>0, <1>1, <2>1
  <2>3. w = u \o v  BY <1>1, <2>1
  <2>4. CASE k = n + 1
    <3>1. c \in 1 .. Len(v) /\ v[c] = ss[k][c]  BY <2>4
    <3>. HIDE DEF u, v, w
    <3>2. Len(u) + c \in 1 .. Len(w) /\ w[Len(u) + c] = ss[k][c]
      BY <2>2, <2>3, <3>1, ConcatFacts
    <3>. QED  BY <3>2 DEF w
  <2>5. CASE k # n + 1
    <3>1. PICK j \in 1 .. Len(u) : u[j] = ss[k][c]  BY <1>3, <2>1, <2>5
    <3>. HIDE DEF u, v, w
    <3>2. j \in 1 .. Len(w) /\ w[j] = u[j]  BY <2>2, <2>3, <3>1, ConcatFacts
    <3>. QED  BY <3>1, <3>2 DEF w
  <2>. QED  BY <2>4, <2>5
<1>4. Len(ss) \in Nat  OBVIOUS
<1>5. Len(ss) \in S
  <2>. HIDE DEF S
  <2>. QED  BY <1>2, <1>3, <1>4, SetInduction
<1>. QED  BY <1>1, <1>4, <1>5

-----------------------------------------------------------------------------
(* Token sequences that differ only in what is not a reference.            *)

SameBinds(u, v) ==
    /\ Len(u) = Len(v)
    /\ \A i \in 1 .. Len(u) : u[i] = v[i] \/ (u[i].kind # "bind" /\ v[i].kind # "bind")

AllSame(s, t) == Len(s) = Len(t) /\ \A k \in 1 .. Len(s) : SameBinds(s[k], t[k])

\* Picking the same lines of both, or putting them in a row, keeps them so.
LEMMA PickAllSame ==
    ASSUME NEW X, NEW s \in Seq(X), NEW t \in Seq(X), NEW K, AllSame(s, t)
    PROVE  AllSame(Pick(s, K), Pick(t, K))
<1>. DEFINE g == PickFn(s, K)
            h == PickFn(t, K)
            S == {n \in Nat : n <= Len(s) => AllSame(g[n], h[n])}
<1>1. 0 \in S
  <2>1. g[0] = << >> /\ h[0] = << >>  BY PickSteps
  <2>. QED  BY <2>1 DEF AllSame
<1>2. ASSUME NEW n \in Nat, n \in S  PROVE n + 1 \in S
  <2>. SUFFICES ASSUME n + 1 <= Len(s)  PROVE AllSame(g[n + 1], h[n + 1])
    OBVIOUS
  <2>1. /\ n \in 0 .. Len(s) /\ n + 1 \in 1 .. Len(s) /\ (n + 1) - 1 = n
        /\ n \in 0 .. Len(t) /\ n + 1 \in 1 .. Len(t)
    BY DEF AllSame
  <2>2. g[n + 1] = IF n + 1 \in K THEN Append(g[n], s[n + 1]) ELSE g[n]
    BY <2>1, PickSteps
  <2>3. h[n + 1] = IF n + 1 \in K THEN Append(h[n], t[n + 1]) ELSE h[n]
    BY <2>1, PickSteps
  <2>4. g[n] \in Seq(X) /\ h[n] \in Seq(X) /\ s[n + 1] \in X /\ t[n + 1] \in X
    BY <2>1, PickSteps
  <2>5. AllSame(g[n], h[n]) /\ SameBinds(s[n + 1], t[n + 1])  BY <1>2, <2>1 DEF AllSame
  <2>. HIDE DEF g, h
  <2>. DEFINE u == g[n]
              v == h[n]
              a == s[n + 1]
              b == t[n + 1]
  <2>6. u \in Seq(X) /\ v \in Seq(X) /\ a \in X /\ b \in X /\ AllSame(u, v) /\ SameBinds(a, b)
    BY <2>4, <2>5
  <2>. HIDE DEF u, v, a, b
  <2>7. AllSame(Append(u, a), Append(v, b))
    <3>1. Len(Append(u, a)) = Len(Append(v, b))  BY <2>6 DEF AllSame
    <3>2. ASSUME NEW k \in 1 .. Len(Append(u, a))
          PROVE  SameBinds(Append(u, a)[k], Append(v, b)[k])
      <4>1. CASE k = Len(u) + 1
        <5>1. Append(u, a)[k] = a /\ Append(v, b)[k] = b  BY <2>6, <4>1 DEF AllSame
        <5>. QED  BY <2>6, <5>1
      <4>2. CASE k # Len(u) + 1
        <5>1. k \in 1 .. Len(u) /\ Append(u, a)[k] = u[k] /\ Append(v, b)[k] = v[k]
          BY <2>6, <4>2 DEF AllSame
        <5>. QED  BY <2>6, <5>1 DEF AllSame
      <4>. QED  BY <4>1, <4>2
    <3>. QED  BY <3>1, <3>2 DEF AllSame
  <2>. QED  BY <2>2, <2>3, <2>6, <2>7 DEF u, v, a, b
<1>3. Len(s) \in S
  <2>. HIDE DEF S
  <2>. QED  BY <1>1, <1>2, SetInduction
<1>. QED  BY <1>3, PickIs DEF AllSame

LEMMA ConcatSame ==
    ASSUME NEW X, NEW u \in Seq(X), NEW v \in Seq(X), NEW a \in Seq(X), NEW b \in Seq(X),
           SameBinds(u, v), SameBinds(a, b)
    PROVE  SameBinds(u \o a, v \o b)
<1>1. Len(u \o a) = Len(v \o b)
  <2>1. Len(u \o a) = Len(u) + Len(a) /\ Len(v \o b) = Len(v) + Len(b)  OBVIOUS
  <2>. QED  BY <2>1 DEF SameBinds
<1>2. ASSUME NEW i \in 1 .. Len(u \o a)
      PROVE  \/ (u \o a)[i] = (v \o b)[i]
             \/ (u \o a)[i].kind # "bind" /\ (v \o b)[i].kind # "bind"
  <2>1. CASE i \in 1 .. Len(u)
    <3>1. (u \o a)[i] = u[i] /\ (v \o b)[i] = v[i]  BY <2>1 DEF SameBinds
    <3>. QED  BY <2>1, <3>1 DEF SameBinds
  <2>2. CASE i \notin 1 .. Len(u)
    <3>. DEFINE k == i - Len(u)
    <3>1. k \in 1 .. Len(a) /\ (u \o a)[i] = a[k] /\ (v \o b)[i] = b[k]  BY <2>2 DEF SameBinds
    <3>. QED  BY <3>1 DEF SameBinds
  <2>. QED  BY <2>1, <2>2
<1>. QED  BY <1>1, <1>2 DEF SameBinds

LEMMA FlatSame ==
    ASSUME NEW X, NEW Y \in SUBSET Seq(X), NEW s \in Seq(Y), NEW t \in Seq(Y), AllSame(s, t)
    PROVE  SameBinds(FlattenSeq(s), FlattenSeq(t))
<1>1. PICK f \in [0 .. Len(s) -> Seq(X)] :
          /\ f[0] = << >>
          /\ \A i \in 1 .. Len(s) : f[i] = f[i - 1] \o s[i]
          /\ FlattenSeq(s) = f[Len(s)]
  BY FlatSteps
<1>2. PICK g \in [0 .. Len(t) -> Seq(X)] :
          /\ g[0] = << >>
          /\ \A i \in 1 .. Len(t) : g[i] = g[i - 1] \o t[i]
          /\ FlattenSeq(t) = g[Len(t)]
  BY FlatSteps
<1>3. Len(s) = Len(t) /\ Len(s) \in Nat  BY DEF AllSame
<1>. DEFINE S == {n \in Nat : n <= Len(s) => SameBinds(f[n], g[n])}
<1>4. 0 \in S  BY <1>1, <1>2 DEF SameBinds
<1>5. ASSUME NEW n \in Nat, n \in S  PROVE n + 1 \in S
  <2>. SUFFICES ASSUME n + 1 <= Len(s)  PROVE SameBinds(f[n + 1], g[n + 1])
    OBVIOUS
  <2>1. /\ n \in 0 .. Len(s) /\ n + 1 \in 1 .. Len(s) /\ (n + 1) - 1 = n
        /\ n \in 0 .. Len(t) /\ n + 1 \in 1 .. Len(t)
    BY <1>3
  <2>. DEFINE u == f[n]
              v == g[n]
              a == s[n + 1]
              b == t[n + 1]
  <2>2. f[n + 1] = u \o a /\ g[n + 1] = v \o b  BY <1>1, <1>2, <2>1
  <2>3. u \in Seq(X) /\ v \in Seq(X)  BY <2>1
  <2>4. a \in Seq(X) /\ b \in Seq(X)  BY <2>1
  <2>5. SameBinds(u, v) /\ SameBinds(a, b)  BY <1>5, <2>1 DEF AllSame
  <2>. HIDE DEF u, v, a, b
  <2>6. SameBinds(u \o a, v \o b)  BY <2>3, <2>4, <2>5, ConcatSame
  <2>. QED  BY <2>2, <2>6
<1>6. Len(s) \in S
  <2>. HIDE DEF S
  <2>. QED  BY <1>3, <1>4, <1>5, SetInduction
<1>. QED  BY <1>1, <1>2, <1>3, <1>6

\* They have the same references.
LEMMA SameReferences ==
    ASSUME NEW u \in Seq(Token), NEW v \in Seq(Token), SameBinds(u, v)
    PROVE  Binds(u) = Binds(v) /\ Pick(u, Binds(u)) = Pick(v, Binds(v))
<1>1. Binds(u) = Binds(v)  BY DEF SameBinds, Binds
<1>2. \A i \in 1 .. Len(u) : i \in Binds(u) => u[i] = v[i]  BY DEF SameBinds, Binds
<1>3. Pick(u, Binds(u)) = Pick(v, Binds(u))  BY <1>2, PickSame DEF SameBinds
<1>. QED  BY <1>1, <1>3

-----------------------------------------------------------------------------
Delimiters == {"bind", "subst", "delim"}

\* NextDelimiter is the first delimiter of the text, or 0 when there is none.
LEMMA NextDelimiterIs ==
    ASSUME text \in Seq(Token)
    PROVE  \/ /\ NextDelimiter = 0
              /\ \A i \in 1 .. Len(text) : text[i].kind \notin Delimiters
           \/ /\ NextDelimiter \in 1 .. Len(text) /\ text[NextDelimiter].kind \in Delimiters
              /\ \A i \in 1 .. NextDelimiter - 1 : text[i].kind \notin Delimiters
<1>. DEFINE I == {i \in 1 .. Len(text) : text[i].kind \in Delimiters}
<1>1. NextDelimiter = IF I # {} THEN CHOOSE x \in I : \A y \in I : x <= y ELSE 0
  BY DEF NextDelimiter, SelectInSeq, Min, Delimiters
<1>2. CASE I = {}  BY <1>1, <1>2
<1>3. CASE I # {}
  <2>1. I \in SUBSET Nat  OBVIOUS
  <2>2. \E x \in I : \A y \in I : x <= y
    <3>. HIDE DEF I
    <3>. QED  BY <1>3, <2>1, Least
  <2>3. NextDelimiter \in I /\ \A y \in I : NextDelimiter <= y
    <3>. HIDE DEF I
    <3>. QED  BY <1>1, <1>3, <2>2
  <2>4. \A i \in 1 .. NextDelimiter - 1 : i \in 1 .. Len(text) /\ ~(NextDelimiter <= i)  BY <2>3
  <2>. QED  BY <2>3, <2>4
<1>. QED  BY <1>2, <1>3
=============================================================================
