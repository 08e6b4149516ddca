---------------------------- MODULE CoinTheorems ----------------------------
(***************************************************************************)
(* What the proofs of several components cite: a total changes by exactly  *)
(* what one of its terms changes, sets of numbers have a least and a       *)
(* greatest, sequences joined keep every element in its place.             *)
(***************************************************************************)
EXTENDS Coins, FiniteSetsExt, SequencesExt, FiniteSetTheorems, SequenceTheorems,
        WellFoundedInduction, TLAPS

\* The coins of one index are as many as its value says.
LEMMA PurseSize ==
    ASSUME NEW x, NEW n \in Nat
    PROVE  /\ IsFiniteSet({x} \X (1 .. n))
           /\ Cardinality({x} \X (1 .. n)) = n
<1>1. IsFiniteSet({x}) /\ Cardinality({x}) = 1
  BY FS_Singleton
<1>2. IsFiniteSet(1 .. n) /\ Cardinality(1 .. n) = n
  BY FS_Interval
<1>3. /\ IsFiniteSet({x} \X (1 .. n))
      /\ Cardinality({x} \X (1 .. n)) = Cardinality({x}) * Cardinality(1 .. n)
  BY <1>1, <1>2, FS_Product
<1>4. QED
  BY <1>1, <1>2, <1>3

\* Finitely many indices hold finitely many coins.
LEMMA CoinsFinite ==
    ASSUME NEW S, IsFiniteSet(S), NEW f, \A x \in S : f[x] \in Nat
    PROVE  IsFiniteSet(Coins(S, f)) /\ Total(S, f) \in Nat
<1> DEFINE purse == [x \in S |-> {x} \X (1 .. f[x])]
<1> DEFINE purses == {{x} \X (1 .. f[x]) : x \in S}
<1>1. purse \in Surjection(S, purses)
  BY DEF Surjection
<1>2. IsFiniteSet(purses)
  BY <1>1, FS_Surjection
<1>3. ASSUME NEW p \in purses
      PROVE  IsFiniteSet(p)
  <2>1. PICK x \in S : p = {x} \X (1 .. f[x])
    OBVIOUS
  <2>2. QED
    BY <2>1, PurseSize
<1>4. IsFiniteSet(UNION purses)
  BY <1>2, <1>3, FS_UNION
<1>5. QED
  BY <1>4, FS_CardinalityType DEF Coins, Total

\* Nothing is counted where every term is zero.
LEMMA TotalZero ==
    ASSUME NEW S, NEW f, \A x \in S : f[x] = 0
    PROVE  Total(S, f) = 0
<1>1. Coins(S, f) = {}
  BY DEF Coins
<1>2. QED
  BY <1>1, FS_EmptySet DEF Total

\* A total is the term at x and the total of the rest.
LEMMA TotalSplit ==
    ASSUME NEW S, IsFiniteSet(S), NEW f, \A y \in S : f[y] \in Nat, NEW x \in S
    PROVE  /\ Total(S, f) = Total(S \ {x}, f) + f[x]
           /\ Total(S \ {x}, f) \in Nat
<1> DEFINE rest == Coins(S \ {x}, f)
<1> DEFINE purse == {x} \X (1 .. f[x])
<1>1. IsFiniteSet(S \ {x})
  BY FS_RemoveElement
<1>2. IsFiniteSet(rest) /\ Cardinality(rest) \in Nat
  BY <1>1, CoinsFinite DEF Total
<1>3. IsFiniteSet(purse) /\ Cardinality(purse) = f[x]
  BY PurseSize
<1>4. Coins(S, f) = rest \cup purse
  BY DEF Coins
<1>5. rest \cap purse = {}
  BY DEF Coins
<1>6. Cardinality(rest \cup purse)
        = Cardinality(rest) + Cardinality(purse) - Cardinality(rest \cap purse)
  <2> HIDE DEF rest, purse
  <2> QED BY <1>2, <1>3, FS_Union
<1>7. Cardinality(rest \cap purse) = 0
  BY <1>5, FS_EmptySet
<1>8. f[x] \in Nat
  OBVIOUS
<1>9. Cardinality(rest \cup purse) = Cardinality(rest) + f[x]
  <2> HIDE DEF rest, purse
  <2> QED BY <1>2, <1>3, <1>6, <1>7, <1>8
<1>10. QED
  BY <1>2, <1>4, <1>9 DEF Total

\* The total looks only at the terms.
LEMMA TotalSame ==
    ASSUME NEW S, NEW f, NEW g, \A x \in S : f[x] = g[x]
    PROVE  Total(S, f) = Total(S, g)
<1>1. Coins(S, f) = Coins(S, g)
  BY DEF Coins
<1>2. QED
  BY <1>1 DEF Total

\* Changing the one term at x changes the total by the same amount.
THEOREM TotalChange ==
    ASSUME NEW S, IsFiniteSet(S), NEW x \in S, NEW f, NEW g,
           \A y \in S : f[y] \in Nat,
           g[x] \in Nat,
           \A y \in S \ {x} : g[y] = f[y]
    PROVE  /\ Total(S, g) = Total(S, f) + g[x] - f[x]
           /\ Total(S, f) \in Nat
           /\ f[x] <= Total(S, f)
<1>1. Total(S, f) = Total(S \ {x}, f) + f[x] /\ Total(S \ {x}, f) \in Nat
  BY TotalSplit
<1>2. \A y \in S : g[y] \in Nat
  OBVIOUS
<1>3. Total(S, g) = Total(S \ {x}, g) + g[x]
  BY <1>2, TotalSplit
<1>4. Total(S \ {x}, g) = Total(S \ {x}, f)
  BY TotalSame
<1>5. QED
  BY <1>1, <1>3, <1>4

\* A total does not change by terms that are zero.
LEMMA TotalMore ==
    ASSUME NEW S, NEW T, S \subseteq T, NEW f, NEW g,
           \A x \in S : g[x] = f[x], \A x \in T \ S : g[x] = 0
    PROVE  Total(T, g) = Total(S, f)
<1>1. Coins(T, g) = Coins(S, f)
  <2>1. \A x \in T : x \in S \/ {x} \X (1 .. g[x]) = {}
    OBVIOUS
  <2> QED  BY <2>1 DEF Coins
<1> QED  BY <1>1 DEF Total

-----------------------------------------------------------------------------
(* Numbers *)

\* Natural numbers that are some have a least one.
LEMMA LeastOne ==
    ASSUME NEW S \in SUBSET Nat, S # {}
    PROVE  \E x \in S : \A y \in S : x <= y
<1> DEFINE R == OpToRel(<, Nat)
<1>1. PICK x \in S : \A y \in S : ~(<<y, x>> \in R)
  <2> HIDE DEF R
  <2>1. IsWellFoundedOn(R, Nat)
    BY NatLessThanWellFounded DEF R
  <2> QED  BY <2>1, WFMin
<1>2. \A y \in S : ~(y < x)
  BY <1>1 DEF OpToRel
<1> QED  BY <1>2

\* Induction: a set that has 0 and with n also n + 1 has every natural number.
LEMMA EveryNumber ==
    ASSUME NEW S, 0 \in S, \A n \in Nat : n \in S => n + 1 \in S
    PROVE  \A n \in Nat : n \in S
<1> DEFINE missing == {n \in Nat : n \notin S}
<1> SUFFICES ASSUME missing # {} PROVE FALSE
  OBVIOUS
<1>1. PICK x \in missing : \A y \in missing : x <= y
  <2> HIDE DEF missing
  <2>1. missing \in SUBSET Nat
    BY DEF missing
  <2> QED  BY <2>1, LeastOne
<1>2. x \in Nat /\ x # 0 /\ x - 1 \in Nat /\ x - 1 \in S
  BY <1>1
<1> QED  BY <1>1, <1>2

\* Integers within bounds have a greatest one, Max, and a least one, Min.
LEMMA GreatestOf ==
    ASSUME NEW a \in Int, NEW b \in Int, NEW S \in SUBSET (a..b), S # {}
    PROVE  Max(S) \in S /\ \A y \in S : y <= Max(S)
<1> DEFINE short == {b - y : y \in S}
<1>1. PICK m \in short : \A n \in short : m <= n
  <2>1. short \in SUBSET Nat /\ short # {}
    <3>1. \A y \in S : y \in a..b
      OBVIOUS
    <3>2. \A y \in S : b - y \in Nat
      BY <3>1
    <3> QED  BY <3>2
  <2> HIDE DEF short
  <2> QED  BY <2>1, LeastOne
<1>2. PICK x \in S : m = b - x
  BY <1>1
<1>3. \A y \in S : x >= y
  <2> TAKE y \in S
  <2>1. m <= b - y
    BY <1>1
  <2> QED  BY <1>2, <2>1
<1>4. \A y \in S : y \in Int
  OBVIOUS
<1>5. \E t \in S : \A y \in S : t >= y
  BY <1>3
<1>6. Max(S) \in S /\ \A y \in S : Max(S) >= y
  BY <1>5 DEF Max
<1> QED  BY <1>4, <1>6

LEMMA LeastOf ==
    ASSUME NEW a \in Int, NEW b \in Int, NEW S \in SUBSET (a..b), S # {}
    PROVE  Min(S) \in S /\ \A y \in S : Min(S) <= y
<1> DEFINE over == {y - a : y \in S}
<1>1. PICK m \in over : \A n \in over : m <= n
  <2>1. over \in SUBSET Nat /\ over # {}
    OBVIOUS
  <2> HIDE DEF over
  <2> QED  BY <2>1, LeastOne
<1>2. PICK x \in S : m = x - a
  BY <1>1
<1>3. \A y \in S : x <= y
  <2> TAKE y \in S
  <2>1. m <= y - a
    BY <1>1
  <2> QED  BY <1>2, <2>1
<1>4. \E t \in S : \A y \in S : t <= y
  BY <1>3
<1> QED  BY <1>4 DEF Min

-----------------------------------------------------------------------------
(* Joined sequences *)

\* The parts joined up to the n-th, as a function of n.
IsJoin(g, s, n) == g = [i \in 1..n |-> IF i = 1 THEN s[i] ELSE g[i - 1] \o s[i]]

\* There is such a function.
LEMMA JoinsExist ==
    ASSUME NEW T, NEW s \in Seq(Seq(T)), NEW n \in 1..Len(s)
    PROVE  \E g : IsJoin(g, s, n) /\ g \in [1..n -> Seq(T)]
<1> DEFINE good == {k \in Nat : k + 1 <= Len(s) => \E g : IsJoin(g, s, k + 1) /\ g \in [1..(k + 1) -> Seq(T)]}
<1>1. 0 \in good
  <2> SUFFICES ASSUME 1 <= Len(s) PROVE \E g : IsJoin(g, s, 1) /\ g \in [1..1 -> Seq(T)]
    OBVIOUS
  <2> DEFINE g == [i \in 1..1 |-> s[1]]
  <2>1. s[1] \in Seq(T)
    OBVIOUS
  <2>2. IsJoin(g, s, 1)
    <3>1. [i \in 1..1 |-> IF i = 1 THEN s[i] ELSE g[i - 1] \o s[i]] = [i \in 1..1 |-> s[1]]
      OBVIOUS
    <3> QED  BY <3>1 DEF IsJoin
  <2> QED  BY <2>1, <2>2
<1>2. ASSUME NEW k \in Nat, k \in good PROVE k + 1 \in good
  <2> SUFFICES ASSUME k + 2 <= Len(s)
               PROVE  \E h : IsJoin(h, s, k + 2) /\ h \in [1..(k + 2) -> Seq(T)]
    OBVIOUS
  <2>1. PICK g : IsJoin(g, s, k + 1) /\ g \in [1..(k + 1) -> Seq(T)]
    BY <1>2
  <2> DEFINE h == [i \in 1..(k + 2) |-> IF i = k + 2 THEN g[k + 1] \o s[k + 2] ELSE g[i]]
  <2>2. s[k + 2] \in Seq(T) /\ g[k + 1] \in Seq(T)
    BY <2>1
  <2>3. h \in [1..(k + 2) -> Seq(T)]
    BY <2>1, <2>2
  <2>4. ASSUME NEW i \in 1..(k + 2) PROVE h[i] = IF i = 1 THEN s[i] ELSE h[i - 1] \o s[i]
    <3>1. CASE i = k + 2
      <4>1. i # 1 /\ i - 1 = k + 1 /\ i - 1 \in 1..(k + 2) /\ i - 1 # k + 2
        BY <3>1
      <4>2. h[i - 1] = g[k + 1] /\ h[i] = g[k + 1] \o s[k + 2]
        BY <3>1, <4>1
      <4> QED  BY <3>1, <4>1, <4>2
    <3>2. CASE i # k + 2
      <4>1. g[i] = IF i = 1 THEN s[i] ELSE g[i - 1] \o s[i]
        <5>1. i \in 1..(k + 1)
          BY <3>2
        <5> QED  BY <2>1, <5>1 DEF IsJoin
      <4>2. i # 1 => i - 1 \in 1..(k + 2) /\ i - 1 # k + 2
        OBVIOUS
      <4> QED  BY <3>2, <4>1, <4>2
    <3> QED  BY <3>1, <3>2
  <2>5. IsJoin(h, s, k + 2)
    BY <2>4 DEF IsJoin
  <2> QED  BY <2>3, <2>5
<1>3. \A k \in Nat : k \in good
  <2> HIDE DEF good
  <2> QED  BY <1>1, <1>2, EveryNumber
<1>4. n - 1 \in Nat /\ n - 1 + 1 = n /\ n <= Len(s)
  OBVIOUS
<1>5. n - 1 \in good
  BY <1>3, <1>4
<1> QED  BY <1>4, <1>5

\* Two of them agree where both are defined.
LEMMA JoinsAgree ==
    ASSUME NEW s, NEW n \in Nat, NEW m \in Nat, n <= m, n >= 1,
           NEW g, IsJoin(g, s, n), NEW h, IsJoin(h, s, m)
    PROVE  g[n] = h[n]
<1> DEFINE good == {k \in Nat : k + 1 <= n => g[k + 1] = h[k + 1]}
<1>1. \A i \in 1..n : g[i] = IF i = 1 THEN s[i] ELSE g[i - 1] \o s[i]
  BY DEF IsJoin
<1>2. \A i \in 1..m : h[i] = IF i = 1 THEN s[i] ELSE h[i - 1] \o s[i]
  BY DEF IsJoin
<1>3. 0 \in good
  BY <1>1, <1>2
<1>4. ASSUME NEW k \in Nat, k \in good PROVE k + 1 \in good
  BY <1>1, <1>2, <1>4
<1>5. \A k \in Nat : k \in good
  <2> HIDE DEF good
  <2> QED  BY <1>3, <1>4, EveryNumber
<1>6. n - 1 \in good
  BY <1>5
<1> QED  BY <1>6

\* Joining the parts of a sequence is that function, at the last of them.
LEMMA FlattenIs ==
    ASSUME NEW T, NEW s \in Seq(Seq(T)), Len(s) # 0
    PROVE  \E g : IsJoin(g, s, Len(s)) /\ FlattenSeq(s) = g[Len(s)] /\ g[Len(s)] \in Seq(T)
<1> DEFINE g == CHOOSE f : f = [i \in 1..Len(s) |-> IF i = 1 THEN s[i] ELSE f[i - 1] \o s[i]]
<1>1. Len(s) \in 1..Len(s)
  OBVIOUS
<1>2. PICK h : IsJoin(h, s, Len(s)) /\ h \in [1..Len(s) -> Seq(T)]
  BY <1>1, JoinsExist
<1>3. IsJoin(g, s, Len(s))
  BY <1>2 DEF IsJoin
<1>4. FlattenSeq(s) = g[Len(s)]
  BY DEF FlattenSeq
<1> HIDE DEF g
<1>5. g[Len(s)] = h[Len(s)]
  <2>1. Len(s) \in Nat /\ Len(s) >= 1
    OBVIOUS
  <2> QED  BY <1>2, <1>3, <2>1, JoinsAgree
<1>6. h[Len(s)] \in Seq(T)
  BY <1>1, <1>2
<1> QED  BY <1>3, <1>4, <1>5, <1>6

\* No parts joined are nothing.
LEMMA FlattenNone == FlattenSeq(<<>>) = <<>>
BY DEF FlattenSeq

\* Parts joined are a sequence of their elements.
LEMMA FlattenType ==
    ASSUME NEW T, NEW s \in Seq(Seq(T))
    PROVE  FlattenSeq(s) \in Seq(T)
<1>1. CASE Len(s) = 0
  <2>1. s = <<>>
    BY <1>1
  <2>2. <<>> \in Seq(T)
    OBVIOUS
  <2> QED  BY <2>1, <2>2, FlattenNone
<1>2. CASE Len(s) # 0
  BY <1>2, FlattenIs
<1> QED  BY <1>1, <1>2

\* One part more is its elements more.
LEMMA FlattenMore ==
    ASSUME NEW T, NEW s \in Seq(Seq(T)), NEW x \in Seq(T)
    PROVE  FlattenSeq(Append(s, x)) = FlattenSeq(s) \o x
<1> DEFINE n == Len(s)
           t == Append(s, x)
<1>0. n \in Nat /\ t \in Seq(Seq(T)) /\ Len(t) = n + 1 /\ t[n + 1] = x /\ \A i \in 1..n : t[i] = s[i]
  OBVIOUS
<1> HIDE DEF t, n
<1>1. PICK h : IsJoin(h, t, n + 1) /\ FlattenSeq(t) = h[n + 1]
  <2>1. Len(t) # 0
    BY <1>0
  <2>2. PICK h : IsJoin(h, t, Len(t)) /\ FlattenSeq(t) = h[Len(t)]
    BY <1>0, <2>1, FlattenIs
  <2> QED  BY <1>0, <2>2
<1>2. h[n + 1] = IF n = 0 THEN x ELSE h[n] \o x
  <2>1. \A i \in 1..(n + 1) : h[i] = IF i = 1 THEN t[i] ELSE h[i - 1] \o t[i]
    BY <1>1 DEF IsJoin
  <2>2. n + 1 \in 1..(n + 1) /\ (n + 1 = 1 <=> n = 0) /\ n + 1 - 1 = n
    BY <1>0
  <2> QED  BY <1>0, <2>1, <2>2
<1>3. CASE n = 0
  <2>1. s = <<>>
    BY <1>3 DEF n
  <2>2. <<>> \o x = x
    OBVIOUS
  <2> QED  BY <1>1, <1>2, <1>3, <2>1, <2>2, FlattenNone DEF t
<1>4. CASE n # 0
  <2>1. PICK g : IsJoin(g, s, n) /\ FlattenSeq(s) = g[n]
    BY <1>4, FlattenIs DEF n
  <2>2. IsJoin(g, t, n)
    <3>1. [i \in 1..n |-> IF i = 1 THEN s[i] ELSE g[i - 1] \o s[i]] = [i \in 1..n |-> IF i = 1 THEN t[i] ELSE g[i - 1] \o t[i]]
      BY <1>0
    <3> QED  BY <2>1, <3>1 DEF IsJoin
  <2>3. g[n] = h[n]
    <3>1. n + 1 \in Nat /\ n <= n + 1 /\ n >= 1
      BY <1>0, <1>4
    <3> QED  BY <1>0, <1>1, <2>2, <3>1, JoinsAgree
  <2> QED  BY <1>0, <1>1, <1>2, <1>4, <2>1, <2>3 DEF t
<1> QED  BY <1>3, <1>4

\* The parts of two sequences are the parts of the first and then of the second.
LEMMA FlattenBoth ==
    ASSUME NEW T, NEW s \in Seq(Seq(T)), NEW t \in Seq(Seq(T))
    PROVE  FlattenSeq(s \o t) = FlattenSeq(s) \o FlattenSeq(t)
<1> DEFINE To(k) == SubSeq(t, 1, k)
           good == {k \in Nat : k <= Len(t) => FlattenSeq(s \o To(k)) = FlattenSeq(s) \o FlattenSeq(To(k))}
<1>1. 0 \in good
  <2>1. To(0) = <<>> /\ s \o <<>> = s
    OBVIOUS
  <2>2. FlattenSeq(s) \in Seq(T)
    BY FlattenType
  <2>3. FlattenSeq(s) \o <<>> = FlattenSeq(s)
    BY <2>2
  <2> QED  BY <2>1, <2>3, FlattenNone
<1>2. ASSUME NEW k \in Nat, k \in good PROVE k + 1 \in good
  <2> SUFFICES ASSUME k + 1 <= Len(t)
               PROVE  FlattenSeq(s \o To(k + 1)) = FlattenSeq(s) \o FlattenSeq(To(k + 1))
    OBVIOUS
  <2>1. PICK x \in Seq(T) : x = t[k + 1]
    OBVIOUS
  <2>2. To(k) \in Seq(Seq(T)) /\ To(k + 1) = Append(To(k), x)
    BY <2>1
  <2>3. s \o To(k) \in Seq(Seq(T)) /\ s \o To(k + 1) = Append(s \o To(k), x)
    BY <2>2
  <2>4. FlattenSeq(s \o To(k)) = FlattenSeq(s) \o FlattenSeq(To(k))
    BY <1>2
  <2> HIDE DEF To
  <2>5. FlattenSeq(s \o To(k + 1)) = FlattenSeq(s \o To(k)) \o x
    BY <2>2, <2>3, FlattenMore
  <2>6. FlattenSeq(To(k + 1)) = FlattenSeq(To(k)) \o x
    BY <2>2, FlattenMore
  <2>7. FlattenSeq(s) \in Seq(T) /\ FlattenSeq(To(k)) \in Seq(T)
    BY <2>2, FlattenType
  <2>8. PICK a \in Seq(T), b \in Seq(T) : a = FlattenSeq(s) /\ b = FlattenSeq(To(k))
    BY <2>7
  <2>9. (a \o b) \o x = a \o (b \o x)
    BY ConcatAssociative, SMTT(30)
  <2> QED  BY <2>4, <2>5, <2>6, <2>8, <2>9
<1>3. \A k \in Nat : k \in good
  <2> HIDE DEF good
  <2> QED  BY <1>1, <1>2, EveryNumber
<1>4. To(Len(t)) = t /\ Len(t) \in Nat /\ Len(t) <= Len(t)
  OBVIOUS
<1> HIDE DEF To
<1>5. FlattenSeq(s \o To(Len(t))) = FlattenSeq(s) \o FlattenSeq(To(Len(t)))
  BY <1>3, <1>4
<1> QED  BY <1>4, <1>5

\* One part is itself.
LEMMA FlattenOne ==
    ASSUME NEW T, NEW x \in Seq(T)
    PROVE  FlattenSeq(<<x>>) = x
<1>1. <<>> \in Seq(Seq(T)) /\ <<x>> = Append(<<>>, x) /\ <<>> \o x = x
  OBVIOUS
<1>2. FlattenSeq(Append(<<>>, x)) = FlattenSeq(<<>>) \o x
  BY <1>1, FlattenMore
<1> QED  BY <1>1, <1>2, FlattenNone

\* Parts of one element each are those elements.
LEMMA FlattenSingles ==
    ASSUME NEW T, NEW t \in Seq(T), NEW p \in Seq(Seq(T)), NEW n \in Nat, n <= Len(t), n <= Len(p),
           \A k \in 1..n : p[k] = <<t[k]>>
    PROVE  FlattenSeq(SubSeq(p, 1, n)) = SubSeq(t, 1, n)
<1> DEFINE good == {k \in Nat : k <= n => FlattenSeq(SubSeq(p, 1, k)) = SubSeq(t, 1, k)}
<1>1. 0 \in good
  <2>1. SubSeq(p, 1, 0) = <<>> /\ SubSeq(t, 1, 0) = <<>>
    OBVIOUS
  <2> QED  BY <2>1, FlattenNone
<1>2. ASSUME NEW k \in Nat, k \in good PROVE k + 1 \in good
  <2> SUFFICES ASSUME k + 1 <= n PROVE FlattenSeq(SubSeq(p, 1, k + 1)) = SubSeq(t, 1, k + 1)
    OBVIOUS
  <2>1. PICK x : x = t[k + 1]
    OBVIOUS
  <2>2. <<x>> \in Seq(T) /\ SubSeq(p, 1, k) \in Seq(Seq(T)) /\ SubSeq(p, 1, k + 1) = Append(SubSeq(p, 1, k), <<x>>)
    BY <2>1
  <2>3. FlattenSeq(SubSeq(p, 1, k + 1)) = FlattenSeq(SubSeq(p, 1, k)) \o <<x>>
    BY <2>2, FlattenMore
  <2>4. SubSeq(t, 1, k + 1) = SubSeq(t, 1, k) \o <<x>>
    BY <2>1
  <2>5. FlattenSeq(SubSeq(p, 1, k)) = SubSeq(t, 1, k)
    BY <1>2
  <2> QED  BY <2>3, <2>4, <2>5
<1>3. \A k \in Nat : k \in good
  <2> HIDE DEF good
  <2> QED  BY <1>1, <1>2, EveryNumber
<1>4. n \in good
  <2> HIDE DEF good
  <2> QED  BY <1>3
<1>5. n <= n
  OBVIOUS
<1> QED  BY <1>4, <1>5

\* A sequence is what is before a position and what is from it on.
LEMMA SplitAt ==
    ASSUME NEW T, NEW s \in Seq(T), NEW p \in 1..(Len(s) + 1)
    PROVE  /\ SubSeq(s, 1, p - 1) \in Seq(T) /\ SubSeq(s, p, Len(s)) \in Seq(T)
           /\ Len(SubSeq(s, 1, p - 1)) = p - 1 /\ Len(SubSeq(s, p, Len(s))) = Len(s) + 1 - p
           /\ SubSeq(s, 1, p - 1) \o SubSeq(s, p, Len(s)) = s
<1>1. /\ SubSeq(s, 1, p - 1) \in Seq(T) /\ SubSeq(s, p, Len(s)) \in Seq(T)
      /\ Len(SubSeq(s, 1, p - 1)) = p - 1 /\ Len(SubSeq(s, p, Len(s))) = Len(s) + 1 - p
  OBVIOUS
<1>2. PICK n \in Nat : n = Len(s)
  OBVIOUS
<1>3. PICK k \in 0..n : k = p - 1
  BY <1>2
<1>4. 1 \in 1..(Len(s) + 1) /\ k \in (1 - 1)..Len(s) /\ n \in k..Len(s) /\ k + 1 = p
  BY <1>2, <1>3
<1>5. SubSeq(s, 1, k) \o SubSeq(s, k + 1, n) = SubSeq(s, 1, n)
  BY <1>4, ConcatAdjacentSubSeq
<1>6. SubSeq(s, 1, n) = s
  BY <1>2, SubSeqFull
<1> QED  BY <1>1, <1>2, <1>3, <1>4, <1>5, <1>6

\* Two elements, one after the other.
LEMMA PairOf ==
    ASSUME NEW T, NEW x \in T, NEW y \in T
    PROVE  <<x>> \o <<y>> = <<x, y>>
<1>0. <<x>> \in Seq(T) /\ <<y>> \in Seq(T)
  OBVIOUS
<1>1. PICK a \in Seq(T), b \in Seq(T) : a = <<x>> /\ b = <<y>>
  BY <1>0
<1>2. Len(a) = 1 /\ Len(b) = 1 /\ a[1] = x /\ b[1] = y
  BY <1>1
<1>3. /\ a \o b \in Seq(T) /\ Len(a \o b) = Len(a) + Len(b)
      /\ \A i \in 1 .. Len(a) + Len(b) : (a \o b)[i] = IF i <= Len(a) THEN a[i] ELSE b[i - Len(a)]
  BY ConcatProperties
<1>4. Len(a \o b) = 2 /\ (a \o b)[1] = x /\ (a \o b)[2] = y
  BY <1>2, <1>3
<1>5. <<x, y>> \in Seq(T) /\ Len(<<x, y>>) = 2 /\ <<x, y>>[1] = x /\ <<x, y>>[2] = y
  OBVIOUS
<1>6. \A i \in 1..2 : (a \o b)[i] = <<x, y>>[i]
  BY <1>4, <1>5
<1>7. a \o b = <<x, y>>
  BY <1>3, <1>4, <1>5, <1>6, SeqEqual
<1> QED  BY <1>1, <1>7

\* From a position on a sequence is the element there and what is after it.
LEMMA SplitFirst ==
    ASSUME NEW T, NEW s \in Seq(T), NEW p \in 1..Len(s)
    PROVE  SubSeq(s, p, Len(s)) = <<s[p]>> \o SubSeq(s, p + 1, Len(s))
<1>1. PICK n \in Nat : n = Len(s)
  OBVIOUS
<1>2. p \in 1..(Len(s) + 1) /\ p \in (p - 1)..Len(s) /\ n \in p..Len(s)
  BY <1>1
<1>3. SubSeq(s, p, p) \o SubSeq(s, p + 1, n) = SubSeq(s, p, n)
  BY <1>2, ConcatAdjacentSubSeq
<1>4. SubSeq(s, p, p) = <<s[p]>>
  <2>1. PICK x \in T : x = s[p]
    OBVIOUS
  <2>2. SubSeq(s, p, p) \in Seq(T) /\ Len(SubSeq(s, p, p)) = 1 /\ SubSeq(s, p, p)[1] = x
    BY <2>1
  <2>3. <<x>> \in Seq(T) /\ Len(<<x>>) = 1 /\ <<x>>[1] = x
    OBVIOUS
  <2>4. \A i \in 1..1 : SubSeq(s, p, p)[i] = <<x>>[i]
    BY <2>2, <2>3
  <2>5. SubSeq(s, p, p) = <<x>>
    BY <2>2, <2>3, <2>4, SeqEqual
  <2> QED  BY <2>1, <2>5
<1> QED  BY <1>1, <1>3, <1>4
=============================================================================
