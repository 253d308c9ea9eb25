---------------------------- MODULE SequenceLemmas ----------------------------
(***************************************************************************)
(* Lemmas about sequences that the proofs share: the least element of a    *)
(* set of naturals, upwards induction over a set of indices, what          *)
(* FlattenSeq of the community modules returns, the indices FoldLeft goes  *)
(* over, and what the first members of a sequence of sets hold together.   *)
(***************************************************************************)
EXTENDS SequencesExt, SequenceTheorems, WellFoundedInduction, TLAPS

LEMMA LeastNatural ==
    ASSUME NEW S, S \subseteq Nat, S # {}
    PROVE  \E m \in S : \A n \in S : m <= n
<1>1. PICK m \in S : \A n \in S : <<n, m>> \notin OpToRel(<, Nat)
  BY WFMin, NatLessThanWellFounded, Zenon
<1>2. \A n \in S : ~(n < m)
  BY <1>1, Zenon DEF OpToRel
<1>. QED
  BY <1>2

\* Induction over the numbers up to n, as a fact about a set of them.
LEMMA Upwards ==
    ASSUME NEW n \in Nat, NEW S, 0 \in S, \A k \in 1..n : k - 1 \in S => k \in S
    PROVE  \A k \in 0..n : k \in S
<1>. DEFINE Bad == (0..n) \ S
<1>. SUFFICES ASSUME Bad # {} PROVE FALSE
  OBVIOUS
<1>1. Bad \subseteq Nat
  OBVIOUS
<1>. HIDE DEF Bad
<1>2. PICK m \in Bad : \A k \in Bad : m <= k
  BY <1>1, LeastNatural
<1>3. m \in 0..n /\ m \notin S
  BY <1>2 DEF Bad
<1>4. m \in 1..n
  BY <1>3
<1>5. m - 1 \in 0..n /\ m - 1 \notin S
  BY <1>3, <1>4
<1>. QED
  BY <1>2, <1>4, <1>5 DEF Bad

-----------------------------------------------------------------------------
(* Concatenating a sequence of sequences: the recursion of FlattenSeq.      *)

\* What the recursion makes of the first n.
Joined(s, f, n) == IF n = 1 THEN s[1] ELSE f[n - 1] \o s[n]

Joins(f, s, m) == f = [n \in 1..m |-> Joined(s, f, n)]

LEMMA JoinsExists ==
    ASSUME NEW s, NEW m \in Nat
    PROVE  \E f : Joins(f, s, m)
<1>. DEFINE Bad == {n \in Nat : ~\E f : Joins(f, s, n)}
<1>. SUFFICES ASSUME Bad # {} PROVE FALSE
  OBVIOUS
<1>1. PICK k \in Bad : \A n \in Bad : k <= n
  BY LeastNatural
<1>2. CASE k = 0
  <2>. DEFINE g == [n \in 1..0 |-> <<>>]
  <2>1. g = [n \in 1..0 |-> Joined(s, g, n)]
    OBVIOUS
  <2>. QED
    BY <1>2, <2>1 DEF Joins
<1>3. CASE k # 0
  <2>1. k \in Nat /\ k - 1 \in Nat
    BY <1>3
  <2>2. k - 1 \notin Bad
    BY <1>1, <2>1
  <2>3. PICK f : Joins(f, s, k - 1)
    BY <2>1, <2>2
  <2>. DEFINE g == [n \in 1..k |-> IF n = k THEN Joined(s, f, k) ELSE f[n]]
  <2>4. \A n \in 1..k - 1 : g[n] = f[n]
    BY <2>1
  <2>5. \A n \in 1..k - 1 : f[n] = Joined(s, f, n)
    BY <2>3 DEF Joins
  <2>6. ASSUME NEW n \in 1..k PROVE g[n] = Joined(s, g, n)
    <3>1. n # 1 => g[n - 1] = f[n - 1]
      BY <2>1, <2>4
    <3>. HIDE DEF g
    <3>2. Joined(s, f, n) = Joined(s, g, n)
      BY <3>1 DEF Joined
    <3>3. g[n] = Joined(s, f, n)
      BY <2>1, <2>4, <2>5 DEF g
    <3>. QED
      BY <3>2, <3>3
  <2>7. g = [n \in 1..k |-> Joined(s, g, n)]
    <3>1. g = [n \in 1..k |-> g[n]]
      OBVIOUS
    <3>. HIDE DEF g
    <3>. QED
      BY <2>6, <3>1
  <2>. QED
    BY <2>7 DEF Joins
<1>. QED
  BY <1>2, <1>3

LEMMA JoinsAgree ==
    ASSUME NEW s, NEW t, NEW f, NEW g, NEW m \in Nat, NEW k \in Nat, m <= k, m # 0,
           Joins(f, s, m), Joins(g, t, k), \A i \in 1..m : s[i] = t[i]
    PROVE  f[m] = g[m]
<1>. DEFINE Bad == {n \in 1..m : f[n] # g[n]}
<1>. SUFFICES ASSUME Bad # {} PROVE FALSE
  OBVIOUS
<1>0. Bad \subseteq Nat
  OBVIOUS
<1>. HIDE DEF Bad
<1>1. PICK n \in Bad : \A j \in Bad : n <= j
  BY <1>0, LeastNatural
<1>. USE DEF Bad
<1>2. /\ n \in 1..m /\ n \in 1..k /\ f[n] # g[n]
      /\ n # 1 => n - 1 \in 1..m /\ n - 1 \notin Bad
  BY <1>1
<1>3. (n # 1 => f[n - 1] = g[n - 1]) /\ s[n] = t[n]
  BY <1>2
<1>4. f[n] = Joined(s, f, n) /\ g[n] = Joined(t, g, n)
  BY <1>2 DEF Joins
<1>. QED
  BY <1>2, <1>3, <1>4 DEF Joined

LEMMA FlattenJoins ==
    ASSUME NEW s, Len(s) \in Nat, Len(s) # 0
    PROVE  \E f : Joins(f, s, Len(s)) /\ FlattenSeq(s) = f[Len(s)]
<1>. DEFINE f == CHOOSE f : Joins(f, s, Len(s))
<1>1. Joins(f, s, Len(s))
  BY JoinsExists
<1>2. (CHOOSE g : g = [i \in 1..Len(s) |-> IF i = 1 THEN s[i] ELSE g[i - 1] \o s[i]]) = f
  <2>1. \A g : Joins(g, s, Len(s)) <=> g = [i \in 1..Len(s) |-> IF i = 1 THEN s[i] ELSE g[i - 1] \o s[i]]
    BY DEF Joins, Joined
  <2>. QED
    BY <2>1, ZenonT(60)
<1>3. FlattenSeq(s) = f[Len(s)]
  BY <1>2 DEF FlattenSeq
<1>. QED
  BY <1>1, <1>3

LEMMA FlattenEmpty ==
    ASSUME NEW s, Len(s) = 0
    PROVE  FlattenSeq(s) = s
  BY DEF FlattenSeq

LEMMA FlattenAppend ==
    ASSUME NEW S, NEW s \in Seq(Seq(S)), NEW x \in Seq(S)
    PROVE  FlattenSeq(Append(s, x)) = FlattenSeq(s) \o x
<1>. DEFINE t == Append(s, x)
            n == Len(s) + 1
<1>1. /\ Len(s) \in Nat /\ n \in Nat /\ Len(t) = n /\ t[n] = x /\ n # 0 /\ n - 1 = Len(s)
      /\ Len(s) <= n /\ \A i \in 1..Len(s) : s[i] = t[i]
  BY AppendProperties, LenProperties
<1>. HIDE DEF t, n
<1>2. PICK g : Joins(g, t, n) /\ FlattenSeq(t) = g[n]
  BY <1>1, FlattenJoins
<1>3. n \in 1..n
  BY <1>1
<1>4. g[n] = Joined(t, g, n)
  BY <1>2, <1>3 DEF Joins
<1>5. CASE Len(s) = 0
  <2>1. s = <<>> /\ FlattenSeq(s) = <<>> /\ n = 1
    BY <1>1, <1>5, EmptySeq, FlattenEmpty
  <2>2. g[n] = x
    BY <1>1, <1>4, <2>1 DEF Joined
  <2>3. <<>> \o x = x
    OBVIOUS
  <2>. QED
    BY <1>2, <2>1, <2>2, <2>3 DEF t
<1>6. CASE Len(s) # 0
  <2>1. PICK f : Joins(f, s, Len(s)) /\ FlattenSeq(s) = f[Len(s)]
    BY <1>1, <1>6, FlattenJoins
  <2>2. f[Len(s)] = g[Len(s)]
    BY <1>1, <1>2, <1>6, <2>1, JoinsAgree
  <2>3. n # 1
    BY <1>1, <1>6
  <2>4. Joined(t, g, n) = g[Len(s)] \o x
    BY <1>1, <2>3 DEF Joined
  <2>. QED
    BY <1>2, <1>4, <2>1, <2>2, <2>4 DEF t
<1>. QED
  BY <1>5, <1>6

\* The first n items of a sequence; one more of them is appended.
Firsts(s, n) == [i \in 1..n |-> s[i]]

LEMMA FirstsAppend ==
    ASSUME NEW X, NEW s \in Seq(X), NEW n \in Nat, n < Len(s)
    PROVE  /\ Firsts(s, n) \in Seq(X) /\ s[n + 1] \in X
           /\ Firsts(s, n + 1) = Append(Firsts(s, n), s[n + 1])
<1>1. Len(s) \in Nat /\ \A i \in 1..Len(s) : s[i] \in X
  BY LenProperties, ElementOfSeq
<1>2. /\ \A i \in 1..n : i \in 1..Len(s) /\ i \in 1..n + 1
      /\ n + 1 \in 1..Len(s) /\ n + 1 \in Nat
      /\ \A i \in 1..n + 1 : i \in 1..Len(s) /\ (i \in 1..n \/ i = n + 1)
  BY <1>1
<1>3. Firsts(s, n) \in [1..n -> X] /\ Firsts(s, n + 1) \in [1..n + 1 -> X]
  BY <1>1, <1>2 DEF Firsts
<1>4. /\ Firsts(s, n) \in Seq(X) /\ Len(Firsts(s, n)) = n
      /\ Firsts(s, n + 1) \in Seq(X) /\ Len(Firsts(s, n + 1)) = n + 1
  BY <1>2, <1>3, LenProperties
<1>. DEFINE a == Append(Firsts(s, n), s[n + 1])
<1>5. /\ s[n + 1] \in X /\ a \in Seq(X) /\ Len(a) = n + 1
      /\ a[n + 1] = s[n + 1] /\ \A i \in 1..n : a[i] = Firsts(s, n)[i]
  BY <1>1, <1>2, <1>4, AppendProperties
<1>. HIDE DEF a
<1>6. ASSUME NEW i \in 1..n + 1 PROVE Firsts(s, n + 1)[i] = a[i]
  BY <1>2, <1>5 DEF Firsts
<1>7. Firsts(s, n + 1) = a
  BY <1>4, <1>5, <1>6, SeqEqual
<1>. QED
  BY <1>4, <1>5, <1>7 DEF a

LEMMA FirstsAll ==
    ASSUME NEW X, NEW s \in Seq(X)
    PROVE  Firsts(s, Len(s)) = s
<1>1. s = [i \in 1..Len(s) |-> s[i]]
  OBVIOUS
<1>. QED
  BY <1>1 DEF Firsts

LEMMA FlattenType ==
    ASSUME NEW S, NEW s \in Seq(Seq(S))
    PROVE  FlattenSeq(s) \in Seq(S)
<1>. DEFINE Bad == {n \in 0..Len(s) : FlattenSeq(Firsts(s, n)) \notin Seq(S)}
<1>1. Len(s) \in Nat
  BY LenProperties
<1>2. SUFFICES Bad = {}
  <2>1. Len(s) \in 0..Len(s)
    BY <1>1
  <2>. QED
    BY <1>2, <2>1, FirstsAll
<1>. SUFFICES ASSUME Bad # {} PROVE FALSE
  OBVIOUS
<1>0. Bad \subseteq Nat
  BY <1>1
<1>. HIDE DEF Bad
<1>3. PICK k \in Bad : \A n \in Bad : k <= n
  BY <1>0, LeastNatural
<1>4. k \in 0..Len(s) /\ FlattenSeq(Firsts(s, k)) \notin Seq(S)
  BY <1>3 DEF Bad
<1>5. CASE k = 0
  <2>1. Firsts(s, 0) = <<>>
    BY DEF Firsts
  <2>2. FlattenSeq(<<>>) = <<>>
    BY FlattenEmpty
  <2>3. <<>> \in Seq(S)
    OBVIOUS
  <2>4. Firsts(s, k) = <<>>
    BY <1>5, <2>1
  <2>5. FlattenSeq(Firsts(s, k)) = <<>>
    BY <2>2, <2>4
  <2>. QED
    BY <1>4, <2>3, <2>5
<1>6. CASE k # 0
  <2>. DEFINE n == k - 1
  <2>1. n \in Nat /\ n < Len(s) /\ n + 1 = k /\ n \in 0..Len(s) /\ n < k
    BY <1>1, <1>4, <1>6
  <2>. HIDE DEF n
  <2>2. FlattenSeq(Firsts(s, n)) \in Seq(S)
    <3>1. n \notin Bad
      BY <1>3, <1>4, <2>1
    <3>. QED
      BY <2>1, <3>1 DEF Bad
  <2>3. /\ Firsts(s, n) \in Seq(Seq(S)) /\ s[n + 1] \in Seq(S)
        /\ Firsts(s, n + 1) = Append(Firsts(s, n), s[n + 1])
    BY <2>1, FirstsAppend
  <2>4. FlattenSeq(Firsts(s, k)) = FlattenSeq(Firsts(s, n)) \o s[n + 1]
    BY <2>1, <2>3, FlattenAppend
  <2>. QED
    BY <1>4, <2>2, <2>3, <2>4, ConcatProperties
<1>. QED
  BY <1>5, <1>6

\* What is concatenated first comes first.
Starts(s, t) == Len(s) <= Len(t) /\ \A i \in 1..Len(s) : t[i] = s[i]

LEMMA FlattenStarts ==
    ASSUME NEW S, NEW s \in Seq(Seq(S)), NEW m \in 0..Len(s)
    PROVE  /\ Starts(FlattenSeq(Firsts(s, m)), FlattenSeq(s))
           /\ (\A i \in m + 1..Len(s) : s[i] = <<>>) => FlattenSeq(s) = FlattenSeq(Firsts(s, m))
<1>. DEFINE F(n) == FlattenSeq(Firsts(s, n))
            Pads(n) == \A i \in m + 1..n : s[i] = <<>>
            Holds(n) == Starts(F(m), F(n)) /\ (Pads(n) => F(n) = F(m))
            Bad == {n \in m..Len(s) : ~Holds(n)}
<1>1. Len(s) \in Nat /\ m \in Nat
  BY LenProperties
<1>2. \A n \in 0..Len(s) : F(n) \in Seq(S)
  <2>. SUFFICES ASSUME NEW n \in 0..Len(s) PROVE F(n) \in Seq(S)
    OBVIOUS
  <2>1. n \in Nat /\ \A i \in 1..n : i \in 1..Len(s)
    BY <1>1
  <2>2. Firsts(s, n) \in [1..n -> Seq(S)]
    BY <2>1, ElementOfSeq DEF Firsts
  <2>3. Firsts(s, n) \in Seq(Seq(S))
    BY <2>1, <2>2
  <2>. QED
    BY <2>3, FlattenType
<1>3. Holds(m)
  BY <1>1, <1>2, LenProperties DEF Starts
<1>4. ASSUME NEW n \in m..Len(s), n # m, Holds(n - 1) PROVE Holds(n)
  <2>. DEFINE k == n - 1
  <2>1. k \in Nat /\ k < Len(s) /\ k + 1 = n /\ k \in 0..Len(s) /\ k \in m..Len(s) /\ n \in 0..Len(s)
    BY <1>1, <1>4
  <2>2. Pads(n) => Pads(k) /\ s[n] = <<>>
    <3>1. n \in m + 1..n /\ \A i \in m + 1..n - 1 : i \in m + 1..n
      BY <1>1, <1>4
    <3>. QED
      BY <3>1
  <2>3. Holds(k)
    BY <1>4
  <2>. HIDE DEF k
  <2>4. /\ Firsts(s, k) \in Seq(Seq(S)) /\ s[n] \in Seq(S)
        /\ Firsts(s, n) = Append(Firsts(s, k), s[n])
    BY <2>1, FirstsAppend
  <2>5. F(n) = F(k) \o s[n]
    BY <2>4, FlattenAppend
  <2>6. F(k) \in Seq(S) /\ F(m) \in Seq(S)
    BY <1>2, <2>1
  <2>. HIDE DEF F, Pads
  <2>7. Len(F(n)) = Len(F(k)) + Len(s[n]) /\ \A i \in 1..Len(F(k)) : F(n)[i] = F(k)[i]
    BY <2>4, <2>5, <2>6, ConcatProperties, LenProperties
  <2>8. Starts(F(m), F(n))
    <3>1. Len(F(m)) \in Nat /\ Len(F(k)) \in Nat /\ Len(s[n]) \in Nat /\ Starts(F(m), F(k))
      BY <2>3, <2>4, <2>6, LenProperties
    <3>. QED
      BY <2>7, <3>1 DEF Starts
  <2>9. Pads(n) => F(n) = F(m)
    <3>1. F(k) \o <<>> = F(k)
      BY <2>6
    <3>. QED
      BY <2>2, <2>3, <2>5, <3>1
  <2>. QED
    BY <2>8, <2>9
<1>. HIDE DEF Holds
<1>5. Bad = {}
  <2>. SUFFICES ASSUME Bad # {} PROVE FALSE
    OBVIOUS
  <2>1. Bad \subseteq Nat
    BY <1>1
  <2>. HIDE DEF Bad
  <2>2. PICK n \in Bad : \A j \in Bad : n <= j
    BY <2>1, LeastNatural
  <2>3. n \in m..Len(s) /\ ~Holds(n) /\ n # m
    BY <1>3, <2>2 DEF Bad
  <2>4. n - 1 \in m..Len(s) /\ n - 1 < n
    BY <1>1, <2>3
  <2>5. n - 1 \notin Bad
    BY <2>1, <2>2, <2>4
  <2>6. Holds(n - 1)
    BY <2>4, <2>5 DEF Bad
  <2>. QED
    BY <1>4, <2>3, <2>6
<1>6. Holds(Len(s))
  BY <1>1, <1>5
<1>7. F(Len(s)) = FlattenSeq(s)
  BY FirstsAll
<1>. HIDE DEF F
<1>8. Starts(F(m), FlattenSeq(s)) /\ (Pads(Len(s)) => FlattenSeq(s) = F(m))
  BY <1>6, <1>7 DEF Holds
<1>. QED
  BY <1>8 DEF F

-----------------------------------------------------------------------------
(* A function of the items, concatenated.                                  *)

Mapped(g, s) == FlattenSeq([i \in DOMAIN s |-> g[s[i]]])

LEMMA MappedEmpty ==
    ASSUME NEW g
    PROVE  Mapped(g, <<>>) = <<>>
<1>1. [i \in DOMAIN <<>> |-> g[<<>>[i]]] = <<>>
  OBVIOUS
<1>2. FlattenSeq(<<>>) = <<>>
  BY FlattenEmpty
<1>. QED
  BY <1>1, <1>2 DEF Mapped

LEMMA MappedAppend ==
    ASSUME NEW S, NEW X, NEW g \in [X -> Seq(S)], NEW s \in Seq(X)
    PROVE  /\ Mapped(g, s) \in Seq(S)
           /\ \A x \in X : Mapped(g, Append(s, x)) = Mapped(g, s) \o g[x]
<1>. DEFINE m(t) == [i \in DOMAIN t |-> g[t[i]]]
<1>1. \A t \in Seq(X) : m(t) \in Seq(Seq(S)) /\ Len(m(t)) = Len(t)
  <2>. SUFFICES ASSUME NEW t \in Seq(X) PROVE m(t) \in Seq(Seq(S)) /\ Len(m(t)) = Len(t)
    OBVIOUS
  <2>1. Len(t) \in Nat /\ DOMAIN t = 1..Len(t) /\ \A i \in DOMAIN t : t[i] \in X
    BY LenProperties, ElementOfSeq
  <2>2. m(t) \in [1..Len(t) -> Seq(S)]
    BY <2>1
  <2>. DEFINE f == m(t)
              n == Len(t)
              T == Seq(S)
  <2>3. n \in Nat /\ f \in [1..n -> T]
    BY <2>1, <2>2
  <2>. HIDE DEF f, n, T
  <2>4. f \in Seq(T)
    BY <2>3
  <2>5. Len(f) = n
    BY <2>3, <2>4, LenProperties
  <2>. QED
    BY <2>4, <2>5 DEF f, n, T
<1>2. Mapped(g, s) \in Seq(S)
  BY <1>1, FlattenType DEF Mapped
<1>4. ASSUME NEW x \in X PROVE Mapped(g, Append(s, x)) = Mapped(g, s) \o g[x]
  <2>. DEFINE t == Append(s, x)
              a == Append(m(s), g[x])
  <2>1. /\ t \in Seq(X) /\ Len(t) = Len(s) + 1 /\ t[Len(s) + 1] = x /\ Len(s) \in Nat
        /\ \A i \in 1..Len(s) : t[i] = s[i]
        /\ DOMAIN s = 1..Len(s) /\ DOMAIN t = 1..Len(s) + 1
    BY AppendProperties, LenProperties
  <2>. HIDE DEF t
  <2>2. \A i \in 1..Len(s) + 1 : m(t)[i] = IF i \in 1..Len(s) THEN m(s)[i] ELSE g[x]
    BY <2>1
  <2>3. m(s) \in Seq(Seq(S)) /\ m(t) \in Seq(Seq(S)) /\ Len(m(s)) = Len(s) /\ Len(m(t)) = Len(s) + 1
    BY <1>1, <2>1
  <2>. HIDE DEF m
  <2>4. a \in Seq(Seq(S)) /\ Len(a) = Len(s) + 1 /\ \A i \in 1..Len(s) + 1 : a[i] = m(t)[i]
    BY <2>1, <2>2, <2>3, AppendProperties, SMTT(30)
  <2>5. m(t) = a
    BY <2>3, <2>4, SeqEqual
  <2>6. FlattenSeq(a) = FlattenSeq(m(s)) \o g[x]
    BY <2>3, FlattenAppend
  <2>. QED
    BY <2>5, <2>6 DEF Mapped, m, t
<1>. QED
  BY <1>2, <1>4

-----------------------------------------------------------------------------
(* Keeping some of the items of a sequence.                                 *)

\* e enumerates the indices of I in their order.
Enumerates(e, I) ==
    /\ e \in Seq(I)
    /\ \A k, l \in 1..Len(e) : k < l => e[k] < e[l]
    /\ \A i \in I : \E k \in 1..Len(e) : e[k] = i

\* Of the first m items those at the indices of I.
Sifted(x, I, m) == FlattenSeq([i \in 1..m |-> IF i \in I THEN <<x[i]>> ELSE <<>>])

\* Concatenating none or one of each leaves the ones there are, in their order.
LEMMA SiftedItems ==
    ASSUME NEW x, NEW I, NEW n \in Nat, I \subseteq 1..n
    PROVE  \E e : Enumerates(e, I) /\ Sifted(x, I, n) = [k \in 1..Len(e) |-> x[e[k]]]
<1>. DEFINE X == {x[i] : i \in 1..n}
            one(i) == IF i \in I THEN <<x[i]>> ELSE <<>>
            s == [i \in 1..n |-> one(i)]
            Upto(m) == I \cap (1..m)
            Good(m) == \E e : Enumerates(e, Upto(m)) /\ FlattenSeq(Firsts(s, m)) = [k \in 1..Len(e) |-> x[e[k]]]
            S == {m \in 0..n : Good(m)}
<1>1. \A i \in 1..n : one(i) \in Seq(X)
  <2>. SUFFICES ASSUME NEW i \in 1..n PROVE one(i) \in Seq(X)
    OBVIOUS
  <2>1. x[i] \in X
    OBVIOUS
  <2>. HIDE DEF X
  <2>2. <<x[i]>> \in Seq(X) /\ <<>> \in Seq(X)
    BY <2>1
  <2>. QED
    BY <2>2
<1>2. s \in Seq(Seq(X)) /\ Len(s) = n /\ \A i \in 1..n : s[i] = one(i)
  <2>. DEFINE T == Seq(X)
  <2>1. s \in [1..n -> T] /\ \A i \in 1..n : s[i] = one(i)
    BY <1>1
  <2>. HIDE DEF T, s, one
  <2>. QED
    BY <2>1, LenProperties DEF T
<1>. HIDE DEF s
<1>3. Good(0)
  <2>1. FlattenSeq(Firsts(s, 0)) = <<>>
    <3>1. Firsts(s, 0) = <<>> /\ Len(<<>>) = 0
      BY DEF Firsts
    <3>. QED
      BY <3>1, FlattenEmpty
  <2>2. Enumerates(<<>>, Upto(0)) /\ <<>> = [k \in 1..Len(<<>>) |-> x[<<>>[k]]]
    BY DEF Enumerates
  <2>. QED
    BY <2>1, <2>2
<1>4. ASSUME NEW m \in 1..n, Good(m - 1) PROVE Good(m)
  <2>. DEFINE h == m - 1
  <2>1. h \in Nat /\ h < n /\ h + 1 = m
    OBVIOUS
  <2>2. PICK e : Enumerates(e, Upto(h)) /\ FlattenSeq(Firsts(s, h)) = [k \in 1..Len(e) |-> x[e[k]]]
    BY <1>4
  <2>. HIDE DEF h
  <2>3. /\ Firsts(s, h) \in Seq(Seq(X)) /\ s[m] \in Seq(X)
        /\ Firsts(s, m) = Append(Firsts(s, h), s[m])
    BY <1>2, <2>1, FirstsAppend
  <2>4. FlattenSeq(Firsts(s, m)) = FlattenSeq(Firsts(s, h)) \o s[m]
    BY <2>3, FlattenAppend
  <2>5. e \in Seq(Upto(h)) /\ Len(e) \in Nat
    BY <2>2, LenProperties DEF Enumerates
  <2>6. CASE m \notin I
    <3>1. Upto(m) = Upto(h)
      BY <2>1, <2>6
    <3>2. FlattenSeq(Firsts(s, h)) \o <<>> = FlattenSeq(Firsts(s, h))
      <4>1. FlattenSeq(Firsts(s, h)) \in Seq(X)
        BY <2>3, FlattenType
      <4>. QED
        BY <4>1
    <3>3. s[m] = <<>>
      BY <1>2, <2>6
    <3>. QED
      BY <2>2, <2>4, <3>1, <3>2, <3>3
  <2>7. CASE m \in I
    <3>. DEFINE d == Append(e, m)
                K == Len(e)
                old == [k \in 1..K |-> x[e[k]]]
    <3>1. s[m] = <<x[m]>>
      BY <1>2, <2>7
    <3>2. e \in Seq(Upto(m)) /\ m \in Upto(m)
      BY <2>1, <2>5, <2>7
    <3>3. /\ d \in Seq(Upto(m)) /\ Len(d) = K + 1 /\ d[K + 1] = m /\ K \in Nat
          /\ \A k \in 1..K : d[k] = e[k] /\ e[k] \in Upto(h)
      BY <2>5, <3>2, AppendProperties, ElementOfSeq
    <3>. HIDE DEF d, K
    <3>4. Enumerates(d, Upto(m))
      <4>1. \A k, l \in 1..K + 1 : k < l => d[k] < d[l]
        <5>. SUFFICES ASSUME NEW k \in 1..K + 1, NEW l \in 1..K + 1, k < l PROVE d[k] < d[l]
          OBVIOUS
        <5>1. k \in 1..K /\ d[k] = e[k] /\ e[k] \in 1..h
          BY <3>3
        <5>2. CASE l = K + 1
          BY <2>1, <3>3, <5>1, <5>2
        <5>3. CASE l \in 1..K
          <6>1. e[k] < e[l]
            BY <2>2, <5>1, <5>3 DEF Enumerates, K
          <6>. QED
            BY <3>3, <5>1, <5>3, <6>1
        <5>. QED
          BY <3>3, <5>2, <5>3
      <4>2. \A i \in Upto(m) : \E k \in 1..K + 1 : d[k] = i
        <5>. SUFFICES ASSUME NEW i \in Upto(m) PROVE \E k \in 1..K + 1 : d[k] = i
          OBVIOUS
        <5>1. CASE i = m
          BY <3>3, <5>1
        <5>2. CASE i # m
          <6>1. i \in Upto(h)
            BY <2>1, <5>2
          <6>2. PICK k \in 1..K : e[k] = i
            BY <2>2, <6>1 DEF Enumerates, K
          <6>. QED
            BY <3>3, <6>2
        <5>. QED
          BY <5>1, <5>2
      <4>. QED
        BY <3>3, <4>1, <4>2 DEF Enumerates
    <3>5. old \o <<x[m]>> = [k \in 1..Len(d) |-> x[d[k]]]
      <4>1. old \in Seq(X) /\ Len(old) = K /\ <<x[m]>> \in Seq(X) /\ Len(<<x[m]>>) = 1
        <5>1. \A k \in 1..K : e[k] \in 1..n
          BY <2>1, <3>3
        <5>2. old \in [1..K -> X]
          BY <5>1
        <5>3. x[m] \in X
          OBVIOUS
        <5>. HIDE DEF X, old
        <5>4. old \in Seq(X) /\ Len(old) = K
          BY <3>3, <5>2, LenProperties
        <5>. QED
          BY <5>3, <5>4
      <4>. DEFINE a == old \o <<x[m]>>
                  b == [k \in 1..Len(d) |-> x[d[k]]]
      <4>2. /\ a \in Seq(X) /\ Len(a) = K + 1 /\ a[K + 1] = x[m]
            /\ \A k \in 1..K : a[k] = old[k] /\ old[k] = x[e[k]]
        BY <3>3, <4>1, ConcatProperties
      <4>. HIDE DEF a
      <4>3. a = [k \in 1..K + 1 |-> a[k]]
        <5>1. a = [k \in 1..Len(a) |-> a[k]]
          BY <4>2
        <5>. QED
          BY <4>2, <5>1
      <4>. HIDE DEF old
      <4>4. ASSUME NEW k \in 1..K + 1 PROVE a[k] = x[d[k]]
        <5>1. k \in 1..K \/ k = K + 1
          BY <3>3
        <5>. QED
          BY <3>3, <4>2, <5>1
      <4>. QED
        BY <3>3, <4>3, <4>4 DEF a
    <3>. QED
      BY <2>2, <2>4, <3>1, <3>4, <3>5, ZenonT(60) DEF K
  <2>. QED
    BY <2>6, <2>7
<1>. HIDE DEF Good
<1>5. Good(n)
  <2>1. 0 \in S /\ \A m \in 1..n : m - 1 \in S => m \in S
    BY <1>3, <1>4
  <2>. HIDE DEF S
  <2>2. n \in S
    BY <2>1, Upwards
  <2>. QED
    BY <2>2 DEF S
<1>6. Upto(n) = I /\ Firsts(s, n) = s
  BY <1>2, FirstsAll
<1>7. Sifted(x, I, n) = FlattenSeq(s)
  BY DEF Sifted, s
<1>8. PICK e : Enumerates(e, Upto(n)) /\ FlattenSeq(Firsts(s, n)) = [k \in 1..Len(e) |-> x[e[k]]]
  BY <1>5 DEF Good
<1>. HIDE DEF Upto
<1>. QED
  BY <1>6, <1>7, <1>8

\* t is what is left of s at the indices I, and e says where it was.
Picks(e, t, s, I) ==
    /\ \A k \in DOMAIN t : e[k] \in I /\ t[k] = s[e[k]]
    /\ \A k, l \in DOMAIN t : (k < l => e[k] < e[l]) /\ (e[k] = e[l] => k = l)
    /\ \A i \in I : \E k \in DOMAIN t : e[k] = i

LEMMA Picked ==
    ASSUME NEW X, NEW s \in Seq(X), NEW I, I \subseteq DOMAIN s
    PROVE  /\ Sifted(s, I, Len(s)) \in Seq(X)
           /\ \E e : Picks(e, Sifted(s, I, Len(s)), s, I)
<1>. DEFINE t == Sifted(s, I, Len(s))
<1>1. Len(s) \in Nat /\ DOMAIN s = 1..Len(s) /\ \A i \in DOMAIN s : s[i] \in X
  BY LenProperties, ElementOfSeq
<1>2. PICK e : Enumerates(e, I) /\ t = [k \in 1..Len(e) |-> s[e[k]]]
  BY <1>1, SiftedItems
<1>. HIDE DEF t
<1>. DEFINE n == Len(e)
<1>3. e \in Seq(I) /\ n \in Nat /\ \A k \in 1..n : e[k] \in I
  <2>1. e \in Seq(I)
    BY <1>2 DEF Enumerates
  <2>. QED
    BY <2>1, LenProperties, ElementOfSeq
<1>4. /\ \A k, l \in 1..n : k < l => e[k] < e[l]
      /\ \A i \in I : \E k \in 1..n : e[k] = i
  BY <1>2 DEF Enumerates
<1>5. t = [k \in 1..n |-> s[e[k]]]
  BY <1>2
<1>. HIDE DEF n
<1>6. t \in [1..n -> X] /\ DOMAIN t = 1..n /\ \A k \in 1..n : t[k] = s[e[k]] /\ e[k] \in Nat
  <2>1. \A k \in 1..n : e[k] \in DOMAIN s
    BY <1>3
  <2>2. \A k \in 1..n : e[k] \in Nat /\ s[e[k]] \in X
    BY <1>1, <2>1
  <2>. QED
    BY <1>5, <2>2
<1>7. t \in Seq(X)
  BY <1>3, <1>6
<1>8. \A k, l \in 1..n : e[k] = e[l] => k = l
  <2>. SUFFICES ASSUME NEW k \in 1..n, NEW l \in 1..n, e[k] = e[l] PROVE k = l
    OBVIOUS
  <2>1. ~(k < l) /\ ~(l < k)
    BY <1>4, <1>6
  <2>. QED
    BY <1>3, <2>1
<1>9. \A k \in DOMAIN t : e[k] \in I /\ t[k] = s[e[k]]
  BY <1>3, <1>6
<1>10. \A k, l \in DOMAIN t : (k < l => e[k] < e[l]) /\ (e[k] = e[l] => k = l)
  BY <1>4, <1>6, <1>8
<1>11. \A i \in I : \E k \in DOMAIN t : e[k] = i
  BY <1>4, <1>6
<1>12. Picks(e, t, s, I)
  BY <1>9, <1>10, <1>11 DEF Picks
<1>. QED
  BY <1>7, <1>12 DEF t

\* The items that pass a test, the test given as the set of their indices.
LEMMA ItemsKept ==
    ASSUME NEW X, NEW s \in Seq(X), NEW I, I \subseteq DOMAIN s
    PROVE  LET t == FlattenSeq([i \in DOMAIN s |-> IF i \in I THEN <<s[i]>> ELSE <<>>]) IN
           t \in Seq(X) /\ \E e : Picks(e, t, s, I)
<1>1. Len(s) \in Nat /\ DOMAIN s = 1..Len(s)
  BY LenProperties
<1>2. [i \in DOMAIN s |-> IF i \in I THEN <<s[i]>> ELSE <<>>] =
      [i \in 1..Len(s) |-> IF i \in I THEN <<s[i]>> ELSE <<>>]
  BY <1>1
<1>3. FlattenSeq([i \in DOMAIN s |-> IF i \in I THEN <<s[i]>> ELSE <<>>]) = Sifted(s, I, Len(s))
  BY <1>2 DEF Sifted
<1>. QED
  BY <1>3, Picked

\* t are the items of the sequences in s, none of which is longer than one.
Gathers(e, t, s) ==
    /\ \A k \in DOMAIN t : e[k] \in DOMAIN s /\ s[e[k]] = <<t[k]>>
    /\ \A k, l \in DOMAIN t : (k < l => e[k] < e[l]) /\ (e[k] = e[l] => k = l)
    /\ \A i \in DOMAIN s : s[i] # <<>> => \E k \in DOMAIN t : e[k] = i

LEMMA Gathered ==
    ASSUME NEW X, NEW n \in Nat, NEW s, s = [i \in 1..n |-> s[i]],
           \A i \in 1..n : s[i] \in Seq(X) /\ (s[i] = <<>> \/ Len(s[i]) = 1)
    PROVE  FlattenSeq(s) \in Seq(X) /\ \E e : Gathers(e, FlattenSeq(s), s)
<1>. DEFINE I == {i \in 1..n : s[i] # <<>>}
            x == [i \in 1..n |-> IF i \in I THEN s[i][1] ELSE <<>>]
            t == Sifted(x, I, n)
<1>1. DOMAIN s = 1..n
  OBVIOUS
<1>2. \A i \in I : i \in 1..n /\ s[i] = <<s[i][1]>> /\ s[i][1] \in X
  <2>. SUFFICES ASSUME NEW i \in I PROVE i \in 1..n /\ s[i] = <<s[i][1]>> /\ s[i][1] \in X
    OBVIOUS
  <2>1. s[i] \in Seq(X) /\ Len(s[i]) = 1
    OBVIOUS
  <2>. QED
    BY <2>1, ElementOfSeq
<1>3. \A i \in 1..n : i \notin I => s[i] = <<>>
  OBVIOUS
<1>4. I \subseteq 1..n
  OBVIOUS
<1>. HIDE DEF I
<1>5. s = [i \in 1..n |-> IF i \in I THEN <<x[i]>> ELSE <<>>]
  <2>1. \A i \in 1..n : s[i] = IF i \in I THEN <<x[i]>> ELSE <<>>
    BY <1>2, <1>3
  <2>. HIDE DEF x
  <2>2. [i \in 1..n |-> s[i]] = [i \in 1..n |-> IF i \in I THEN <<x[i]>> ELSE <<>>]
    BY <2>1
  <2>. QED
    BY <2>2
<1>6. t = FlattenSeq(s)
  BY <1>5 DEF Sifted
<1>7. x \in Seq(X \cup {<<>>}) /\ Len(x) = n /\ DOMAIN x = 1..n /\ \A i \in I : s[i] = <<x[i]>> /\ x[i] \in X
  <2>. DEFINE v(i) == IF i \in I THEN s[i][1] ELSE <<>>
  <2>1. \A i \in 1..n : v(i) \in X \cup {<<>>}
    BY <1>2
  <2>2. \A i \in I : i \in 1..n /\ s[i] = <<v(i)>> /\ v(i) \in X
    BY <1>2
  <2>. HIDE DEF v
  <2>3. x = [i \in 1..n |-> v(i)]
    BY DEF v
  <2>. HIDE DEF x
  <2>4. x \in [1..n -> X \cup {<<>>}] /\ DOMAIN x = 1..n
    BY <2>1, <2>3
  <2>5. \A i \in I : x[i] = v(i)
    BY <2>2, <2>3
  <2>6. x \in Seq(X \cup {<<>>})
    BY <2>4
  <2>7. Len(x) = n
    BY <2>4, <2>6, LenProperties
  <2>. QED
    BY <2>2, <2>4, <2>5, <2>6, <2>7
<1>. HIDE DEF x
<1>8. t \in Seq(X \cup {<<>>}) /\ \E e : Picks(e, t, x, I)
  BY <1>4, <1>7, Picked
<1>. HIDE DEF t
<1>9. PICK e : Picks(e, t, x, I)
  BY <1>8
<1>10. Gathers(e, t, s)
  BY <1>1, <1>3, <1>4, <1>7, <1>9 DEF Picks, Gathers
<1>11. t \in Seq(X)
  <2>1. Len(t) \in Nat /\ DOMAIN t = 1..Len(t)
    BY <1>8, LenProperties
  <2>2. \A k \in DOMAIN t : t[k] \in X
    BY <1>7, <1>9 DEF Picks
  <2>. QED
    BY <1>8, <2>1, <2>2, SeqDef
<1>. QED
  BY <1>6, <1>10, <1>11

\* The largest of a set of numbers up to n.
LEMMA Greatest ==
    ASSUME NEW n \in Nat, NEW S, S \subseteq 0..n, S # {}
    PROVE  Max(S) \in S /\ \A m \in S : m <= Max(S)
<1>. DEFINE T == {n - m : m \in S}
<1>1. T \subseteq Nat /\ T # {}
  <2>1. \A m \in S : n - m \in Nat
    <3>1. \A m \in 0..n : n - m \in Nat
      OBVIOUS
    <3>. QED
      BY <3>1
  <2>. QED
    BY <2>1
<1>2. PICK t \in T : \A u \in T : t <= u
  <2>. HIDE DEF T
  <2>. QED
    BY <1>1, LeastNatural
<1>3. PICK x \in S : t = n - x
  BY <1>2
<1>4. \A m \in S : x >= m
  <2>. SUFFICES ASSUME NEW m \in S PROVE x >= m
    OBVIOUS
  <2>1. n - m \in T
    OBVIOUS
  <2>2. n - x <= n - m
    BY <1>2, <1>3, <2>1
  <2>3. x \in 0..n /\ m \in 0..n
    OBVIOUS
  <2>. QED
    BY <2>2, <2>3
<1>5. Max(S) \in S /\ \A m \in S : Max(S) >= m
  BY <1>4 DEF Max
<1>6. \A m \in S : m \in 0..n
  OBVIOUS
<1>. QED
  BY <1>5, <1>6

\* Where the items of a sequence are when item i is removed.
LEMMA Removed ==
    ASSUME NEW X, NEW s \in Seq(X), NEW i \in 1..Len(s)
    PROVE  LET t == RemoveAt(s, i) IN
           /\ t \in Seq(X) /\ Len(s) \in Nat /\ DOMAIN t = 1..Len(s) - 1
           /\ \A k \in 1..Len(s) - 1 : t[k] = s[IF k < i THEN k ELSE k + 1]
<1>. DEFINE n == Len(s)
            front == SubSeq(s, 1, i - 1)
            back == SubSeq(s, i + 1, n)
            t == RemoveAt(s, i)
<1>1. n \in Nat /\ i \in 1..n /\ \A k \in 1..n : s[k] \in X
  BY LenProperties, ElementOfSeq
<1>2. t = front \o back
  BY DEF RemoveAt
<1>. HIDE DEF n, t
<1>3. front \in Seq(X) /\ Len(front) = i - 1 /\ \A k \in 1..i - 1 : front[k] = s[k]
  <2>1. 1 \in Int /\ i - 1 \in Int /\ (\A k \in 1..i - 1 : s[k] \in X) /\ i - 1 - 1 + 1 = i - 1
    BY <1>1
  <2>2. /\ front \in Seq(X) /\ Len(front) = IF 1 <= i - 1 THEN i - 1 - 1 + 1 ELSE 0
        /\ \A k \in 1..i - 1 - 1 + 1 : front[k] = s[1 + k - 1]
    BY <2>1, SubSeqProperties
  <2>3. \A k \in 1..i - 1 : 1 + k - 1 = k
    OBVIOUS
  <2>. QED
    BY <1>1, <2>1, <2>2, <2>3
<1>4. back \in Seq(X) /\ Len(back) = n - i /\ \A k \in 1..n - i : back[k] = s[i + k]
  <2>1. i + 1 \in Int /\ n \in Int /\ (\A k \in i + 1..n : s[k] \in X) /\ n - (i + 1) + 1 = n - i
    BY <1>1
  <2>2. /\ back \in Seq(X) /\ Len(back) = IF i + 1 <= n THEN n - (i + 1) + 1 ELSE 0
        /\ \A k \in 1..n - (i + 1) + 1 : back[k] = s[i + 1 + k - 1]
    BY <2>1, SubSeqProperties
  <2>3. \A k \in 1..n - i : i + 1 + k - 1 = i + k
    BY <1>1
  <2>. QED
    BY <1>1, <2>1, <2>2, <2>3
<1>. HIDE DEF front, back
<1>5. /\ t \in Seq(X) /\ Len(t) = i - 1 + (n - i)
      /\ \A k \in 1..i - 1 + (n - i) : t[k] = IF k <= i - 1 THEN front[k] ELSE back[k - (i - 1)]
  BY <1>2, <1>3, <1>4, ConcatProperties
<1>6. i - 1 + (n - i) = n - 1
  BY <1>1
<1>7. t \in Seq(X) /\ DOMAIN t = 1..n - 1
  BY <1>5, <1>6, LenProperties
<1>8. ASSUME NEW k \in 1..n - 1 PROVE t[k] = s[IF k < i THEN k ELSE k + 1]
  <2>1. CASE k < i
    <3>1. k <= i - 1 /\ k \in 1..i - 1
      BY <1>1, <2>1
    <3>. QED
      BY <1>3, <1>5, <1>6, <2>1, <3>1
  <2>2. CASE ~(k < i)
    <3>1. ~(k <= i - 1) /\ k - (i - 1) \in 1..n - i /\ i + (k - (i - 1)) = k + 1
      BY <1>1, <2>2
    <3>2. t[k] = back[k - (i - 1)] /\ back[k - (i - 1)] = s[i + (k - (i - 1))]
      BY <1>4, <1>5, <1>6, <3>1
    <3>. QED
      BY <2>2, <3>1, <3>2
  <2>. QED
    BY <2>1, <2>2
<1>. QED
  BY <1>1, <1>7, <1>8 DEF t, n

LEMMA ConcatItems ==
    ASSUME NEW X, NEW s \in Seq(X), NEW t \in Seq(X)
    PROVE  /\ s \o t \in Seq(X) /\ Len(s) \in Nat /\ Len(t) \in Nat
           /\ Len(s \o t) = Len(s) + Len(t) /\ DOMAIN (s \o t) = 1..Len(s) + Len(t)
           /\ \A j \in 1..Len(s) : (s \o t)[j] = s[j]
           /\ \A j \in 1..Len(t) : (s \o t)[Len(s) + j] = t[j]
<1>. DEFINE u == s \o t
            m == Len(s)
            n == Len(t)
<1>1. m \in Nat /\ n \in Nat
  BY LenProperties
<1>2. /\ u \in Seq(X) /\ Len(u) = m + n
      /\ \A i \in 1..m + n : u[i] = IF i <= m THEN s[i] ELSE t[i - m]
  BY ConcatProperties
<1>. HIDE DEF u, m, n
<1>3. DOMAIN u = 1..m + n
  BY <1>2, LenProperties
<1>4. \A j \in 1..m : u[j] = s[j]
  BY <1>1, <1>2
<1>5. ASSUME NEW j \in 1..n PROVE u[m + j] = t[j]
  <2>. DEFINE i == m + j
  <2>1. i \in 1..m + n /\ ~(i <= m) /\ i - m = j
    BY <1>1
  <2>. HIDE DEF i
  <2>2. u[i] = t[i - m]
    BY <1>2, <2>1
  <2>. QED
    BY <2>1, <2>2 DEF i
<1>. QED
  BY <1>1, <1>2, <1>3, <1>4, <1>5 DEF u, m, n

\* Adding a single item by concatenation.
LEMMA ConcatOne ==
    ASSUME NEW X, NEW s \in Seq(X), NEW x \in Seq(X), Len(x) = 1
    PROVE  /\ s \o x \in Seq(X) /\ Len(s) \in Nat /\ Len(s \o x) = Len(s) + 1
           /\ DOMAIN s = 1..Len(s) /\ DOMAIN (s \o x) = 1..Len(s) + 1
           /\ (s \o x)[Len(s) + 1] = x[1]
           /\ \A j \in 1..Len(s) : (s \o x)[j] = s[j]
<1>1. Len(s) \in Nat /\ DOMAIN s = 1..Len(s)
  BY LenProperties
<1>2. s \o x \in Seq(X) /\ Len(s \o x) = Len(s) + 1
  BY <1>1, ConcatProperties
<1>3. DOMAIN (s \o x) = 1..Len(s) + 1
  BY <1>2, LenProperties
<1>4. \A j \in 1..Len(s) + 1 : (s \o x)[j] = IF j <= Len(s) THEN s[j] ELSE x[j - Len(s)]
  BY <1>1, ConcatProperties
<1>5. (s \o x)[Len(s) + 1] = x[1]
  <2>. DEFINE n == Len(s)
              m == n + 1
  <2>1. m \in 1..m /\ ~(m <= n) /\ m - n = 1
    BY <1>1
  <2>2. \A j \in 1..m : (s \o x)[j] = IF j <= n THEN s[j] ELSE x[j - n]
    BY <1>4
  <2>. HIDE DEF m, n
  <2>3. (s \o x)[m] = x[m - n]
    BY <2>1, <2>2
  <2>4. (s \o x)[m] = x[1]
    BY <2>1, <2>3
  <2>. QED
    BY <2>4 DEF m, n
<1>6. \A j \in 1..Len(s) : (s \o x)[j] = s[j]
  BY <1>1, <1>4
<1>. QED
  BY <1>1, <1>2, <1>3, <1>5, <1>6

-----------------------------------------------------------------------------
(* Folding a sequence.  FoldLeft goes over the set of the indices: the      *)
(* largest is taken last.                                                   *)

LEMMA Topmost ==
    ASSUME NEW m \in Nat \ {0}, NEW S \in SUBSET (1..m)
    PROVE  /\ m \in S => /\ S # {} /\ Max(S) = m
                         /\ S \ {m} \in SUBSET (1..m) /\ S \ {m} \in SUBSET (1..m - 1)
           /\ m \notin S => /\ S \in SUBSET (1..m - 1)
                            /\ S # {} => /\ m \notin S \ {Max(S)} /\ S \ {Max(S)} \in SUBSET (1..m)
                                         /\ S \ {Max(S)} \in SUBSET (1..m - 1)
<1>1. CASE m \in S
  <2>1. m \in S /\ \A x \in S : m >= x
    BY <1>1
  <2>2. \A x \in S : (\A y \in S : x >= y) => x = m
    BY <1>1
  <2>3. Max(S) = m
    BY <2>1, <2>2 DEF Max
  <2>. QED
    BY <1>1, <2>3
<1>2. CASE m \notin S
  <2>1. \A x \in S : x \in 1..m - 1
    BY <1>2
  <2>. QED
    BY <1>2, <2>1
<1>. QED
  BY <1>1, <1>2

LEMMA PrefixMax ==
    ASSUME NEW n \in Nat, NEW k \in 1..n
    PROVE  /\ 1..k # {} /\ Max(1..k) = k /\ (1..k) \ {k} = 1..k - 1
           /\ 1..k \in SUBSET (1..n) /\ 1..k - 1 \in SUBSET (1..n)
<1>1. k \in 1..k /\ 1..k \in SUBSET (1..k) /\ k \in Nat \ {0}
  OBVIOUS
<1>2. Max(1..k) = k
  BY <1>1, Topmost
<1>3. (1..k) \ {k} = 1..k - 1 /\ 1..k # {} /\ 1..k \subseteq 1..n /\ 1..k - 1 \subseteq 1..n
  OBVIOUS
<1>. QED
  BY <1>2, <1>3

LEMMA SeqSubset ==
    ASSUME NEW X, NEW Y, X \subseteq Y, NEW s \in Seq(X)
    PROVE  s \in Seq(Y)
<1>1. Len(s) \in Nat /\ DOMAIN s = 1..Len(s) /\ \A i \in 1..Len(s) : s[i] \in X
  BY LenProperties, ElementOfSeq
<1>2. \A i \in DOMAIN s : s[i] \in Y
  BY <1>1
<1>. QED
  BY <1>1, <1>2, SeqDef

\* What the first k sets of a sequence hold together.
Before(c, k) == UNION {c[j] : j \in 1..k}

LEMMA BeforeHas == \A c, k, id : id \in Before(c, k) <=> \E j \in 1..k : id \in c[j]
  BY DEF Before

LEMMA BeforeNone == \A c : Before(c, 0) = {}
<1>1. 1..0 = {}
  OBVIOUS
<1>. QED
  BY <1>1 DEF Before

LEMMA BeforeNext ==
    ASSUME NEW c, NEW k \in Nat \ {0}
    PROVE  Before(c, k) = Before(c, k - 1) \cup c[k]
<1>1. 1..k = (1..k - 1) \cup {k}
  OBVIOUS
<1>. DEFINE I == 1..k - 1
            J == 1..k
<1>2. J = I \cup {k}
  BY <1>1
<1>. HIDE DEF I, J
<1>3. UNION {c[j] : j \in J} = (UNION {c[j] : j \in I}) \cup c[k]
  BY <1>2
<1>. QED
  BY <1>3 DEF Before, I, J
=============================================================================
