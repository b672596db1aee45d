--------------------------- MODULE SequenceLemmas ---------------------------
(***************************************************************************)
(* What the proofs about bytes share: induction over the numbers up to a   *)
(* bound, stated for sets as the provers need it; concatenation, parts of  *)
(* sequences, and FlattenSeq.                                              *)
(***************************************************************************)
EXTENDS Integers, Sequences, SequencesExt, SequenceTheorems, WellFoundedInduction, TLAPS

\* Induction.  The provers take a set where the library has a predicate.
LEMMA LeastOf ==
    ASSUME NEW T \in SUBSET Nat, T # {}
    PROVE  \E m \in T : \A k \in T : m <= k
  <1>. DEFINE R == {p \in Nat \X Nat : p[1] < p[2]}
  <1>1. IsWellFoundedOn(R, Nat)
    BY NatLessThanWellFounded DEF OpToRel
  <1>2. ASSUME NEW x \in Nat, NEW y \in Nat, y < x PROVE <<y, x>> \in R
    BY <1>2
  <1>. HIDE DEF R
  <1>3. PICK x \in T : \A y \in T : ~(<<y, x>> \in R)
    BY <1>1, WFMin
  <1>4. \A y \in T : ~(y < x)
    BY <1>2, <1>3
  <1>5. \A y \in T : x <= y
    BY <1>4
  <1>. QED
    BY <1>5

LEMMA UpTheNumbers ==
    ASSUME NEW N \in Nat, NEW T, 0 \in T, \A n \in 1 .. N : n - 1 \in T => n \in T
    PROVE  \A n \in 0 .. N : n \in T
  <1>. DEFINE Left == {n \in 0 .. N : n \notin T}
  <1>1. ASSUME Left # {} PROVE FALSE
    <2>1. PICK m \in Left : \A k \in Left : m <= k
      <3>1. Left \in SUBSET Nat
        OBVIOUS
      <3>. HIDE DEF Left
      <3>. QED
        BY <1>1, <3>1, LeastOf
    <2>2. m \in 1 .. N /\ m - 1 \in 0 .. N
      OBVIOUS
    <2>3. m - 1 \in T
      BY <2>1, <2>2
    <2>. QED
      BY <2>2, <2>3
  <1>. QED
    BY <1>1

\* A recursive function over 0 .. N, whose value at n follows from n and the value before,
\* exists and has values in A.
Iterates(g, a, e, N) == g[0] = a /\ \A n \in 1 .. N : g[n] = e[<<g[n - 1], n>>]

Steps(A, N) == [A \X (1 .. N) -> A]

Traces(A, N) == [0 .. N -> A]

LEMMA Iterated ==
    ASSUME NEW A, NEW a \in A, NEW N \in Nat, NEW e \in Steps(A, N)
    PROVE  \E g \in Traces(A, N) : Iterates(g, a, e, N)
  <1>. DEFINE T == {k \in 0 .. N : \E g \in Traces(A, k) : Iterates(g, a, e, k)}
  <1>1. 0 \in T
    <2>. DEFINE h == [n \in 0 .. 0 |-> a]
    <2>1. h \in Traces(A, 0) /\ Iterates(h, a, e, 0) /\ 0 \in 0 .. N
      BY DEF Traces, Iterates
    <2>. HIDE DEF h
    <2>. QED
      BY <2>1
  <1>2. ASSUME NEW k \in 1 .. N, k - 1 \in T PROVE k \in T
    <2>1. PICK g \in Traces(A, k - 1) : Iterates(g, a, e, k - 1)
      BY <1>2
    <2>. DEFINE h == [n \in 0 .. k |-> IF n = k THEN e[<<g[k - 1], k>>] ELSE g[n]]
    <2>2. h \in Traces(A, k)
      <3>1. g[k - 1] \in A
        BY <2>1 DEF Traces
      <3>2. e[<<g[k - 1], k>>] \in A
        BY <3>1 DEF Steps
      <3>3. \A n \in 0 .. k : n # k => g[n] \in A
        BY <2>1 DEF Traces
      <3>. QED
        BY <3>2, <3>3 DEF Traces
    <2>3. Iterates(h, a, e, k)
      <3>1. h[0] = a
        BY <2>1 DEF Iterates
      <3>2. ASSUME NEW n \in 1 .. k PROVE h[n] = e[<<h[n - 1], n>>]
        <4>1. h[n - 1] = g[n - 1]
          OBVIOUS
        <4>2. CASE n = k
          BY <4>1, <4>2
        <4>3. CASE n # k
          <5>1. n \in 1 .. k - 1 /\ h[n] = g[n]
            BY <4>3
          <5>. QED
            BY <2>1, <4>1, <5>1 DEF Iterates
        <4>. QED
          BY <4>2, <4>3
      <3>. QED
        BY <3>1, <3>2 DEF Iterates
    <2>. HIDE DEF h
    <2>. QED
      BY <2>2, <2>3
  <1>3. N \in T
    <2>. HIDE DEF T
    <2>. QED
      BY <1>1, <1>2, UpTheNumbers
  <1>. QED
    BY <1>3

\* Two such functions are the same.
Alike(f, g, N) ==
    /\ f = [n \in 0 .. N |-> f[n]] /\ g = [n \in 0 .. N |-> g[n]] /\ f[0] = g[0]
    /\ \A n \in 1 .. N : f[n - 1] = g[n - 1] => f[n] = g[n]

LEMMA SameTrace == ASSUME NEW N \in Nat, NEW f, NEW g, Alike(f, g, N) PROVE f = g
  <1>. DEFINE T == {n \in 0 .. N : f[n] = g[n]}
  <1>1. 0 \in T /\ \A n \in 1 .. N : n - 1 \in T => n \in T
    <2>1. f[0] = g[0] /\ \A n \in 1 .. N : f[n - 1] = g[n - 1] => f[n] = g[n]
      BY Zenon DEF Alike
    <2>2. 0 \in 0 .. N /\ \A n \in 1 .. N : n \in 0 .. N
      OBVIOUS
    <2>3. \A n : n \in T <=> n \in 0 .. N /\ f[n] = g[n]
      BY Zenon
    <2>. HIDE DEF T
    <2>. QED
      BY <2>1, <2>2, <2>3
  <1>2. \A n \in 0 .. N : n \in T
    <2>. HIDE DEF T
    <2>. QED
      BY <1>1, UpTheNumbers
  <1>. QED
    BY <1>2 DEF Alike

-----------------------------------------------------------------------------
\* Concatenation and Append under names into which the provers do not look, so that they
\* can put sequences into the lemmas.
Cat(s, t) == s \o t

Add(s, u) == Append(s, u)

LEMMA CatType ==
    ASSUME NEW S, NEW s \in Seq(S), NEW t \in Seq(S)
    PROVE  Cat(s, t) \in Seq(S)
BY ConcatProperties DEF Cat

LEMMA AddType ==
    ASSUME NEW S, NEW s \in Seq(S), NEW u \in S
    PROVE  Add(s, u) \in Seq(S) /\ Len(Add(s, u)) = Len(s) + 1
BY AppendProperties DEF Add

LEMMA CatNone ==
    ASSUME NEW S, NEW s \in Seq(S)
    PROVE  Cat(s, << >>) = s /\ Cat(<< >>, s) = s
BY ConcatEmptySeq DEF Cat

LEMMA CatAssociates ==
    ASSUME NEW S, NEW r \in Seq(S), NEW s \in Seq(S), NEW t \in Seq(S)
    PROVE  Cat(Cat(r, s), t) = Cat(r, Cat(s, t))
BY ConcatAssociative DEF Cat

LEMMA AddBehind ==
    ASSUME NEW S, NEW s \in Seq(S), NEW t \in Seq(S), NEW u \in S
    PROVE  Add(Cat(s, t), u) = Cat(s, Add(t, u))
  <1>1. s \o t \in Seq(S) /\ <<u>> \in Seq(S)
    BY ConcatProperties
  <1>2. Append(s \o t, u) = (s \o t) \o <<u>> /\ Append(t, u) = t \o <<u>>
    BY <1>1, AppendIsConcat
  <1>3. (s \o t) \o <<u>> = s \o (t \o <<u>>)
    BY <1>1, ConcatAssociative
  <1>4. Append(s \o t, u) = s \o Append(t, u)
    BY <1>2, <1>3
  <1>. QED
    BY <1>4, Zenon DEF Cat, Add

LEMMA LastAdded ==
    ASSUME NEW S, NEW s \in Seq(S), s # << >>
    PROVE  \E t \in Seq(S), u \in S : s = Add(t, u)
BY SequenceEmptyOrAppend DEF Add

\* Concatenation, element by element.
Joined(r, s, t) ==
    /\ Len(r) = Len(s) + Len(t)
    /\ \A i \in 1 .. Len(s) : r[i] = s[i]
    /\ \A i \in 1 .. Len(t) : r[Len(s) + i] = t[i]
    /\ \A i \in 1 .. Len(r) :
          i \in 1 .. Len(s) \/ (i - Len(s) \in 1 .. Len(t) /\ i = Len(s) + (i - Len(s)))

LEMMA BothAre ==
    ASSUME NEW S, NEW s \in Seq(S), NEW t \in Seq(S)
    PROVE  Cat(s, t) \in Seq(S) /\ Joined(Cat(s, t), s, t)
  <1>. DEFINE r == s \o t
  <1>1. /\ r \in Seq(S) /\ Len(r) = Len(s) + Len(t) /\ Len(s) \in Nat /\ Len(t) \in Nat
        /\ \A i \in 1 .. Len(s) + Len(t) : r[i] = IF i <= Len(s) THEN s[i] ELSE t[i - Len(s)]
    BY ConcatProperties
  <1>. HIDE DEF r
  <1>2. \A i \in 1 .. Len(s) : r[i] = s[i]
    BY <1>1
  <1>3. \A i \in 1 .. Len(t) : r[Len(s) + i] = t[i]
    <2>1. ASSUME NEW i \in 1 .. Len(t) PROVE r[Len(s) + i] = t[i]
      <3>1. Len(s) + i \in 1 .. Len(s) + Len(t) /\ ~(Len(s) + i <= Len(s))
            /\ (Len(s) + i) - Len(s) = i
        BY <1>1
      <3>. QED
        BY <1>1, <3>1
    <2>. QED
      BY <2>1
  <1>4. \A i \in 1 .. Len(r) :
           i \in 1 .. Len(s) \/ (i - Len(s) \in 1 .. Len(t) /\ i = Len(s) + (i - Len(s)))
    BY <1>1
  <1>. QED
    BY <1>1, <1>2, <1>3, <1>4, Zenon DEF Joined, Cat, r

-----------------------------------------------------------------------------
\* Parts of sequences.
PartOf(t, s) == \A i \in 1 .. Len(t) : \E j \in 1 .. Len(s) : t[i] = s[j]

LEMMA CutInTwo ==
    ASSUME NEW S, NEW s \in Seq(S), NEW n \in 0 .. Len(s)
    PROVE  /\ SubSeq(s, 1, n) \in Seq(S) /\ SubSeq(s, n + 1, Len(s)) \in Seq(S)
           /\ Cat(SubSeq(s, 1, n), SubSeq(s, n + 1, Len(s))) = s
           /\ PartOf(SubSeq(s, 1, n), s) /\ PartOf(SubSeq(s, n + 1, Len(s)), s)
  <1>1. Len(s) \in Nat /\ n \in Nat /\ n <= Len(s) /\ \A i \in 1 .. Len(s) : s[i] \in S
    OBVIOUS
  <1>2. /\ SubSeq(s, 1, n) \in Seq(S)
        /\ Len(SubSeq(s, 1, n)) = IF 1 <= n THEN n - 1 + 1 ELSE 0
        /\ \A i \in 1 .. n - 1 + 1 : SubSeq(s, 1, n)[i] = s[1 + i - 1]
    <2>1. \A i \in 1 .. n : s[i] \in S
      BY <1>1
    <2>. QED
      BY <1>1, <2>1, SubSeqProperties
  <1>3. /\ SubSeq(s, n + 1, Len(s)) \in Seq(S)
        /\ Len(SubSeq(s, n + 1, Len(s))) = IF n + 1 <= Len(s) THEN Len(s) - (n + 1) + 1 ELSE 0
        /\ \A i \in 1 .. Len(s) - (n + 1) + 1 :
              SubSeq(s, n + 1, Len(s))[i] = s[(n + 1) + i - 1]
    <2>1. \A i \in n + 1 .. Len(s) : s[i] \in S
      BY <1>1
    <2>2. n + 1 \in Int /\ Len(s) \in Int
      BY <1>1
    <2>. QED
      BY <2>1, <2>2, SubSeqProperties
  <1>4. SubSeq(s, 1, n) \o SubSeq(s, n + 1, Len(s)) = s
    <2>1. 1 \in 1 .. Len(s) + 1 /\ n \in 1 - 1 .. Len(s) /\ Len(s) \in n .. Len(s)
      BY <1>1
    <2>2. SubSeq(s, 1, n) \o SubSeq(s, n + 1, Len(s)) = SubSeq(s, 1, Len(s))
      BY <2>1, ConcatAdjacentSubSeq
    <2>. QED
      BY <2>2, SubSeqFull
  <1>5. ASSUME NEW i \in 1 .. Len(SubSeq(s, 1, n))
        PROVE  \E j \in 1 .. Len(s) : SubSeq(s, 1, n)[i] = s[j]
    <2>1. i \in 1 .. n - 1 + 1 /\ 1 + i - 1 \in 1 .. Len(s)
      BY <1>1, <1>2
    <2>. QED
      BY <1>2, <2>1
  <1>6. ASSUME NEW i \in 1 .. Len(SubSeq(s, n + 1, Len(s)))
        PROVE  \E j \in 1 .. Len(s) : SubSeq(s, n + 1, Len(s))[i] = s[j]
    <2>1. i \in 1 .. Len(s) - (n + 1) + 1 /\ (n + 1) + i - 1 \in 1 .. Len(s)
      BY <1>1, <1>3
    <2>. QED
      BY <1>3, <2>1
  <1>. QED
    BY <1>2, <1>3, <1>4, <1>5, <1>6 DEF Cat, PartOf

LEMMA PartsJoined ==
    ASSUME NEW S, NEW r \in Seq(S), NEW s \in Seq(S), NEW t \in Seq(S), PartOf(s, r), PartOf(t, r)
    PROVE  Cat(s, t) \in Seq(S) /\ PartOf(Cat(s, t), r)
  <1>1. Cat(s, t) \in Seq(S) /\ Joined(Cat(s, t), s, t)
    BY BothAre
  <1>. DEFINE q == Cat(s, t)
  <1>. HIDE DEF q
  <1>2. ASSUME NEW i \in 1 .. Len(q) PROVE \E j \in 1 .. Len(r) : q[i] = r[j]
    <2>1. i \in 1 .. Len(s) \/ (i - Len(s) \in 1 .. Len(t) /\ i = Len(s) + (i - Len(s)))
      BY <1>1 DEF Joined, q
    <2>2. CASE i \in 1 .. Len(s)
      BY <1>1, <2>2 DEF Joined, PartOf, q
    <2>3. CASE i - Len(s) \in 1 .. Len(t) /\ i = Len(s) + (i - Len(s))
      <3>1. q[i] = t[i - Len(s)]
        BY <1>1, <2>3 DEF Joined, q
      <3>. QED
        BY <2>3, <3>1 DEF PartOf
    <2>. QED
      BY <2>1, <2>2, <2>3
  <1>. QED
    BY <1>1, <1>2 DEF PartOf, q

-----------------------------------------------------------------------------
\* FlattenSeq, as a recursion from the empty sequence.
Flattens(fs, g, N) == g[0] = << >> /\ \A n \in 1 .. N : g[n] = Cat(g[n - 1], fs[n])

LEMMA FlattenExists ==
    ASSUME NEW S, NEW N \in Nat \ {0}, NEW fs \in [1 .. N -> Seq(S)]
    PROVE  \E g \in [0 .. N -> Seq(S)] : Flattens(fs, g, N) /\ FlattenSeq(fs) = g[N]
  <1>. DEFINE e == [p \in Seq(S) \X (1 .. N) |-> Cat(p[1], fs[p[2]])]
              Is(f) == f = [i \in 1 .. N |-> IF i = 1 THEN fs[i] ELSE f[i - 1] \o fs[i]]
  <1>1. Len(fs) = N /\ \A n \in 1 .. N : fs[n] \in Seq(S)
    OBVIOUS
  <1>2. e \in Steps(Seq(S), N)
    <2>1. ASSUME NEW p \in Seq(S) \X (1 .. N) PROVE Cat(p[1], fs[p[2]]) \in Seq(S)
      <3>1. p[1] \in Seq(S) /\ fs[p[2]] \in Seq(S)
        OBVIOUS
      <3>. QED
        BY <3>1, CatType
    <2>. QED
      BY <2>1 DEF Steps
  <1>3. << >> \in Seq(S)
    OBVIOUS
  <1>. HIDE DEF e
  <1>4. PICK g \in [0 .. N -> Seq(S)] : Iterates(g, << >>, e, N)
    BY <1>2, <1>3, Iterated DEF Traces
  <1>5. ASSUME NEW n \in 1 .. N PROVE g[n] = Cat(g[n - 1], fs[n])
    <2>1. n - 1 \in 0 .. N /\ g[n - 1] \in Seq(S)
      BY <1>4
    <2>. QED
      BY <1>4, <2>1 DEF e, Iterates
  <1>6. Flattens(fs, g, N)
    BY <1>4, <1>5 DEF Flattens, Iterates
  <1>7. Is([i \in 1 .. N |-> g[i]])
    <2>. DEFINE f == [i \in 1 .. N |-> g[i]]
    <2>1. g[1] = fs[1]
      <3>1. g[1] = Cat(g[0], fs[1]) /\ g[0] = << >>
        BY <1>4, <1>5 DEF Iterates
      <3>. QED
        BY <1>1, <3>1, CatNone
    <2>2. ASSUME NEW i \in 1 .. N, i # 1 PROVE f[i] = f[i - 1] \o fs[i]
      <3>1. i - 1 \in 1 .. N /\ f[i] = Cat(f[i - 1], fs[i])
        BY <1>5, <2>2
      <3>. QED
        BY <3>1, Zenon DEF Cat
    <2>3. f[1] = fs[1]
      BY <2>1
    <2>4. \A i \in 1 .. N : f[i] = IF i = 1 THEN fs[i] ELSE f[i - 1] \o fs[i]
      BY <2>2, <2>3
    <2>5. DOMAIN f = 1 .. N /\ f = [i \in 1 .. N |-> f[i]]
      OBVIOUS
    <2>. HIDE DEF f
    <2>. QED
      BY <2>4, <2>5, Zenon DEF f
  <1>8. PICK f : Is(f) /\ FlattenSeq(fs) = f[N]
    <2>1. Len(fs) # 0
      BY <1>1
    <2>2. \E f : f = [i \in 1 .. Len(fs) |-> IF i = 1 THEN fs[i] ELSE f[i - 1] \o fs[i]]
      BY <1>1, <1>7, Zenon
    <2>. QED
      BY <1>1, <2>1, <2>2, Zenon DEF FlattenSeq
  <1>9. f[N] = g[N]
    <2>. DEFINE T == {n \in 0 .. N : n = 0 \/ f[n] = g[n]}
    <2>1. 0 \in T
      OBVIOUS
    <2>2. ASSUME NEW n \in 1 .. N, n - 1 \in T PROVE n \in T
      <3>1. CASE n = 1
        <4>1. f[1] = fs[1]
          BY <1>8, <3>1
        <4>2. g[1] = Cat(g[0], fs[1]) /\ g[0] = << >>
          BY <1>4, <1>5, <3>1 DEF Iterates
        <4>3. g[1] = fs[1]
          BY <1>1, <4>2, CatNone
        <4>. QED
          BY <3>1, <4>1, <4>3
      <3>2. CASE n # 1
        <4>1. f[n - 1] = g[n - 1]
          BY <2>2, <3>2
        <4>2. f[n] = f[n - 1] \o fs[n]
          BY <1>8, <3>2
        <4>3. f[n] = Cat(g[n - 1], fs[n])
          BY <4>1, <4>2, Zenon DEF Cat
        <4>. QED
          BY <1>5, <4>3
      <3>. QED
        BY <3>1, <3>2
    <2>3. N \in Nat /\ N # 0
      OBVIOUS
    <2>4. N \in T
      <3>. HIDE DEF T
      <3>1. \A n \in 0 .. N : n \in T
        BY <2>1, <2>2, <2>3, UpTheNumbers
      <3>. QED
        BY <2>3, <3>1
    <2>. QED
      BY <2>3, <2>4
  <1>. QED
    BY <1>6, <1>8, <1>9

LEMMA FlattenType ==
    ASSUME NEW S, NEW N \in Nat \ {0}, NEW fs \in [1 .. N -> Seq(S)]
    PROVE  FlattenSeq(fs) \in Seq(S)
  <1>1. PICK g \in [0 .. N -> Seq(S)] : FlattenSeq(fs) = g[N]
    BY FlattenExists
  <1>. QED
    BY <1>1

LEMMA FlattenNone ==
    ASSUME NEW N \in Nat \ {0}, NEW S, NEW fs \in [1 .. N -> Seq(S)],
           \A n \in 1 .. N : fs[n] = << >>
    PROVE  FlattenSeq(fs) = << >>
  <1>1. PICK g \in [0 .. N -> Seq(S)] : Flattens(fs, g, N) /\ FlattenSeq(fs) = g[N]
    BY FlattenExists
  <1>. DEFINE T == {n \in 0 .. N : g[n] = << >>}
  <1>2. 0 \in T
    BY <1>1 DEF Flattens
  <1>3. ASSUME NEW n \in 1 .. N, n - 1 \in T PROVE n \in T
    <2>1. g[n] = Cat(<< >>, << >>) /\ << >> \in Seq(S)
      BY <1>1, <1>3 DEF Flattens
    <2>2. g[n] = << >>
      BY <2>1, CatNone
    <2>. QED
      BY <2>2
  <1>4. N \in Nat
    OBVIOUS
  <1>5. N \in T
    <2>. HIDE DEF T
    <2>1. \A n \in 0 .. N : n \in T
      BY <1>2, <1>3, <1>4, UpTheNumbers
    <2>. QED
      BY <1>4, <2>1
  <1>. QED
    BY <1>1, <1>5

\* out is put behind the last of the parts fs that is not empty, which makes them fs2.
PutBehind(fs, d, out, fs2, N) ==
    /\ \A n \in 1 .. N : n > d => fs[n] = << >>
    /\ fs2[d] = Cat(fs[d], out)
    /\ \A n \in 1 .. N : n # d => fs2[n] = fs[n]

Parts(N, S) == [1 .. N -> Seq(S)]

LEMMA FlattenBehind ==
    ASSUME NEW S, NEW N \in Nat \ {0}, NEW fs \in Parts(N, S), NEW d \in 1 .. N,
           NEW out \in Seq(S), NEW fs2 \in Parts(N, S), PutBehind(fs, d, out, fs2, N)
    PROVE  FlattenSeq(fs2) = Cat(FlattenSeq(fs), out)
  <1>1. fs \in [1 .. N -> Seq(S)] /\ fs2 \in [1 .. N -> Seq(S)]
    BY DEF Parts
  <1>2. PICK g \in [0 .. N -> Seq(S)] : Flattens(fs, g, N) /\ FlattenSeq(fs) = g[N]
    BY <1>1, FlattenExists
  <1>3. PICK h \in [0 .. N -> Seq(S)] : Flattens(fs2, h, N) /\ FlattenSeq(fs2) = h[N]
    BY <1>1, FlattenExists
  <1>. DEFINE T == {n \in 0 .. N : h[n] = IF n < d THEN g[n] ELSE Cat(g[n], out)}
  <1>4. 0 \in T
    BY <1>2, <1>3 DEF Flattens
  <1>5. ASSUME NEW n \in 1 .. N, n - 1 \in T PROVE n \in T
    <2>1. /\ n - 1 \in 0 .. N /\ g[n - 1] \in Seq(S) /\ g[n] \in Seq(S) /\ fs[n] \in Seq(S)
          /\ g[n] = Cat(g[n - 1], fs[n]) /\ h[n] = Cat(h[n - 1], fs2[n])
      <3>1. n - 1 \in 0 .. N /\ n \in 0 .. N /\ n \in 1 .. N
        OBVIOUS
      <3>2. g[n - 1] \in Seq(S) /\ g[n] \in Seq(S) /\ fs[n] \in Seq(S)
        BY <1>1, <1>2, <3>1
      <3>3. g[n] = Cat(g[n - 1], fs[n])
        BY <1>2, <3>1 DEF Flattens
      <3>4. h[n] = Cat(h[n - 1], fs2[n])
        BY <1>3, <3>1 DEF Flattens
      <3>. QED
        BY <3>1, <3>2, <3>3, <3>4
    <2>2. CASE n < d
      <3>1. fs2[n] = fs[n] /\ h[n - 1] = g[n - 1]
        BY <1>1, <1>5, <2>2 DEF PutBehind
      <3>. QED
        BY <2>1, <2>2, <3>1
    <2>3. CASE n = d
      <3>1. fs2[n] = Cat(fs[n], out) /\ h[n - 1] = g[n - 1]
        BY <1>1, <1>5, <2>3 DEF PutBehind
      <3>2. h[n] = Cat(g[n - 1], Cat(fs[n], out))
        BY <2>1, <3>1
      <3>3. h[n] = Cat(g[n], out)
        BY <2>1, <3>2, CatAssociates
      <3>. QED
        BY <2>3, <3>3
    <2>4. CASE n > d
      <3>1. fs2[n] = << >> /\ fs[n] = << >> /\ h[n - 1] = Cat(g[n - 1], out)
        <4>1. fs[n] = << >> /\ n # d
          BY <2>4 DEF PutBehind
        <4>2. fs2[n] = fs[n]
          BY <4>1 DEF PutBehind
        <4>3. ~(n - 1 < d)
          BY <2>4
        <4>. QED
          BY <1>5, <4>1, <4>2, <4>3
      <3>2. g[n] = g[n - 1]
        BY <2>1, <3>1, CatNone
      <3>3. Cat(g[n - 1], out) \in Seq(S)
        BY <2>1, CatType
      <3>4. h[n] = Cat(g[n - 1], out)
        BY <2>1, <3>1, <3>3, CatNone
      <3>. QED
        BY <2>4, <3>2, <3>4
    <2>. QED
      BY <2>2, <2>3, <2>4
  <1>6. N \in Nat
    OBVIOUS
  <1>7. N \in T
    <2>. HIDE DEF T
    <2>1. \A n \in 0 .. N : n \in T
      BY <1>4, <1>5, <1>6, UpTheNumbers
    <2>. QED
      BY <1>6, <2>1
  <1>8. h[N] = Cat(g[N], out)
    BY <1>7
  <1>. QED
    BY <1>2, <1>3, <1>8
=============================================================================
