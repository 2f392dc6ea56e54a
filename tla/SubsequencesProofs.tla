------------------------- MODULE SubsequencesProofs -------------------------
(***************************************************************************)
(* What Kept yields for every sequence, by induction over sequences.  The  *)
(* library's induction theorems take an operator as their parameter; the   *)
(* ones here take a set, and rest on WFMin of the library: a set of        *)
(* numbers that is not empty has a least one.                              *)
(***************************************************************************)
EXTENDS Subsequences, TLAPS, SequenceTheorems, WellFoundedInduction

-----------------------------------------------------------------------------
(* Induction, with a set for the property. *)

LEMMA LeastNumber ==
    ASSUME NEW T, T \subseteq Nat, T # {}
    PROVE  \E m \in T : \A k \in T : m =< k
<1>. DEFINE Less == {ss \in Nat \X Nat : ss[1] < ss[2]}
<1>1. IsWellFoundedOn(Less, Nat)
  BY NatLessThanWellFounded, Zenon DEF OpToRel
<1>2. PICK m \in T : \A k \in T : ~ (<<k, m>> \in Less)
  <2>. HIDE DEF Less
  <2>. QED  BY <1>1, WFMin, Zenon
<1>3. ASSUME NEW k \in T, k < m PROVE FALSE
  <2>. DEFINE ss == <<k, m>>
  <2>1. ss \in Nat \X Nat /\ ss[1] < ss[2]
    BY <1>3
  <2>. QED  BY <2>1, <1>2, Zenon
<1>. QED  BY <1>3

LEMMA ByNumbers ==
    ASSUME NEW T, 0 \in T, \A n \in Nat : n \in T => n + 1 \in T
    PROVE  Nat \subseteq T
<1>. DEFINE Bad == Nat \ T
<1>. SUFFICES ASSUME Bad # {} PROVE FALSE
  OBVIOUS
<1>1. PICK n \in Bad : \A m \in Bad : n =< m
  <2>1. Bad \subseteq Nat
    OBVIOUS
  <2>. HIDE DEF Bad
  <2>. QED  BY <2>1, LeastNumber, Zenon
<1>2. n # 0 /\ n - 1 \in Nat /\ ~(n =< n - 1)
  OBVIOUS
<1>3. n - 1 \in T
  BY <1>1, <1>2
<1>. QED  BY <1>2, <1>3

LEMMA BySequences ==
    ASSUME NEW S, NEW T, <<>> \in T,
           \A s \in Seq(S) : s \in T => \A x \in S : Append(s, x) \in T
    PROVE  Seq(S) \subseteq T
<1>. DEFINE Ok == {n \in Nat : \A s \in Seq(S) : Len(s) = n => s \in T}
<1>1. 0 \in Ok
  <2>1. ASSUME NEW s \in Seq(S), Len(s) = 0 PROVE s = <<>>
    BY <2>1, EmptySeq
  <2>. QED  BY <2>1
<1>2. ASSUME NEW n \in Nat, n \in Ok PROVE n + 1 \in Ok
  <2>1. ASSUME NEW s \in Seq(S), Len(s) = n + 1 PROVE s \in T
    <3>1. PICK t : t = SubSeq(s, 1, n)
      OBVIOUS
    <3>2. t \in Seq(S) /\ Len(t) = n /\ \A k \in 1..n : t[k] = s[k]
      BY <2>1, <3>1
    <3>3. s[n + 1] \in S
      BY <2>1
    <3>4. PICK u : u = Append(t, s[n + 1])
      OBVIOUS
    <3>5. u \in Seq(S) /\ Len(u) = n + 1 /\ u[n + 1] = s[n + 1]
          /\ \A k \in 1..n : u[k] = s[k]
      BY <3>2, <3>3, <3>4
    <3>6. u = s
      <4>1. \A k \in 1..(n + 1) : k = n + 1 \/ k \in 1..n
        OBVIOUS
      <4>2. \A k \in 1..Len(s) : s[k] = u[k]
        BY <3>5, <2>1, <4>1
      <4>. QED  BY <4>2, <3>5, <2>1, SeqEqual
    <3>7. t \in T
      BY <1>2, <3>2
    <3>. QED  BY <3>2, <3>3, <3>4, <3>6, <3>7
  <2>. QED  BY <2>1
<1>3. Nat \subseteq Ok
  <2>. HIDE DEF Ok
  <2>. QED  BY <1>1, <1>2, ByNumbers, Zenon
<1>. QED
  <2>1. ASSUME NEW s \in Seq(S) PROVE s \in T
    <3>1. Len(s) \in Nat
      BY LenProperties
    <3>. QED  BY <3>1, <1>3
  <2>. QED  BY <2>1

-----------------------------------------------------------------------------
(* Kept, step by step. *)

\* One round of the loop that Kept stands for, and the function it defines.
Round(s, K, f, k) ==
    IF k = 0 THEN <<>>
    ELSE IF s[k] \in K THEN Append(f[k - 1], s[k])
    ELSE f[k - 1]
Rounds(s, K, n, f) == f = [k \in 0..n |-> Round(s, K, f, k)]

LEMMA RoundsExist ==
    ASSUME NEW s, NEW K
    PROVE  \A n \in Nat : \E f : Rounds(s, K, n, f)
<1>. DEFINE Ok == {n \in Nat : \E f : Rounds(s, K, n, f)}
<1>1. 0 \in Ok
  <2>1. Rounds(s, K, 0, [k \in 0..0 |-> <<>>])
    BY SMT DEF Rounds, Round
  <2>. QED  BY <2>1
<1>2. ASSUME NEW n \in Nat, n \in Ok PROVE n + 1 \in Ok
  <2>1. PICK f : Rounds(s, K, n, f)
    BY <1>2
  <2>2. PICK g : g = [k \in 0..(n + 1) |->
                        IF k < n + 1 THEN f[k] ELSE Round(s, K, f, k)]
    OBVIOUS
  <2>3. ASSUME NEW k \in 0..(n + 1) PROVE g[k] = Round(s, K, g, k)
    <3>1. CASE k < n + 1
      <4>1. k \in 0..n /\ (k # 0 => k - 1 \in 0..n)
        BY <3>1
      <4>2. f[k] = Round(s, K, f, k)
        BY <2>1, <4>1, Zenon DEF Rounds
      <4>3. g[k] = f[k] /\ (k # 0 => g[k - 1] = f[k - 1])
        BY <2>2, <3>1, <4>1
      <4>. QED  BY <4>2, <4>3, Zenon DEF Round
    <3>2. CASE k = n + 1
      <4>1. g[k] = Round(s, K, f, k)
        BY <3>2, <2>2
      <4>2. g[k - 1] = f[k - 1]
        BY <3>2, <2>2
      <4>. QED  BY <4>1, <4>2, Zenon DEF Round
    <3>. QED  BY <3>1, <3>2
  <2>4. Rounds(s, K, n + 1, g)
    BY <2>2, <2>3, Zenon DEF Rounds
  <2>. QED  BY <2>4
<1>. HIDE DEF Ok
<1>3. Nat \subseteq Ok
  BY <1>1, <1>2, ByNumbers, Zenon
<1>. QED  BY <1>3 DEF Ok

\* Rounds over sequences that begin alike yield the same.
LEMMA RoundsAgree ==
    ASSUME NEW s, NEW t, NEW K, NEW m \in Nat, NEW n \in Nat, m =< n,
           \A k \in 1..m : s[k] = t[k],
           NEW f, NEW g, Rounds(s, K, m, f), Rounds(t, K, n, g)
    PROVE  \A k \in 0..m : f[k] = g[k]
<1>. DEFINE Ok == {k \in Nat : k =< m => f[k] = g[k]}
<1>1. 0 \in Ok
  <2>1. f[0] = Round(s, K, f, 0) /\ g[0] = Round(t, K, g, 0)
    <3>1. 0 \in 0..m /\ 0 \in 0..n
      OBVIOUS
    <3>. QED  BY <3>1, Zenon DEF Rounds
  <2>. QED  BY <2>1, Zenon DEF Round
<1>2. ASSUME NEW k \in Nat, k \in Ok PROVE k + 1 \in Ok
  <2>. SUFFICES ASSUME k + 1 =< m PROVE f[k + 1] = g[k + 1]
    OBVIOUS
  <2>1. PICK j \in Nat : j = k + 1
    OBVIOUS
  <2>2. j \in 0..m /\ j \in 0..n /\ j \in 1..m /\ j # 0 /\ j - 1 = k /\ k =< m
    BY <2>1
  <2>3. f[j] = Round(s, K, f, j) /\ g[j] = Round(t, K, g, j)
    BY <2>2, Zenon DEF Rounds
  <2>4. f[j - 1] = g[j - 1] /\ s[j] = t[j]
    BY <1>2, <2>2
  <2>5. f[j] = g[j]
    <3>1. j # 0
      BY <2>2
    <3>2. CASE s[j] \in K
      <4>1. f[j] = Append(f[j - 1], s[j])
        BY <3>1, <3>2, <2>3, Zenon DEF Round
      <4>2. g[j] = Append(g[j - 1], t[j])
        BY <3>1, <3>2, <2>3, <2>4, Zenon DEF Round
      <4>. QED  BY <4>1, <4>2, <2>4, Zenon
    <3>3. CASE s[j] \notin K
      <4>1. f[j] = f[j - 1]
        BY <3>1, <3>3, <2>3, Zenon DEF Round
      <4>2. g[j] = g[j - 1]
        BY <3>1, <3>3, <2>3, <2>4, Zenon DEF Round
      <4>. QED  BY <4>1, <4>2, <2>4, Zenon
    <3>. QED  BY <3>2, <3>3
  <2>. QED  BY <2>1, <2>5
<1>3. Nat \subseteq Ok
  <2>. HIDE DEF Ok
  <2>. QED  BY <1>1, <1>2, ByNumbers, Zenon
<1>. QED  BY <1>3

LEMMA KeptRounds ==
    ASSUME NEW s, Len(s) \in Nat, NEW K
    PROVE  \E f : Rounds(s, K, Len(s), f) /\ Kept(s, K) = f[Len(s)]
<1>1. PICK f : f = CHOOSE g : Rounds(s, K, Len(s), g)
  OBVIOUS
<1>2. Rounds(s, K, Len(s), f)
  BY <1>1, RoundsExist, Zenon
<1>3. Kept(s, K) = f[Len(s)]
  BY <1>1, Zenon DEF Kept, Rounds, Round
<1>. QED  BY <1>2, <1>3

LEMMA KeptEmpty ==
    ASSUME NEW K
    PROVE  Kept(<<>>, K) = <<>>
<1>1. Len(<<>>) = 0
  OBVIOUS
<1>2. PICK f : Rounds(<<>>, K, 0, f) /\ Kept(<<>>, K) = f[0]
  BY <1>1, KeptRounds
<1>3. f[0] = Round(<<>>, K, f, 0)
  <2>1. 0 \in 0..0
    OBVIOUS
  <2>. QED  BY <1>2, <2>1, Zenon DEF Rounds
<1>. QED  BY <1>2, <1>3, Zenon DEF Round

LEMMA KeptAppend ==
    ASSUME NEW S, NEW s \in Seq(S), NEW x \in S, NEW K
    PROVE  Kept(Append(s, x), K) = IF x \in K THEN Append(Kept(s, K), x)
                                   ELSE Kept(s, K)
<1>1. PICK t : t = Append(s, x)
  OBVIOUS
<1>2. PICK n \in Nat : n = Len(s)
  BY LenProperties
<1>3. Len(t) = n + 1 /\ t[n + 1] = x /\ \A k \in 1..n : s[k] = t[k]
  BY <1>1, <1>2
<1>4. PICK f : Rounds(s, K, n, f) /\ Kept(s, K) = f[n]
  BY <1>2, KeptRounds
<1>5. PICK g : Rounds(t, K, n + 1, g) /\ Kept(t, K) = g[n + 1]
  <2>1. Len(t) \in Nat
    BY <1>3
  <2>. QED  BY <2>1, <1>3, KeptRounds
<1>6. g[n + 1] = Round(t, K, g, n + 1)
  <2>1. n + 1 \in 0..(n + 1)
    OBVIOUS
  <2>. QED  BY <2>1, <1>5, Zenon DEF Rounds
<1>7. f[n] = g[n]
  <2>1. n + 1 \in Nat /\ n =< n + 1 /\ n \in 0..n
    OBVIOUS
  <2>2. \A k \in 0..n : f[k] = g[k]
    <3>1. PICK m \in Nat : m = n + 1
      OBVIOUS
    <3>2. n =< m /\ Rounds(t, K, m, g)
      BY <3>1, <1>5
    <3>. QED  BY <3>2, <1>3, <1>4, RoundsAgree
  <2>. QED  BY <2>1, <2>2
<1>8. n + 1 # 0 /\ (n + 1) - 1 = n
  OBVIOUS
<1>. QED  BY <1>1, <1>3, <1>4, <1>5, <1>6, <1>7, <1>8, Zenon DEF Round

-----------------------------------------------------------------------------
(* What Kept yields. *)

\* Kept of a sequence is a sequence of its elements that are in K.
THEOREM KeptIsASequence ==
    ASSUME NEW S, NEW K
    PROVE  \A s \in Seq(S) : Kept(s, K) \in Seq(S \cap K)
<1>. DEFINE T == {s \in Seq(S) : Kept(s, K) \in Seq(S \cap K)}
<1>1. <<>> \in T
  <2>1. <<>> \in Seq(S) /\ <<>> \in Seq(S \cap K)
    BY EmptySeq
  <2>. QED  BY <2>1, KeptEmpty
<1>2. ASSUME NEW s \in Seq(S), s \in T, NEW x \in S
      PROVE  Append(s, x) \in T
  <2>1. Append(s, x) \in Seq(S)
    OBVIOUS
  <2>2. CASE x \in K
    <3>1. Kept(Append(s, x), K) = Append(Kept(s, K), x)
      BY <2>2, KeptAppend
    <3>. QED  BY <2>1, <2>2, <3>1, <1>2
  <2>3. CASE x \notin K
    <3>1. Kept(Append(s, x), K) = Kept(s, K)
      BY <2>3, KeptAppend
    <3>. QED  BY <2>1, <3>1, <1>2
  <2>. QED  BY <2>2, <2>3
<1>. HIDE DEF T
<1>3. Seq(S) \subseteq T
  BY <1>1, <1>2, BySequences, Zenon
<1>. QED  BY <1>3 DEF T

\* Kept skips nothing that is in K.
THEOREM KeptElements ==
    ASSUME NEW S, NEW K
    PROVE  \A s \in Seq(S) : Elements(Kept(s, K)) = Elements(s) \cap K
<1>. DEFINE T == {s \in Seq(S) : Elements(Kept(s, K)) = Elements(s) \cap K}
<1>1. <<>> \in T
  BY KeptEmpty DEF Elements
<1>2. ASSUME NEW U, NEW u \in Seq(U), NEW x \in U
      PROVE  Elements(Append(u, x)) = Elements(u) \cup {x}
  <2>1. PICK v : v = Append(u, x)
    OBVIOUS
  <2>2. /\ v \in Seq(U)
        /\ Len(v) = Len(u) + 1 /\ v[Len(u) + 1] = x
        /\ \A k \in 1..Len(u) : v[k] = u[k]
    BY <2>1
  <2>3. Elements(v) = {v[k] : k \in 1..Len(v)}
        /\ Elements(u) = {u[k] : k \in 1..Len(u)}
    BY DEF Elements
  <2>4. 1..Len(v) = 1..Len(u) \cup {Len(u) + 1}
    BY <2>2
  <2>. QED  BY <2>1, <2>2, <2>3, <2>4
<1>3. ASSUME NEW s \in Seq(S), s \in T, NEW x \in S
      PROVE  Append(s, x) \in T
  <2>1. Append(s, x) \in Seq(S) /\ Elements(Append(s, x)) = Elements(s) \cup {x}
    BY <1>2
  <2>2. CASE x \in K
    <3>1. Kept(Append(s, x), K) = Append(Kept(s, K), x)
      BY <2>2, KeptAppend
    <3>2. Kept(s, K) \in Seq(S \cap K) /\ x \in S \cap K
      BY <2>2, KeptIsASequence
    <3>3. Elements(Append(Kept(s, K), x)) = Elements(Kept(s, K)) \cup {x}
      BY <3>2, <1>2
    <3>. QED  BY <2>1, <2>2, <3>1, <3>3, <1>3
  <2>3. CASE x \notin K
    <3>1. Kept(Append(s, x), K) = Kept(s, K)
      BY <2>3, KeptAppend
    <3>. QED  BY <2>1, <2>3, <3>1, <1>3
  <2>. QED  BY <2>2, <2>3
<1>. HIDE DEF T
<1>4. Seq(S) \subseteq T
  BY <1>1, <1>3, BySequences, Zenon
<1>. QED  BY <1>4 DEF T
=============================================================================
