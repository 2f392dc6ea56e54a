-------------------------- MODULE ArgumentsProofs --------------------------
(***************************************************************************)
(* Theorems about Arguments, for inputs of any length and whatever         *)
(* scenario functions there are.  First what FlattenSeq and Kept do to     *)
(* what is appended and joined, then what becomes of a plan's words, then  *)
(* the invariant: the plans are what the input says, once it is accepted.  *)
(***************************************************************************)
EXTENDS Arguments, SubsequencesProofs

-----------------------------------------------------------------------------
(* FlattenSeq, step by step. *)

\* One round of the recursion, and the function it defines.
FlatRound(ss, f, k) == IF k = 1 THEN ss[k] ELSE f[k - 1] \o ss[k]
FlatRounds(ss, n, f) == f = [k \in 1..n |-> FlatRound(ss, f, k)]

LEMMA FlatRoundsExist ==
    ASSUME NEW ss
    PROVE  \A n \in Nat : \E f : FlatRounds(ss, n, f)
<1>. DEFINE Ok == {n \in Nat : \E f : FlatRounds(ss, n, f)}
<1>1. 0 \in Ok
  <2>1. FlatRounds(ss, 0, [k \in 1..0 |-> <<>>])
    BY SMT DEF FlatRounds, FlatRound
  <2>. QED  BY <2>1
<1>2. ASSUME NEW n \in Nat, n \in Ok PROVE n + 1 \in Ok
  <2>1. PICK f : FlatRounds(ss, n, f)
    BY <1>2
  <2>2. PICK g : g = [k \in 1..(n + 1) |->
                        IF k < n + 1 THEN f[k] ELSE FlatRound(ss, f, k)]
    OBVIOUS
  <2>3. ASSUME NEW k \in 1..(n + 1) PROVE g[k] = FlatRound(ss, g, k)
    <3>1. CASE k < n + 1
      <4>1. k \in 1..n /\ (k # 1 => k - 1 \in 1..n)
        BY <3>1
      <4>2. f[k] = FlatRound(ss, f, k)
        BY <2>1, <4>1, Zenon DEF FlatRounds
      <4>3. g[k] = f[k] /\ (k # 1 => g[k - 1] = f[k - 1])
        BY <2>2, <3>1, <4>1
      <4>. QED  BY <4>2, <4>3, Zenon DEF FlatRound
    <3>2. CASE k = n + 1
      <4>1. g[k] = FlatRound(ss, f, k)
        BY <3>2, <2>2
      <4>2. k # 1 => g[k - 1] = f[k - 1]
        BY <3>2, <2>2
      <4>. QED  BY <4>1, <4>2, Zenon DEF FlatRound
    <3>. QED  BY <3>1, <3>2
  <2>4. FlatRounds(ss, n + 1, g)
    BY <2>2, <2>3, Zenon DEF FlatRounds
  <2>. QED  BY <2>4
<1>. HIDE DEF Ok
<1>3. Nat \subseteq Ok
  BY <1>1, <1>2, ByNumbers, Zenon
<1>. QED  BY <1>3 DEF Ok

\* Rounds over sequences that begin alike yield the same.
Alike(n, s, t) == \A k \in 1..n : s[k] = t[k]

LEMMA FlatRoundsAgree ==
    ASSUME NEW s, NEW t, NEW m \in Nat, NEW n \in Nat, m =< n,
           Alike(m, s, t),
           NEW f, NEW g, FlatRounds(s, m, f), FlatRounds(t, n, g)
    PROVE  Alike(m, f, g)
<1>. DEFINE Ok == {k \in Nat : k \in 1..m => f[k] = g[k]}
<1>1. 0 \in Ok
  OBVIOUS
<1>2. ASSUME NEW k \in Nat, k \in Ok PROVE k + 1 \in Ok
  <2>. SUFFICES ASSUME k + 1 =< m PROVE f[k + 1] = g[k + 1]
    OBVIOUS
  <2>1. PICK j \in Nat : j = k + 1
    OBVIOUS
  <2>2. j \in 1..m /\ j \in 1..n /\ j - 1 = k /\ (j # 1 => k \in 1..m)
    BY <2>1
  <2>3. f[j] = FlatRound(s, f, j) /\ g[j] = FlatRound(t, g, j)
    BY <2>2, Zenon DEF FlatRounds
  <2>4. (j # 1 => f[j - 1] = g[j - 1]) /\ s[j] = t[j]
    BY <1>2, <2>2 DEF Alike
  <2>5. f[j] = g[j]
    BY <2>3, <2>4, Zenon DEF FlatRound
  <2>. QED  BY <2>1, <2>5
<1>3. Nat \subseteq Ok
  <2>. HIDE DEF Ok
  <2>. QED  BY <1>1, <1>2, ByNumbers, Zenon
<1>. QED  BY <1>3 DEF Alike

LEMMA FlatEmpty ==
    FlattenSeq(<<>>) = <<>>
<1>1. Len(<<>>) = 0
  OBVIOUS
<1>. QED  BY <1>1, Zenon DEF FlattenSeq

LEMMA FlattenRounds ==
    ASSUME NEW ss, Len(ss) \in Nat, Len(ss) # 0
    PROVE  \E f : FlatRounds(ss, Len(ss), f) /\ FlattenSeq(ss) = f[Len(ss)]
<1>1. PICK f : f = CHOOSE g : FlatRounds(ss, Len(ss), g)
  OBVIOUS
<1>2. FlatRounds(ss, Len(ss), f)
  BY <1>1, FlatRoundsExist, Zenon
<1>3. FlattenSeq(ss) = f[Len(ss)]
  BY <1>1, Zenon DEF FlattenSeq, FlatRounds, FlatRound
<1>. QED  BY <1>2, <1>3

LEMMA FlatAppend ==
    ASSUME NEW S, NEW ss \in Seq(Seq(S)), NEW x \in Seq(S)
    PROVE  FlattenSeq(Append(ss, x)) = FlattenSeq(ss) \o x
<1>1. PICK t : t = Append(ss, x)
  OBVIOUS
<1>2. PICK n \in Nat : n = Len(ss)
  BY LenProperties
<1>3. Len(t) = n + 1 /\ t[n + 1] = x /\ \A k \in 1..n : ss[k] = t[k]
  BY <1>1, <1>2
<1>4. PICK g : FlatRounds(t, n + 1, g) /\ FlattenSeq(t) = g[n + 1]
  <2>1. Len(t) \in Nat /\ Len(t) # 0
    BY <1>3
  <2>. QED  BY <2>1, <1>3, FlattenRounds
<1>5. g[n + 1] = FlatRound(t, g, n + 1)
  <2>1. n + 1 \in 1..(n + 1)
    OBVIOUS
  <2>. QED  BY <2>1, <1>4, Zenon DEF FlatRounds
<1>6. CASE n = 0
  <2>1. ss = <<>>
    BY <1>2, <1>6, EmptySeq
  <2>2. n + 1 = 1
    BY <1>6
  <2>3. FlattenSeq(t) = x
    BY <1>3, <1>4, <1>5, <2>2, Zenon DEF FlatRound
  <2>4. <<>> \o x = x
    BY ConcatEmptySeq
  <2>. QED  BY <1>1, <2>1, <2>3, <2>4, FlatEmpty
<1>7. CASE n # 0
  <2>1. PICK f : FlatRounds(ss, n, f) /\ FlattenSeq(ss) = f[n]
    BY <1>2, <1>7, FlattenRounds
  <2>2. f[n] = g[n]
    <3>1. PICK m \in Nat : m = n + 1
      OBVIOUS
    <3>2. n =< m /\ FlatRounds(t, m, g) /\ n \in 1..n
      BY <3>1, <1>4, <1>7
    <3>3. Alike(n, ss, t)
      BY <1>3 DEF Alike
    <3>4. Alike(n, f, g)
      BY <3>2, <3>3, <2>1, FlatRoundsAgree
    <3>. QED  BY <3>2, <3>4 DEF Alike
  <2>3. n + 1 # 1 /\ (n + 1) - 1 = n
    BY <1>7
  <2>. QED  BY <1>1, <1>3, <1>4, <1>5, <2>1, <2>2, <2>3, Zenon DEF FlatRound
<1>. QED  BY <1>6, <1>7

\* What is flattened is a sequence of the elements' elements.
LEMMA FlatIsASequence ==
    ASSUME NEW S
    PROVE  \A ss \in Seq(Seq(S)) : FlattenSeq(ss) \in Seq(S)
<1>. DEFINE T == {ss \in Seq(Seq(S)) : FlattenSeq(ss) \in Seq(S)}
<1>1. <<>> \in T
  <2>1. <<>> \in Seq(Seq(S)) /\ <<>> \in Seq(S)
    BY EmptySeq
  <2>. QED  BY <2>1, FlatEmpty
<1>2. ASSUME NEW ss \in Seq(Seq(S)), ss \in T, NEW x \in Seq(S)
      PROVE  Append(ss, x) \in T
  <2>1. Append(ss, x) \in Seq(Seq(S))
    OBVIOUS
  <2>2. FlattenSeq(Append(ss, x)) = FlattenSeq(ss) \o x
    BY FlatAppend
  <2>3. FlattenSeq(ss) \o x \in Seq(S)
    BY <1>2, ConcatProperties
  <2>. QED  BY <2>1, <2>2, <2>3
<1>. HIDE DEF T
<1>3. Seq(Seq(S)) \subseteq T
  BY <1>1, <1>2, BySequences, Zenon
<1>. QED  BY <1>3 DEF T

LEMMA ConcatAppend ==
    ASSUME NEW S, NEW s \in Seq(S), NEW t \in Seq(S), NEW x \in S
    PROVE  s \o Append(t, x) = Append(s \o t, x)
<1>1. <<x>> \in Seq(S)
  OBVIOUS
<1>2. Append(t, x) = t \o <<x>>
  BY AppendIsConcat
<1>3. s \o t \in Seq(S)
  BY ConcatProperties
<1>4. Append(s \o t, x) = (s \o t) \o <<x>>
  BY <1>3, AppendIsConcat
<1>. QED  BY <1>1, <1>2, <1>4, ConcatAssociative

\* What two sequences yield is what the first one yields, then the second.
LEMMA FlatConcat ==
    ASSUME NEW S, NEW ss \in Seq(Seq(S))
    PROVE  \A tt \in Seq(Seq(S)) :
              FlattenSeq(ss \o tt) = FlattenSeq(ss) \o FlattenSeq(tt)
<1>. DEFINE T == {tt \in Seq(Seq(S)) :
                    FlattenSeq(ss \o tt) = FlattenSeq(ss) \o FlattenSeq(tt)}
<1>1. <<>> \in T
  <2>1. <<>> \in Seq(Seq(S)) /\ FlattenSeq(ss) \in Seq(S)
    BY EmptySeq, FlatIsASequence
  <2>2. ss \o <<>> = ss /\ FlattenSeq(ss) \o <<>> = FlattenSeq(ss)
    BY <2>1, ConcatEmptySeq
  <2>. QED  BY <2>1, <2>2, FlatEmpty
<1>2. ASSUME NEW tt \in Seq(Seq(S)), tt \in T, NEW x \in Seq(S)
      PROVE  Append(tt, x) \in T
  <2>1. Append(tt, x) \in Seq(Seq(S)) /\ ss \o tt \in Seq(Seq(S))
    BY ConcatProperties
  <2>2. ss \o Append(tt, x) = Append(ss \o tt, x)
    BY ConcatAppend
  <2>3. FlattenSeq(Append(ss \o tt, x)) = FlattenSeq(ss \o tt) \o x
    BY <2>1, FlatAppend
  <2>4. FlattenSeq(Append(tt, x)) = FlattenSeq(tt) \o x
    BY FlatAppend
  <2>5. FlattenSeq(ss) \in Seq(S) /\ FlattenSeq(tt) \in Seq(S)
    BY FlatIsASequence
  <2>6. (FlattenSeq(ss) \o FlattenSeq(tt)) \o x
            = FlattenSeq(ss) \o (FlattenSeq(tt) \o x)
    BY <2>5, ConcatAssociative
  <2>. QED  BY <1>2, <2>1, <2>2, <2>3, <2>4, <2>6
<1>. HIDE DEF T
<1>3. Seq(Seq(S)) \subseteq T
  BY <1>1, <1>2, BySequences, Zenon
<1>. QED  BY <1>3 DEF T

\* So does Kept.
LEMMA KeptConcat ==
    ASSUME NEW S, NEW s \in Seq(S), NEW K
    PROVE  \A t \in Seq(S) : Kept(s \o t, K) = Kept(s, K) \o Kept(t, K)
<1>. DEFINE T == {t \in Seq(S) : Kept(s \o t, K) = Kept(s, K) \o Kept(t, K)}
<1>1. <<>> \in T
  <2>1. <<>> \in Seq(S) /\ Kept(s, K) \in Seq(S \cap K)
    BY EmptySeq, KeptIsASequence
  <2>2. s \o <<>> = s /\ Kept(s, K) \o <<>> = Kept(s, K)
    BY <2>1, ConcatEmptySeq
  <2>. QED  BY <2>1, <2>2, KeptEmpty
<1>2. ASSUME NEW t \in Seq(S), t \in T, NEW x \in S
      PROVE  Append(t, x) \in T
  <2>1. Append(t, x) \in Seq(S) /\ s \o t \in Seq(S)
    BY ConcatProperties
  <2>2. s \o Append(t, x) = Append(s \o t, x)
    BY ConcatAppend
  <2>3. CASE x \in K
    <3>1. Kept(Append(s \o t, x), K) = Append(Kept(s \o t, K), x)
      <4>1. PICK u \in Seq(S) : u = s \o t
        BY <2>1
      <4>2. Kept(Append(u, x), K) = Append(Kept(u, K), x)
        BY <2>3, KeptAppend
      <4>. QED  BY <4>1, <4>2
    <3>4. Kept(Append(t, x), K) = Append(Kept(t, K), x)
      BY <2>3, KeptAppend
    <3>2. Kept(s, K) \in Seq(S \cap K) /\ Kept(t, K) \in Seq(S \cap K)
          /\ x \in S \cap K
      BY <2>3, KeptIsASequence
    <3>3. Kept(s, K) \o Append(Kept(t, K), x)
            = Append(Kept(s, K) \o Kept(t, K), x)
      BY <3>2, ConcatAppend
    <3>. QED  BY <1>2, <2>1, <2>2, <3>1, <3>3, <3>4
  <2>4. CASE x \notin K
    <3>1. /\ Kept(Append(s \o t, x), K) = Kept(s \o t, K)
          /\ Kept(Append(t, x), K) = Kept(t, K)
      BY <2>1, <2>4, KeptAppend
    <3>. QED  BY <1>2, <2>1, <2>2, <3>1
  <2>. QED  BY <2>3, <2>4
<1>. HIDE DEF T
<1>3. Seq(S) \subseteq T
  BY <1>1, <1>2, BySequences, Zenon
<1>. QED  BY <1>3 DEF T

\* What is all in K is kept as it is.
LEMMA KeptAll ==
    ASSUME NEW K
    PROVE  \A s \in Seq(K) : Kept(s, K) = s
<1>. DEFINE T == {s \in Seq(K) : Kept(s, K) = s}
<1>1. <<>> \in T
  BY EmptySeq, KeptEmpty
<1>2. ASSUME NEW s \in Seq(K), s \in T, NEW x \in K
      PROVE  Append(s, x) \in T
  <2>1. Append(s, x) \in Seq(K)
    OBVIOUS
  <2>2. Kept(Append(s, x), K) = Append(Kept(s, K), x)
    BY KeptAppend
  <2>. QED  BY <1>2, <2>1, <2>2
<1>. HIDE DEF T
<1>3. Seq(K) \subseteq T
  BY <1>1, <1>2, BySequences, Zenon
<1>. QED  BY <1>3 DEF T
-----------------------------------------------------------------------------
(* What becomes of the words of a plan. *)

Plan == [func : Function, words : Seq(Word)]

LEMMA WordIsTyped ==
    ASSUME NEW w \in Word
    PROVE  ValuesOf(w) \in Seq(Value) /\ KeysOf(w) \in SUBSET STRING
<1>1. w.values \in Seq(Value) /\ w.keys \in SUBSET STRING
  BY DEF Word
<1>2. <<Text>> \in Seq(Value)
  BY DEF Value
<1>3. ValuesOf(w) = <<Text>> \/ ValuesOf(w) = w.values
  BY Zenon DEF ValuesOf
<1>4. KeysOf(w) = {} \/ KeysOf(w) = w.keys
  BY Zenon DEF KeysOf
<1>. QED  BY <1>1, <1>2, <1>3, <1>4, Zenon

\* The values of the words, word by word.
ValuesOfAll(words) == [i \in DOMAIN words |-> ValuesOf(words[i])]

LEMMA ValuesOfAllTyped ==
    ASSUME NEW words \in Seq(Word)
    PROVE  /\ ValuesOfAll(words) \in Seq(Seq(Value))
           /\ Len(ValuesOfAll(words)) = Len(words)
           /\ \A i \in 1..Len(words) : ValuesOfAll(words)[i] = ValuesOf(words[i])
<1>1. PICK n \in Nat : n = Len(words) /\ DOMAIN words = 1..n
  BY LenProperties
<1>2. PICK v : v = ValuesOfAll(words)
  OBVIOUS
<1>3. v = [i \in 1..n |-> ValuesOf(words[i])]
  BY <1>1, <1>2 DEF ValuesOfAll
<1>4. \A i \in 1..n : ValuesOf(words[i]) \in Seq(Value)
  BY <1>1, WordIsTyped
<1>5. v \in Seq(Seq(Value)) /\ Len(v) = n
  BY <1>3, <1>4
<1>. QED  BY <1>1, <1>2, <1>3, <1>5

\* The two parts of a sequence, by their members.
LEMMA Joined ==
    ASSUME NEW S, NEW s \in Seq(S), NEW t \in Seq(S), NEW m \in Nat, m = Len(s),
           NEW u, u = s \o t
    PROVE  /\ u \in Seq(S) /\ Len(u) = m + Len(t)
           /\ \A i \in 1..m : u[i] = s[i]
           /\ \A i \in 1..Len(t) : u[m + i] = t[i]
<1>1. PICK n \in Nat : n = Len(t)
  BY LenProperties
<1>3. /\ u \in Seq(S) /\ Len(u) = m + n
      /\ \A i \in 1..(m + n) : u[i] = IF i =< m THEN s[i] ELSE t[i - m]
  BY <1>1, ConcatProperties
<1>4. ASSUME NEW i \in 1..m PROVE u[i] = s[i]
  BY <1>3
<1>5. ASSUME NEW i \in 1..n PROVE u[m + i] = t[i]
  <2>1. m + i \in 1..(m + n) /\ ~(m + i =< m) /\ (m + i) - m = i
    OBVIOUS
  <2>. QED  BY <1>3, <2>1
<1>. QED  BY <1>1, <1>3, <1>4, <1>5

\* int() makes a number of every value but Text and Url, and none other.
LEMMA IntOfTyped ==
    /\ \A v \in Value : IntOf(v) \in Value
    /\ \A v \in Nat : IntOf(v) = v
<1>1. \A v \in DOMAIN Truncated : v \notin Nat /\ Truncated[v] \in Nat
  BY InputsAreWellFormed
<1>2. ASSUME NEW v \in Value PROVE IntOf(v) \in Value
  <2>1. CASE v \in DOMAIN Truncated
    BY <1>1, <2>1, Zenon DEF IntOf, Value
  <2>2. CASE v \notin DOMAIN Truncated
    BY <1>2, <2>2, Zenon DEF IntOf
  <2>. QED  BY <2>1, <2>2
<1>3. ASSUME NEW v \in Nat PROVE IntOf(v) = v
  BY <1>1, Zenon DEF IntOf
<1>. QED  BY <1>2, <1>3

LEMMA AsIntegersTyped ==
    ASSUME NEW s \in Seq(Value)
    PROVE  /\ AsIntegers(s) \in Seq(Value) /\ Len(AsIntegers(s)) = Len(s)
           /\ \A i \in 1..Len(s) : AsIntegers(s)[i] = IntOf(s[i])
<1>1. PICK n \in Nat : n = Len(s) /\ DOMAIN s = 1..n
  BY LenProperties
<1>2. PICK v : v = AsIntegers(s)
  OBVIOUS
<1>3. v = [i \in 1..n |-> IntOf(s[i])]
  BY <1>1, <1>2 DEF AsIntegers
<1>4. \A i \in 1..n : IntOf(s[i]) \in Value
  BY <1>1, IntOfTyped
<1>5. v \in Seq(Value) /\ Len(v) = n
  BY <1>3, <1>4
<1>. QED  BY <1>1, <1>2, <1>3, <1>5

\* What is coerced are integers, and integers that come first stay as they are.
LEMMA CoercedIsTyped ==
    ASSUME NEW s \in Seq(Value)
    PROVE  Coerced(s) \in Seq(Nat)
<1>1. Kept(AsIntegers(s), Nat) \in Seq(Value \cap Nat)
  BY AsIntegersTyped, KeptIsASequence
<1>2. Value \cap Nat = Nat
  BY DEF Value
<1>. QED  BY <1>1, <1>2, Zenon DEF Coerced

LEMMA AsIntegersConcat ==
    ASSUME NEW s \in Seq(Value), s \in Seq(Nat), NEW t \in Seq(Value)
    PROVE  AsIntegers(s \o t) = s \o AsIntegers(t)
<1>1. PICK m \in Nat, n \in Nat : m = Len(s) /\ n = Len(t)
  BY LenProperties
<1>2. PICK u \in Seq(Value) : u = s \o t
  BY ConcatProperties
<1>3. /\ Len(u) = m + n /\ \A i \in 1..m : u[i] = s[i]
      /\ \A i \in 1..n : u[m + i] = t[i]
  BY <1>1, <1>2, Joined
<1>4. PICK v \in Seq(Value) : v = AsIntegers(u)
  BY AsIntegersTyped
<1>5. Len(v) = m + n /\ \A i \in 1..(m + n) : v[i] = IntOf(u[i])
  BY <1>3, <1>4, AsIntegersTyped
<1>6. PICK w \in Seq(Value) : w = AsIntegers(t)
  BY AsIntegersTyped
<1>7. Len(w) = n /\ \A i \in 1..n : w[i] = IntOf(t[i])
  BY <1>1, <1>6, AsIntegersTyped
<1>8. PICK x \in Seq(Value) : x = s \o w
  BY ConcatProperties
<1>9. /\ Len(x) = m + n /\ \A i \in 1..m : x[i] = s[i]
      /\ \A i \in 1..n : x[m + i] = w[i]
  <2>1. /\ Len(x) = m + Len(w) /\ \A i \in 1..m : x[i] = s[i]
        /\ \A i \in 1..Len(w) : x[m + i] = w[i]
    BY <1>1, <1>8, Joined
  <2>. QED  BY <2>1, <1>7
<1>10. ASSUME NEW i \in 1..(m + n) PROVE v[i] = x[i]
  <2>1. CASE i =< m
    <3>1. i \in 1..m
      BY <2>1
    <3>2. v[i] = IntOf(s[i]) /\ x[i] = s[i]
      BY <3>1, <1>3, <1>5, <1>9
    <3>3. s[i] \in Nat
      BY <3>1, <1>1
    <3>. QED  BY <3>2, <3>3, IntOfTyped
  <2>2. CASE i > m
    <3>1. PICK j \in 1..n : i = m + j
      <4>1. i - m \in 1..n /\ i = m + (i - m)
        BY <2>2
      <4>. QED  BY <4>1
    <3>2. v[i] = IntOf(t[j]) /\ x[i] = IntOf(t[j])
      BY <3>1, <1>3, <1>5, <1>7, <1>9
    <3>. QED  BY <3>2
  <2>. QED  BY <2>1, <2>2
<1>11. v = x
  BY <1>5, <1>9, <1>10, SeqEqual
<1>. QED  BY <1>2, <1>4, <1>6, <1>8, <1>11

LEMMA PositionalIsTyped ==
    ASSUME NEW words \in Seq(Word)
    PROVE  /\ Positional(words) \in Seq(Value)
           /\ Coerced(Positional(words)) \in Seq(Nat)
<1>1. Positional(words) = FlattenSeq(ValuesOfAll(words))
  BY Zenon DEF Positional, ValuesOfAll
<1>2. ValuesOfAll(words) \in Seq(Seq(Value))
  BY ValuesOfAllTyped
<1>3. Positional(words) \in Seq(Value)
  BY <1>1, <1>2, FlatIsASequence
<1>. QED  BY <1>3, CoercedIsTyped

LEMMA KeywordsTyped ==
    ASSUME NEW words \in Seq(Word)
    PROVE  Keywords(words) \in SUBSET STRING
<1>1. ASSUME NEW i \in DOMAIN words PROVE KeysOf(words[i]) \in SUBSET STRING
  <2>1. words[i] \in Word
    OBVIOUS
  <2>. QED  BY <2>1, WordIsTyped
<1>2. ASSUME NEW k \in Keywords(words) PROVE k \in STRING
  <2>1. PICK i \in DOMAIN words : k \in KeysOf(words[i])
    BY Zenon DEF Keywords
  <2>. QED  BY <1>1, <2>1, Zenon
<1>. QED  BY <1>2, Zenon

LEMMA UpToFrom ==
    ASSUME NEW S, NEW s \in Seq(S), NEW n \in Nat
    PROVE  UpTo(n, s) \in Seq(S) /\ From(n, s) \in Seq(S)
<1>1. PICK m \in Nat : m = Len(s)
  BY LenProperties
<1>2. PICK h \in Nat : h = IF m < n THEN m ELSE n
  OBVIOUS
<1>3. UpTo(n, s) = SubSeq(s, 1, h) /\ From(n, s) = SubSeq(s, n + 1, m)
  BY <1>1, <1>2 DEF UpTo, From
<1>4. h =< m
  BY <1>2
<1>5. SubSeq(s, 1, h) \in Seq(S) /\ SubSeq(s, n + 1, m) \in Seq(S)
  BY <1>1, <1>4
<1>. QED  BY <1>3, <1>5

LEMMA FromMembers ==
    ASSUME NEW S, NEW s \in Seq(S), NEW n \in Nat, n =< Len(s)
    PROVE  /\ Len(From(n, s)) = Len(s) - n
           /\ \A i \in 1..(Len(s) - n) : From(n, s)[i] = s[n + i]
<1>1. PICK m \in Nat : m = Len(s) /\ n =< m
  BY LenProperties
<1>2. From(n, s) = SubSeq(s, n + 1, m)
  BY <1>1 DEF From
<1>3. /\ Len(SubSeq(s, n + 1, m)) = m - n
      /\ \A i \in 1..(m - n) : SubSeq(s, n + 1, m)[i] = s[n + i]
  BY <1>1
<1>. QED  BY <1>1, <1>2, <1>3

\* Where a sequence is taken apart again.
LEMMA TakenApart ==
    ASSUME NEW S, NEW s \in Seq(S), NEW t \in Seq(S), NEW m \in Nat, m = Len(s)
    PROVE  UpTo(m, s \o t) = s /\ From(m, s \o t) = t
<1>1. PICK n \in Nat : n = Len(t)
  BY LenProperties
<1>2. PICK u \in Seq(S) : u = s \o t
  BY ConcatProperties
<1>3. /\ Len(u) = m + n /\ \A i \in 1..m : u[i] = s[i]
      /\ \A i \in 1..n : u[m + i] = t[i]
  BY <1>1, <1>2, Joined
<1>4. UpTo(m, u) = s
  <2>1. ~(m + n < m) \/ n = 0
    OBVIOUS
  <2>2. PICK v : v = SubSeq(u, 1, m)
    OBVIOUS
  <2>3. UpTo(m, u) = v
    BY <1>3, <2>1, <2>2 DEF UpTo
  <2>4. v \in Seq(S) /\ Len(v) = m /\ \A i \in 1..m : v[i] = u[i]
    BY <1>3, <2>2
  <2>5. \A i \in 1..m : v[i] = s[i]
    BY <1>3, <2>4
  <2>. QED  BY <2>3, <2>4, <2>5, SeqEqual
<1>5. From(m, u) = t
  <2>1. PICK v \in Seq(S) : v = From(m, u)
    BY UpToFrom
  <2>2. m =< Len(u) /\ Len(u) - m = n
    BY <1>3
  <2>3. Len(v) = n /\ \A i \in 1..n : v[i] = u[m + i]
    <3>1. /\ Len(From(m, u)) = Len(u) - m
          /\ \A i \in 1..(Len(u) - m) : From(m, u)[i] = u[m + i]
      BY <2>2, FromMembers
    <3>. QED  BY <2>1, <2>2, <3>1
  <2>4. \A i \in 1..n : v[i] = t[i]
    BY <1>3, <2>3
  <2>. QED  BY <1>1, <2>1, <2>3, <2>4, SeqEqual
<1>. QED  BY <1>2, <1>4, <1>5

\* The first three words of a plan are its first three integers.
LEMMA ThreeNumbersFirst ==
    ASSUME NEW words \in Seq(Word), ThreeNumbers(words)
    PROVE  \E three \in Seq(Nat) :
              /\ three = [k \in 1..3 |-> words[k].values[1]]
              /\ Coerced(Positional(words)) = three \o Further(words)
<1>1. PICK n \in Nat : n = Len(words) /\ n >= 3 /\ DOMAIN words = 1..n
  BY LenProperties DEF ThreeNumbers
<1>2. PICK a, b, c : /\ a = words[1].values[1] /\ b = words[2].values[1]
                     /\ c = words[3].values[1]
  OBVIOUS
<1>3. /\ a \in Nat /\ b \in Nat /\ c \in Nat
      /\ ValuesOf(words[1]) = <<a>> /\ ValuesOf(words[2]) = <<b>>
      /\ ValuesOf(words[3]) = <<c>>
  <2>1. ASSUME NEW i \in 1..3
        PROVE  /\ words[i].values[1] \in Nat
               /\ ValuesOf(words[i]) = <<words[i].values[1]>>
    <3>1. PICK w \in Word : w = words[i]
      BY <1>1
    <3>2. ~w.escaped /\ Len(w.values) = 1 /\ w.values[1] \in Nat
      BY <3>1 DEF ThreeNumbers
    <3>3. w.values \in Seq(Value)
      BY DEF Word
    <3>4. w.values = <<w.values[1]>>
      BY <3>2, <3>3
    <3>5. ValuesOf(w) = w.values
      BY <3>2, Zenon DEF ValuesOf
    <3>. QED  BY <3>1, <3>2, <3>4, <3>5, Zenon
  <2>2. 1 \in 1..3 /\ 2 \in 1..3 /\ 3 \in 1..3
    OBVIOUS
  <2>. QED  BY <1>2, <2>1, <2>2, Zenon
<1>4. PICK rest \in Seq(Word) : rest = From(3, words)
  BY UpToFrom
<1>5. PICK vs \in Seq(Seq(Value)) : vs = ValuesOfAll(rest)
  BY ValuesOfAllTyped
<1>6. PICK hs : hs = <<<<a>>, <<b>>, <<c>>>>
  OBVIOUS
<1>7. a \in Value /\ b \in Value /\ c \in Value
  BY <1>3 DEF Value
<1>8. /\ hs \in Seq(Seq(Value)) /\ Len(hs) = 3
      /\ hs[1] = <<a>> /\ hs[2] = <<b>> /\ hs[3] = <<c>>
  BY <1>6, <1>7
<1>9. ValuesOfAll(words) = hs \o vs
  <2>1. PICK v \in Seq(Seq(Value)) : v = ValuesOfAll(words)
    BY ValuesOfAllTyped
  <2>2. Len(v) = n /\ \A i \in 1..n : v[i] = ValuesOf(words[i])
    BY <1>1, <2>1, ValuesOfAllTyped
  <2>3. /\ Len(rest) = n - 3 /\ Len(vs) = n - 3
        /\ \A i \in 1..(n - 3) : rest[i] = words[3 + i]
        /\ \A i \in 1..(n - 3) : vs[i] = ValuesOf(rest[i])
    <3>1. Len(rest) = n - 3 /\ \A i \in 1..(n - 3) : rest[i] = words[3 + i]
      <4>1. /\ Len(From(3, words)) = Len(words) - 3
            /\ \A i \in 1..(Len(words) - 3) : From(3, words)[i] = words[3 + i]
        BY <1>1, FromMembers
      <4>. QED  BY <1>1, <1>4, <4>1
    <3>. QED  BY <3>1, <1>5, ValuesOfAllTyped
  <2>4. PICK u \in Seq(Seq(Value)) : u = hs \o vs
    BY <1>8, ConcatProperties
  <2>5. /\ Len(u) = n /\ \A i \in 1..3 : u[i] = hs[i]
        /\ \A i \in 1..(n - 3) : u[3 + i] = vs[i]
    <3>1. /\ Len(u) = 3 + Len(vs)
          /\ \A i \in 1..3 : u[i] = hs[i]
          /\ \A i \in 1..Len(vs) : u[3 + i] = vs[i]
      <4>1. PICK m \in Nat : m = Len(hs) /\ m = 3
        BY <1>8
      <4>2. hs \in Seq(Seq(Value))
        BY <1>8
      <4>3. m = Len(hs) /\ u = hs \o vs
        BY <4>1, <2>4
      <4>4. /\ Len(u) = m + Len(vs)
            /\ \A i \in 1..m : u[i] = hs[i]
            /\ \A i \in 1..Len(vs) : u[m + i] = vs[i]
        BY <4>2, <4>3, Joined
      <4>. QED  BY <4>1, <4>4, Zenon
    <3>2. 3 + (n - 3) = n
      OBVIOUS
    <3>. QED  BY <2>3, <2>4, <3>1, <3>2
  <2>6. ASSUME NEW i \in 1..n PROVE v[i] = u[i]
    <3>1. CASE i =< 3
      <4>1. u[i] = hs[i]
        <5>1. i \in 1..3
          BY <3>1
        <5>. QED  BY <5>1, <2>5
      <4>2. i = 1 \/ i = 2 \/ i = 3
        BY <3>1
      <4>. QED  BY <1>3, <1>8, <2>2, <4>1, <4>2
    <3>2. CASE i > 3
      <4>1. PICK j \in 1..(n - 3) : i = 3 + j
        <5>1. i - 3 \in 1..(n - 3) /\ i = 3 + (i - 3)
          BY <3>2
        <5>. QED  BY <5>1
      <4>2. u[i] = vs[j]
        BY <2>5, <4>1
      <4>3. vs[j] = ValuesOf(words[i])
        BY <2>3, <4>1
      <4>. QED  BY <2>2, <4>2, <4>3
    <3>. QED  BY <3>1, <3>2
  <2>. QED  BY <2>1, <2>2, <2>4, <2>5, <2>6, SeqEqual
<1>10. FlattenSeq(hs) = <<a, b, c>>
  <2>1. <<>> \in Seq(Seq(Value)) /\ <<>> \in Seq(Value)
    BY EmptySeq
  <2>2. <<a>> \in Seq(Value) /\ <<b>> \in Seq(Value) /\ <<c>> \in Seq(Value)
    BY <1>7
  <2>3. PICK one \in Seq(Seq(Value)) : one = Append(<<>>, <<a>>)
    BY <2>1, <2>2, AppendProperties
  <2>4. FlattenSeq(one) = <<a>>
    <3>1. FlattenSeq(one) = FlattenSeq(<<>>) \o <<a>>
      BY <2>1, <2>2, <2>3, FlatAppend
    <3>2. <<>> \o <<a>> = <<a>>
      BY <2>2, ConcatEmptySeq
    <3>. QED  BY <3>1, <3>2, FlatEmpty, Zenon
  <2>5. PICK two \in Seq(Seq(Value)) : two = Append(one, <<b>>)
    BY <2>2, AppendProperties
  <2>6. FlattenSeq(two) = Append(<<a>>, b)
    <3>1. FlattenSeq(two) = <<a>> \o <<b>>
      BY <2>2, <2>4, <2>5, FlatAppend
    <3>. QED  BY <3>1, <2>2, <1>7, AppendIsConcat
  <2>7. FlattenSeq(hs) = Append(Append(<<a>>, b), c)
    <3>1. hs = Append(two, <<c>>)
      BY <1>6, <2>3, <2>5
    <3>2. FlattenSeq(hs) = Append(<<a>>, b) \o <<c>>
      BY <2>2, <2>6, <3>1, FlatAppend
    <3>3. Append(<<a>>, b) \in Seq(Value)
      BY <2>2, <1>7
    <3>. QED  BY <3>2, <3>3, <1>7, AppendIsConcat
  <2>8. <<a, b, c>> = Append(Append(<<a>>, b), c)
    <3>1. <<a, b>> = Append(<<a>>, b)
      BY <1>7
    <3>2. <<a, b, c>> = Append(<<a, b>>, c)
      BY <1>7
    <3>. QED  BY <3>1, <3>2, Zenon
  <2>. QED  BY <2>7, <2>8, Zenon
<1>11. PICK three : three = <<a, b, c>>
  OBVIOUS
<1>12. three \in Seq(Nat) /\ three \in Seq(Value)
  BY <1>3, <1>7, <1>11
<1>13. three = [k \in 1..3 |-> words[k].values[1]]
  BY <1>2, <1>11
<1>14. Positional(words) = three \o Positional(rest)
  <2>1. Positional(words) = FlattenSeq(ValuesOfAll(words))
    BY Zenon DEF Positional, ValuesOfAll
  <2>2. Positional(rest) = FlattenSeq(vs)
    BY <1>5, Zenon DEF Positional, ValuesOfAll
  <2>3. FlattenSeq(hs \o vs) = FlattenSeq(hs) \o FlattenSeq(vs)
    BY <1>8, FlatConcat
  <2>. QED  BY <1>9, <1>10, <1>11, <2>1, <2>2, <2>3, Zenon
<1>15. AsIntegers(Positional(words)) = three \o AsIntegers(Positional(rest))
  BY <1>12, <1>14, PositionalIsTyped, AsIntegersConcat
<1>16. Kept(three, Nat) = three
  BY <1>12, KeptAll
<1>17. Coerced(Positional(words)) = three \o Further(words)
  <2>1. AsIntegers(Positional(rest)) \in Seq(Value)
    BY PositionalIsTyped, AsIntegersTyped
  <2>2. Kept(three \o AsIntegers(Positional(rest)), Nat)
          = Kept(three, Nat) \o Kept(AsIntegers(Positional(rest)), Nat)
    BY <1>12, <2>1, KeptConcat
  <2>. QED  BY <1>4, <1>15, <1>16, <2>2, Zenon DEF Coerced, Further
<1>. QED  BY <1>12, <1>13, <1>17, Zenon

\* The numbers of such a plan, and its scenario's arguments.
LEMMA AsWritten ==
    ASSUME NEW plan \in Plan, ThreeNumbers(plan.words)
    PROVE  /\ ParsedPlan(plan).numbers = [k \in 1..3 |-> plan.words[k].values[1]]
           /\ ParsedPlan(plan).args = Further(plan.words)
           /\ Len(ParsedPlan(plan).numbers) = 3
<1>1. PICK words \in Seq(Word) : words = plan.words
  BY DEF Plan
<1>2. PICK three \in Seq(Nat) :
            /\ three = [k \in 1..3 |-> words[k].values[1]]
            /\ Coerced(Positional(words)) = three \o Further(words)
  BY <1>1, ThreeNumbersFirst
<1>3. PICK rest \in Seq(Nat) : rest = Further(words)
  <2>1. From(3, words) \in Seq(Word)
    BY UpToFrom
  <2>. QED  BY <2>1, PositionalIsTyped DEF Further
<1>4. PICK ints : ints = three \o rest
  OBVIOUS
<1>5. Len(three) = 3
  BY <1>2
<1>7. UpTo(3, ints) = three /\ From(3, ints) = rest
  BY <1>4, <1>5, TakenApart
<1>9. ParsedPlan(plan) = TestPlan(plan.func, three, rest, Keywords(plan.words))
  BY <1>1, <1>2, <1>3, <1>4, <1>7, Zenon DEF ParsedPlan
<1>10. ParsedPlan(plan).numbers = three /\ ParsedPlan(plan).args = rest
  BY <1>9 DEF TestPlan
<1>. QED  BY <1>1, <1>2, <1>3, <1>5, <1>10, Zenon
-----------------------------------------------------------------------------
(* The invariant. *)

\* Whether an input is accepted, and the plans that it then stands for.
Accepted(in) ==
    IF in.program = "scenario" THEN ScenarioParses(in.plans[1])
    ELSE \A i \in DOMAIN in.plans : Parses(in.plans[i])

Reading(in) ==
    IF in.program = "scenario" THEN <<ParsedScenario(in.plans[1])>>
    ELSE [i \in DOMAIN in.plans |-> ParsedPlan(in.plans[i])]

\* There are plans once the input was accepted, and they are what it says.
PlansAreRead ==
    /\ phase \in {"given", "refused"} => testplans = <<>> /\ ran = 0
    /\ phase = "refused" => ~Accepted(input)
    /\ phase \in {"parsed", "started", "raised"} =>
          Accepted(input) /\ testplans = Reading(input)

\* A start that was given up met a plan that cannot be run; only the
\* arguments of aplt_scenario have a URL.
RaisedForACause ==
    /\ phase = "raised" => ran < ToRun /\ ~Runs(testplans[ran + 1])
    /\ input.program # "scenario" => url = "default"

ArgumentsInv ==
    /\ input \in Inputs
    /\ TypeOK
    /\ PlansAreRead
    /\ RaisedForACause

TestPlans == [func : Function, numbers : Seq(Nat), args : Seq(Nat),
              keys : SUBSET STRING]

LEMMA InputIsTyped ==
    ASSUME NEW in \in Inputs
    PROVE  /\ in.plans \in Seq(Plan) /\ in.plans # <<>>
           /\ in.program \in {"scenario", "testplan", "spawn"}
           /\ in.program = "scenario" => Len(in.plans) = 1
           /\ \A i \in DOMAIN in.plans :
                 in.plans[i].func.defaults =< Len(in.plans[i].func.names)
<1>1. in \in Input
  BY InputsAreWellFormed
<1>2. in.plans \in Seq(Plan) /\ in.program \in {"scenario", "testplan", "spawn"}
  BY <1>1 DEF Input, Plan
<1>. QED  BY <1>2, InputsAreWellFormed, Zenon

LEMMA TestPlanIsTyped ==
    ASSUME NEW f \in Function, NEW numbers \in Seq(Nat), NEW args \in Seq(Nat),
           NEW keys \in SUBSET STRING
    PROVE  TestPlan(f, numbers, args, keys) \in TestPlans
BY Zenon DEF TestPlan, TestPlans

LEMMA ParsedPlanIsTyped ==
    ASSUME NEW plan \in Plan
    PROVE  ParsedPlan(plan) \in TestPlans
<1>1. PICK f \in Function, words \in Seq(Word) :
            f = plan.func /\ words = plan.words
  BY DEF Plan
<1>2. PICK ints \in Seq(Nat) : ints = Coerced(Positional(words))
  BY PositionalIsTyped
<1>3. UpTo(3, ints) \in Seq(Nat) /\ From(3, ints) \in Seq(Nat)
  BY UpToFrom
<1>4. Keywords(words) \in SUBSET STRING
  BY KeywordsTyped
<1>5. ParsedPlan(plan)
        = TestPlan(f, UpTo(3, ints), From(3, ints), Keywords(words))
  BY <1>1, <1>2, Zenon DEF ParsedPlan
<1>. QED  BY <1>3, <1>4, <1>5, TestPlanIsTyped, Zenon

LEMMA ParsedScenarioIsTyped ==
    ASSUME NEW plan \in Plan
    PROVE  ParsedScenario(plan) \in TestPlans
<1>1. PICK f \in Function, words \in Seq(Word) :
            f = plan.func /\ words = plan.words
  BY DEF Plan
<1>2. PICK values \in Seq(Value) : values = Positional(words)
  BY PositionalIsTyped
<1>3. WithoutUrl(values) \in Seq(Value)
  <2>1. CASE values # <<>>
    <3>1. Front(values) \in Seq(Value)
      BY <2>1 DEF Front
    <3>. QED  BY <3>1, Zenon DEF WithoutUrl
  <2>2. CASE values = <<>>
    BY <2>2, Zenon DEF WithoutUrl, UrlFirst
  <2>. QED  BY <2>1, <2>2
<1>4. Coerced(WithoutUrl(values)) \in Seq(Nat)
  BY <1>3, CoercedIsTyped
<1>5. Keywords(words) \in SUBSET STRING
  BY KeywordsTyped
<1>6. <<1, 1, 0>> \in Seq(Nat)
  OBVIOUS
<1>7. ParsedScenario(plan)
        = TestPlan(f, <<1, 1, 0>>, Coerced(WithoutUrl(values)), Keywords(words))
  BY <1>1, <1>2, Zenon DEF ParsedScenario
<1>. QED  BY <1>4, <1>5, <1>6, <1>7, TestPlanIsTyped, Zenon

LEMMA ReadingIsTyped ==
    ASSUME NEW in \in Inputs
    PROVE  Reading(in) \in Seq(TestPlans) /\ Len(Reading(in)) = Len(in.plans)
<1>1. PICK plans \in Seq(Plan) : plans = in.plans /\ plans # <<>>
  BY InputIsTyped
<1>2. PICK n \in Nat : n = Len(plans) /\ n >= 1 /\ DOMAIN plans = 1..n
  BY <1>1, EmptySeq
<1>3. CASE in.program = "scenario"
  <2>1. n = 1
    BY <1>1, <1>2, <1>3, InputIsTyped
  <2>2. PICK p \in TestPlans : p = ParsedScenario(plans[1])
    <3>1. plans[1] \in Plan
      BY <1>2
    <3>. QED  BY <3>1, ParsedScenarioIsTyped
  <2>3. Reading(in) = <<p>>
    BY <1>1, <1>3, <2>2, Zenon DEF Reading
  <2>4. <<p>> \in Seq(TestPlans) /\ Len(<<p>>) = 1
    OBVIOUS
  <2>. QED  BY <1>1, <1>2, <2>1, <2>3, <2>4
<1>4. CASE in.program # "scenario"
  <2>1. Reading(in) = [i \in 1..n |-> ParsedPlan(plans[i])]
    BY <1>1, <1>2, <1>4, Zenon DEF Reading
  <2>2. \A i \in 1..n : ParsedPlan(plans[i]) \in TestPlans
    BY <1>2, ParsedPlanIsTyped
  <2>. QED  BY <1>1, <1>2, <2>1, <2>2
<1>. QED  BY <1>3, <1>4

LEMMA InitInv == Init => ArgumentsInv
<1>. SUFFICES ASSUME Init PROVE ArgumentsInv
  OBVIOUS
<1>1. /\ input \in Inputs /\ phase = "given" /\ testplans = <<>> /\ ran = 0
      /\ url = "default"
  BY DEF Init
<1>2. <<>> \in Seq(TestPlans) /\ 0 \in 0..Len(<<>>)
  BY EmptySeq
<1>3. TypeOK
  BY <1>1, <1>2 DEF TypeOK, TestPlans
<1>. QED  BY <1>1, <1>3 DEF ArgumentsInv, PlansAreRead, RaisedForACause

LEMMA NextInv == ArgumentsInv /\ [Next]_vars => ArgumentsInv'
<1>. SUFFICES ASSUME ArgumentsInv, [Next]_vars PROVE ArgumentsInv'
  OBVIOUS
<1>1. input \in Inputs /\ TypeOK /\ PlansAreRead /\ RaisedForACause
  BY DEF ArgumentsInv
<1>2. /\ Reading(input) \in Seq(TestPlans)
      /\ Len(Reading(input)) = Len(input.plans)
  BY <1>1, ReadingIsTyped
<1>3. PICK n \in Nat : n = Len(input.plans) /\ n >= 1
  <2>1. input.plans \in Seq(Plan) /\ input.plans # <<>>
    BY <1>1, InputIsTyped
  <2>. QED  BY <2>1, EmptySeq
<1>4. ASSUME phase = "given", phase' \in {"parsed", "refused"},
             phase' = "parsed" => Accepted(input) /\ testplans' = Reading(input),
             phase' = "refused" => ~Accepted(input) /\ testplans' = testplans,
             url' \in {"default", "given", "wrong"},
             input.program # "scenario" => url' = url,
             input' = input, ran' = ran
      PROVE  ArgumentsInv'
  <2>1. testplans = <<>> /\ ran = 0
    BY <1>1, <1>4 DEF PlansAreRead
  <2>2. testplans' \in Seq(TestPlans) /\ ran' \in 0..Len(testplans')
    <3>1. CASE phase' = "parsed"
      BY <3>1, <2>1, <1>2, <1>3, <1>4
    <3>2. CASE phase' = "refused"
      <4>1. <<>> \in Seq(TestPlans) /\ 0 \in 0..Len(<<>>)
        BY EmptySeq
      <4>. QED  BY <3>2, <2>1, <4>1, <1>4
    <3>. QED  BY <3>1, <3>2, <1>4
  <2>3. TypeOK'
    BY <2>2, <1>4 DEF TypeOK, TestPlans
  <2>4. PlansAreRead'
    BY <2>1, <1>4 DEF PlansAreRead
  <2>5. RaisedForACause'
    BY <1>1, <1>4 DEF RaisedForACause
  <2>. QED  BY <1>1, <1>4, <2>3, <2>4, <2>5 DEF ArgumentsInv
<1>5. CASE ParseScenario
  <2>1. /\ phase = "given" /\ input.program = "scenario"
        /\ input' = input /\ ran' = ran
    BY <1>5 DEF ParseScenario
  <2>2. CASE ScenarioParses(input.plans[1])
    <3>1. /\ phase' = "parsed" /\ testplans' = <<ParsedScenario(input.plans[1])>>
          /\ url' \in {"default", "given", "wrong"}
      BY <1>5, <2>2 DEF ParseScenario
    <3>2. Accepted(input) /\ testplans' = Reading(input)
      BY <2>1, <2>2, <3>1, Zenon DEF Accepted, Reading
    <3>. QED  BY <1>4, <2>1, <3>1, <3>2
  <2>3. CASE ~ScenarioParses(input.plans[1])
    <3>1. phase' = "refused" /\ testplans' = testplans /\ url' = url
      BY <1>5, <2>3 DEF ParseScenario
    <3>2. ~Accepted(input)
      BY <2>1, <2>3, Zenon DEF Accepted
    <3>3. url \in {"default", "given", "wrong"}
      BY <1>1 DEF TypeOK
    <3>. QED  BY <1>4, <2>1, <3>1, <3>2, <3>3
  <2>. QED  BY <2>2, <2>3
<1>6. CASE ParseTestplan
  <2>1. /\ phase = "given" /\ input.program # "scenario"
        /\ input' = input /\ ran' = ran /\ url' = url
    BY <1>6 DEF ParseTestplan
  <2>2. url \in {"default", "given", "wrong"}
    BY <1>1 DEF TypeOK
  <2>3. CASE \A i \in DOMAIN input.plans : Parses(input.plans[i])
    <3>1. phase' = "parsed"
          /\ testplans' = [i \in DOMAIN input.plans |->
                              ParsedPlan(input.plans[i])]
      BY <1>6, <2>3, Zenon DEF ParseTestplan
    <3>2. Accepted(input) /\ testplans' = Reading(input)
      BY <2>1, <2>3, <3>1, Zenon DEF Accepted, Reading
    <3>. QED  BY <1>4, <2>1, <2>2, <3>1, <3>2
  <2>4. CASE ~\A i \in DOMAIN input.plans : Parses(input.plans[i])
    <3>1. phase' = "refused" /\ testplans' = testplans
      BY <1>6, <2>4, Zenon DEF ParseTestplan
    <3>2. ~Accepted(input)
      BY <2>1, <2>4, Zenon DEF Accepted
    <3>. QED  BY <1>4, <2>1, <2>2, <3>1, <3>2
  <2>. QED  BY <2>3, <2>4
<1>7. CASE RunTestplan
  <2>1. /\ phase = "parsed" /\ ran < ToRun
        /\ input' = input /\ testplans' = testplans /\ url' = url
    BY <1>7 DEF RunTestplan
  <2>2. testplans = Reading(input) /\ Accepted(input) /\ Len(testplans) = n
    BY <1>1, <1>2, <1>3, <2>1 DEF PlansAreRead
  <2>3. ran \in 0..n /\ testplans \in Seq(TestPlans)
        /\ url \in {"default", "given", "wrong"}
    BY <1>1, <2>2 DEF TypeOK, TestPlans
  <2>4. ToRun =< n /\ ToRun' = ToRun /\ ToRun \in Nat
    BY <1>3, <2>1, <2>2 DEF ToRun
  <2>5. CASE Runs(testplans[ran + 1])
    <3>1. ran' = ran + 1 /\ phase' = phase
      BY <1>7, <2>5 DEF RunTestplan
    <3>2. ran' \in 0..n
      BY <2>1, <2>3, <2>4, <3>1
    <3>3. TypeOK'
      BY <2>1, <2>2, <2>3, <3>1, <3>2 DEF TypeOK, TestPlans
    <3>4. PlansAreRead'
      BY <2>1, <2>2, <3>1 DEF PlansAreRead
    <3>5. RaisedForACause'
      BY <1>1, <2>1, <3>1 DEF RaisedForACause
    <3>. QED  BY <1>1, <2>1, <3>3, <3>4, <3>5 DEF ArgumentsInv
  <2>6. CASE ~Runs(testplans[ran + 1])
    <3>1. ran' = ran /\ phase' = "raised"
      BY <1>7, <2>6 DEF RunTestplan
    <3>2. TypeOK'
      BY <2>1, <2>2, <2>3, <3>1 DEF TypeOK, TestPlans
    <3>3. PlansAreRead'
      BY <2>1, <2>2, <3>1 DEF PlansAreRead
    <3>4. ~Runs(testplans[ran + 1])'
      BY <2>1, <2>6, <3>1 DEF Runs
    <3>5. RaisedForACause'
      BY <1>1, <2>1, <2>4, <3>1, <3>4 DEF RaisedForACause
    <3>. QED  BY <1>1, <2>1, <3>2, <3>3, <3>5 DEF ArgumentsInv
  <2>. QED  BY <2>5, <2>6
<1>8. CASE Started
  <2>1. /\ phase = "parsed" /\ phase' = "started" /\ input' = input
        /\ testplans' = testplans /\ ran' = ran /\ url' = url
    BY <1>8 DEF Started
  <2>. QED  BY <1>1, <2>1
            DEF ArgumentsInv, TypeOK, PlansAreRead, RaisedForACause
<1>9. CASE UNCHANGED vars
  <2>1. /\ input' = input /\ phase' = phase /\ testplans' = testplans
        /\ ran' = ran /\ url' = url
    BY <1>9 DEF vars
  <2>2. ToRun' = ToRun /\ Runs(testplans[ran + 1])' = Runs(testplans[ran + 1])
    BY <2>1 DEF ToRun, Runs
  <2>. QED  BY <1>1, <2>1, <2>2
            DEF ArgumentsInv, TypeOK, PlansAreRead, RaisedForACause
<1>. QED  BY <1>5, <1>6, <1>7, <1>8, <1>9 DEF Next

\* Every state of the parser is typed, and its plans are what the input says.
THEOREM PlansAreWhatTheInputSays == Spec => []ArgumentsInv
<1>. QED  BY InitInv, NextInv, PTL DEF Spec

\* TypeOK holds: numbers and arguments are integers, keywords are names.
THEOREM ArgumentsAreTyped == Spec => []TypeOK
<1>1. ArgumentsInv => TypeOK
  BY DEF ArgumentsInv
<1>. QED  BY <1>1, PlansAreWhatTheInputSays, PTL

-----------------------------------------------------------------------------
(* What follows from it. *)

\* The plans there are, one by one.
LEMMA PlanByPlan ==
    ASSUME ArgumentsInv, NEW i \in DOMAIN testplans
    PROVE  /\ i \in DOMAIN input.plans /\ input.plans[i] \in Plan
           /\ Accepted(input)
           /\ input.program # "scenario" => testplans[i] = ParsedPlan(input.plans[i])
           /\ input.program = "scenario" =>
                 i = 1 /\ testplans[i] = ParsedScenario(input.plans[i])
<1>1. input \in Inputs /\ TypeOK /\ PlansAreRead
  BY DEF ArgumentsInv
<1>2. testplans = Reading(input) /\ Accepted(input)
  <2>1. testplans # <<>>
    OBVIOUS
  <2>2. phase \in {"parsed", "started", "raised"}
    BY <1>1, <2>1 DEF PlansAreRead, TypeOK
  <2>. QED  BY <1>1, <2>2 DEF PlansAreRead
<1>3. PICK n \in Nat : n = Len(input.plans) /\ n = Len(testplans)
  <2>1. input.plans \in Seq(Plan)
    BY <1>1, InputIsTyped
  <2>. QED  BY <2>1, <1>1, <1>2, ReadingIsTyped
<1>4. DOMAIN testplans = 1..n /\ DOMAIN input.plans = 1..n
  <2>1. input.plans \in Seq(Plan)
    BY <1>1, InputIsTyped
  <2>2. testplans \in Seq(TestPlans)
    BY <1>1, <1>2, ReadingIsTyped
  <2>. QED  BY <2>1, <2>2, <1>3, LenProperties
<1>5. input.plans[i] \in Plan
  <2>1. input.plans \in Seq(Plan)
    BY <1>1, InputIsTyped
  <2>. QED  BY <2>1, <1>4
<1>6. CASE input.program # "scenario"
  <2>1. testplans[i] = ParsedPlan(input.plans[i])
    BY <1>2, <1>4, <1>6, Zenon DEF Reading
  <2>. QED  BY <1>2, <1>4, <1>5, <1>6, <2>1
<1>7. CASE input.program = "scenario"
  <2>1. n = 1
    BY <1>1, <1>3, <1>7, InputIsTyped
  <2>2. i = 1
    BY <2>1, <1>4
  <2>3. testplans = <<ParsedScenario(input.plans[1])>>
    BY <1>2, <1>7, Zenon DEF Reading
  <2>4. testplans[1] = ParsedScenario(input.plans[1])
    BY <2>3
  <2>. QED  BY <1>2, <1>4, <1>5, <1>7, <2>2, <2>4
<1>. QED  BY <1>6, <1>7

\* NumbersAreAsWritten holds, for plans of any length: what the first three
\* words say becomes the three numbers, what the others say the arguments.
THEOREM NumbersStayAsWritten == Spec => []NumbersAreAsWritten
<1>1. ASSUME ArgumentsInv PROVE NumbersAreAsWritten
  <2>. SUFFICES ASSUME input.program # "scenario", NEW i \in DOMAIN testplans,
                       NEW words, words = input.plans[i].words,
                       ThreeNumbers(words)
                PROVE  /\ testplans[i].numbers
                            = [k \in 1..3 |-> words[k].values[1]]
                       /\ testplans[i].args = Further(words)
    BY Zenon DEF NumbersAreAsWritten
  <2>1. /\ input.plans[i] \in Plan
        /\ testplans[i] = ParsedPlan(input.plans[i])
    BY <1>1, PlanByPlan
  <2>. QED  BY <2>1, AsWritten, Zenon
<1>. QED  BY <1>1, PlansAreWhatTheInputSays, PTL

\* verify_arguments asks exactly what a call without keywords needs.
LEMMA VerifiesIsCanCall ==
    ASSUME NEW f \in Function, f.defaults =< Len(f.names), NEW n \in Nat
    PROVE  Verifies(f, n) <=> CanCall(f, n, {})
<1>1. PICK m \in Nat : m = Len(f.names) /\ DOMAIN f.names = 1..m
  BY DEF Function
<1>2. PICK d \in Nat : d = f.defaults
  BY DEF Function
<1>3. d =< m
  BY <1>1, <1>2
<1>4. Verifies(f, n) <=> n >= m - d /\ (f.varargs \/ n =< m)
  BY <1>1, <1>2 DEF Verifies
<1>5. CanCall(f, n, {}) <=>
        /\ f.varargs \/ n =< m
        /\ \A i \in {i \in 1..m : i > n} : i =< m - d => FALSE
  BY <1>1, <1>2, Zenon DEF CanCall
<1>6. (\A i \in {i \in 1..m : i > n} : i =< m - d => FALSE) <=> n >= m - d
  <2>1. ASSUME n >= m - d, NEW i \in 1..m, i > n, i =< m - d PROVE FALSE
    BY <1>3, <2>1
  <2>2. ASSUME ~(n >= m - d)
        PROVE  \E i \in 1..m : i > n /\ i =< m - d
    <3>1. n + 1 \in 1..m /\ n + 1 > n /\ n + 1 =< m - d
      BY <1>3, <2>2
    <3>. QED  BY <3>1
  <2>. QED  BY <2>1, <2>2
<1>. QED  BY <1>4, <1>5, <1>6, Zenon

\* VerifiedCanBeCalled holds: whatever scenario functions there are.
THEOREM WhatIsVerifiedCanBeCalled == Spec => []VerifiedCanBeCalled
<1>1. ASSUME ArgumentsInv PROVE VerifiedCanBeCalled
  <2>. SUFFICES ASSUME NEW i \in DOMAIN testplans, testplans[i].keys = {},
                       input.plans[i].words # <<>>
                PROVE  CanCall(testplans[i].func, Len(testplans[i].args), {})
    BY Zenon DEF VerifiedCanBeCalled
  <2>1. input \in Inputs
    BY <1>1 DEF ArgumentsInv
  <2>2. PICK plan \in Plan : plan = input.plans[i] /\ i \in DOMAIN input.plans
    BY <1>1, PlanByPlan
  <2>3. plan.func \in Function /\ plan.func.defaults =< Len(plan.func.names)
    BY <2>1, <2>2, InputIsTyped DEF Plan
  <2>4. Accepted(input)
    BY <1>1, PlanByPlan
  <2>5. testplans[i] \in TestPlans /\ testplans[i].func = plan.func
        /\ Verifies(plan.func, Len(testplans[i].args))
    <3>1. CASE input.program # "scenario"
      <4>1. testplans[i] = ParsedPlan(plan)
        BY <1>1, <2>2, <3>1, PlanByPlan
      <4>2. Parses(plan)
        BY <2>2, <2>4, <3>1, Zenon DEF Accepted
      <4>3. ParsedPlan(plan).func = plan.func
        BY DEF ParsedPlan, TestPlan
      <4>. QED  BY <4>1, <4>2, <4>3, ParsedPlanIsTyped DEF Parses
    <3>2. CASE input.program = "scenario"
      <4>1. testplans[i] = ParsedScenario(plan) /\ i = 1
        BY <1>1, <2>2, <3>2, PlanByPlan
      <4>2. ScenarioParses(plan)
        BY <2>2, <2>4, <3>2, <4>1, Zenon DEF Accepted
      <4>3. ParsedScenario(plan).func = plan.func
        BY DEF ParsedScenario, TestPlan
      <4>. QED  BY <2>2, <4>1, <4>2, <4>3, ParsedScenarioIsTyped DEF ScenarioParses
    <3>. QED  BY <3>1, <3>2
  <2>6. Len(testplans[i].args) \in Nat
    BY <2>5 DEF TestPlans
  <2>. QED  BY <2>3, <2>5, <2>6, VerifiesIsCanCall
<1>. QED  BY <1>1, PlansAreWhatTheInputSays, PTL

\* A plan that is as the usage has it, for a scenario that takes its arguments.
AsDocumented(plan) ==
    /\ ThreeNumbers(plan.words)
    /\ plan.words[2].values[1] > 0
    /\ CanCall(plan.func, Len(Further(plan.words)), {})
    /\ Keywords(plan.words) \cap (HarnessParameters \cup {"func"}) = {}

\* DocumentedPlansStart holds: a plan as the usage has it is neither refused
\* nor does starting it raise.
THEOREM DocumentedPlansAreStarted == Spec => []DocumentedPlansStart
<1>1. ASSUME ArgumentsInv PROVE DocumentedPlansStart
  <2>. SUFFICES ASSUME input.program # "scenario",
                       \A i \in DOMAIN input.plans : AsDocumented(input.plans[i])
                PROVE  phase \notin {"refused", "raised"}
    BY Zenon DEF DocumentedPlansStart, AsDocumented
  <2>1. input \in Inputs /\ PlansAreRead /\ RaisedForACause /\ TypeOK
    BY <1>1 DEF ArgumentsInv
  <2>2. ASSUME NEW i \in DOMAIN input.plans PROVE Parses(input.plans[i])
    <3>1. PICK plan : plan = input.plans[i]
      OBVIOUS
    <3>2. plan \in Plan /\ plan.func.defaults =< Len(plan.func.names)
      <4>1. input.plans \in Seq(Plan)
        BY <2>1, InputIsTyped
      <4>. QED  BY <2>1, <3>1, <4>1, InputIsTyped
    <3>3. AsDocumented(plan)
      BY <3>1
    <3>4. ParsedPlan(plan).args = Further(plan.words)
      BY <3>2, <3>3, AsWritten DEF AsDocumented
    <3>5. Len(Further(plan.words)) \in Nat /\ plan.func \in Function
      <4>1. plan.words \in Seq(Word) /\ plan.func \in Function
        BY <3>2 DEF Plan
      <4>2. From(3, plan.words) \in Seq(Word)
        BY <4>1, UpToFrom
      <4>3. Further(plan.words) \in Seq(Nat)
        BY <4>2, PositionalIsTyped DEF Further
      <4>. QED  BY <4>1, <4>3
    <3>6. Verifies(plan.func, Len(ParsedPlan(plan).args))
      BY <3>2, <3>3, <3>4, <3>5, VerifiesIsCanCall DEF AsDocumented
    <3>7. Len(plan.words) >= 3
      BY <3>3 DEF AsDocumented, ThreeNumbers
    <3>8. Passed(plan)
      BY <3>3, Zenon DEF AsDocumented, Passed
    <3>. QED  BY <3>1, <3>6, <3>7, <3>8 DEF Parses
  <2>3. phase # "refused"
    <3>1. Accepted(input)
      BY <2>2, Zenon DEF Accepted
    <3>. QED  BY <2>1, <3>1 DEF PlansAreRead
  <2>4. ASSUME phase = "raised" PROVE FALSE
    <3>1. ran < ToRun /\ ~Runs(testplans[ran + 1]) /\ url = "default"
      BY <2>1, <2>4 DEF RaisedForACause
    <3>2. PICK i \in DOMAIN testplans : i = ran + 1
      <4>1. testplans = Reading(input)
        BY <2>1, <2>4 DEF PlansAreRead
      <4>2. PICK n \in Nat : n = Len(testplans) /\ n >= 1
                             /\ DOMAIN testplans = 1..n
        <5>1. input.plans \in Seq(Plan) /\ input.plans # <<>>
          BY <2>1, InputIsTyped
        <5>2. testplans \in Seq(TestPlans) /\ Len(testplans) = Len(input.plans)
          BY <2>1, <4>1, ReadingIsTyped
        <5>3. Len(input.plans) \in Nat /\ Len(input.plans) # 0
          BY <5>1, EmptySeq
        <5>. QED  BY <5>2, <5>3
      <4>3. ToRun =< n /\ ran \in Nat /\ ToRun \in Nat
        BY <2>1, <4>2 DEF ToRun, TypeOK
      <4>. QED  BY <3>1, <4>2, <4>3
    <3>3. PICK plan \in Plan :
                plan = input.plans[i] /\ testplans[i] = ParsedPlan(plan)
                /\ AsDocumented(plan)
      BY <1>1, PlanByPlan
    <3>4. /\ Len(ParsedPlan(plan).numbers) = 3
          /\ ParsedPlan(plan).numbers = [k \in 1..3 |-> plan.words[k].values[1]]
      BY <3>3, AsWritten DEF AsDocumented
    <3>5. ParsedPlan(plan).numbers[2] > 0
      BY <3>3, <3>4 DEF AsDocumented
    <3>6. ParsedPlan(plan).keys \cap HarnessParameters = {}
      <4>1. ParsedPlan(plan).keys = Keywords(plan.words)
        BY DEF ParsedPlan, TestPlan
      <4>. QED  BY <3>3, <4>1, Zenon DEF AsDocumented
    <3>7. url # "wrong"
      BY <3>1
    <3>8. Runs(ParsedPlan(plan))
      BY <3>4, <3>5, <3>6, <3>7, Zenon DEF Runs
    <3>. QED  BY <3>1, <3>2, <3>3, <3>8
  <2>. QED  BY <2>3, <2>4
<1>. QED  BY <1>1, PlansAreWhatTheInputSays, PTL
=============================================================================
