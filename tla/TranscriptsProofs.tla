------------------------- MODULE TranscriptsProofs -------------------------
(***************************************************************************)
(* What holds of segments, clips, evidence and requests for all answers of *)
(* the models, all lengths of texts and recordings, all limits.            *)
(*                                                                         *)
(* Induction over numbers, finite sets and sequences rests on Ranked, and  *)
(* so on the pigeonhole principle: a set of numbers has a least member.    *)
(***************************************************************************)
EXTENDS Transcripts, FiniteSetTheorems, SequenceTheorems, TLAPS

-----------------------------------------------------------------------------
(* Sorting *)

\* A finite set has as many members as it has predecessors of members, if of
\* two members one comes before the other.
LEMMA Ranked ==
    ASSUME NEW S, IsFiniteSet(S), NEW Below \in [S -> SUBSET S],
           \A x \in S : x \notin Below[x],
           \A x, y \in S : x # y => x \in Below[y] \/ y \in Below[x],
           \A x, y \in S : x \in Below[y] => Below[x] \subseteq Below[y],
           NEW k \in 0..(Cardinality(S) - 1)
    PROVE  \E x \in S : Cardinality(Below[x]) = k
<1> DEFINE n     == Cardinality(S)
           f     == [x \in S |-> Cardinality(Below[x])]
           Holes == (0..(n - 1)) \ {k}
<1>1. n \in Nat
  BY FS_CardinalityType
<1>2. ASSUME NEW x \in S
      PROVE  /\ IsFiniteSet(Below[x]) /\ Cardinality(Below[x]) \in Nat
             /\ Cardinality(Below[x]) <= n - 1
  <2>1. IsFiniteSet(S \ {x}) /\ Cardinality(S \ {x}) = n - 1
    BY FS_RemoveElement
  <2>2. Below[x] \in SUBSET (S \ {x})
    OBVIOUS
  <2>3. IsFiniteSet(Below[x]) /\ Cardinality(Below[x]) <= n - 1
    BY <2>1, <2>2, FS_Subset
  <2> QED  BY <2>3, FS_CardinalityType
<1>3. ASSUME NEW x \in S, NEW y \in S, x \in Below[y]
      PROVE  Cardinality(Below[x]) # Cardinality(Below[y])
  <2>1. Below[x] \in SUBSET Below[y] /\ Below[x] # Below[y]
    BY <1>3
  <2> QED  BY <1>2, <2>1, FS_Subset
<1>4. SUFFICES ASSUME \A x \in S : Cardinality(Below[x]) # k
               PROVE  FALSE
  OBVIOUS
<1>5. f \in [S -> Holes]
  BY <1>1, <1>2, <1>4
<1>6. IsFiniteSet(Holes) /\ Cardinality(Holes) = n - 1
  <2>1. IsFiniteSet(0..(n - 1)) /\ Cardinality(0..(n - 1)) = n
    BY <1>1, FS_Interval
  <2>2. k \in 0..(n - 1)
    OBVIOUS
  <2> QED  BY <2>1, <2>2, FS_RemoveElement
<1>7. \E x, y \in S : x # y /\ f[x] = f[y]
  <2>1. Cardinality(Holes) < Cardinality(S)
    BY <1>1, <1>6
  <2> HIDE DEF f, Holes
  <2> QED  BY <1>5, <1>6, <2>1, FS_PigeonHole
<1> QED  BY <1>3, <1>7

-----------------------------------------------------------------------------
(* Induction over numbers, finite sets and sequences *)

\* A set of numbers has a least one.
LEMMA Least ==
    ASSUME NEW S \in SUBSET Nat, S # {}
    PROVE  \E n \in S : \A m \in S : n <= m
<1>1. PICK t \in S : TRUE
  OBVIOUS
<1> DEFINE U     == S \cap (0..t)
           Below == [x \in U |-> {y \in U : y < x}]
<1>2. IsFiniteSet(U) /\ t \in U
  <2>1. t \in Nat /\ t \in 0..t /\ IsFiniteSet(0..t)
    BY FS_Interval
  <2>2. U \in SUBSET (0..t)
    OBVIOUS
  <2> QED  BY <2>1, <2>2, FS_Subset
<1>3. 0 \in 0..(Cardinality(U) - 1)
  <2> HIDE DEF U
  <2>1. Cardinality(U) \in Nat /\ Cardinality(U) # 0
    BY <1>2, FS_CardinalityType, FS_EmptySet
  <2> QED  BY <2>1
<1>4. /\ Below \in [U -> SUBSET U]
      /\ \A x \in U : x \notin Below[x]
      /\ \A x, y \in U : x # y => x \in Below[y] \/ y \in Below[x]
      /\ \A x, y \in U : x \in Below[y] => Below[x] \subseteq Below[y]
  <2>1. \A x \in U : x \in Nat
    OBVIOUS
  <2> HIDE DEF U
  <2> QED  BY <2>1
<1>5. \E x \in U : Cardinality(Below[x]) = 0
  <2> HIDE DEF U, Below
  <2>1. \A k \in 0..(Cardinality(U) - 1) : \E x \in U : Cardinality(Below[x]) = k
    BY <1>2, <1>4, Ranked
  <2> QED  BY <1>3, <2>1
<1>6. PICK n \in U : Cardinality(Below[n]) = 0
  BY <1>5
<1>7. Below[n] = {}
  <2>1. Below[n] \in SUBSET U
    OBVIOUS
  <2> HIDE DEF U, Below
  <2>2. IsFiniteSet(Below[n])
    BY <1>2, <2>1, FS_Subset
  <2> QED  BY <1>6, <2>2, FS_EmptySet
<1>8. \A m \in S : n <= m
  BY <1>7
<1> QED  BY <1>8

\* What holds of 0, and of n + 1 if it does of n, holds of all numbers.
LEMMA Induction ==
    ASSUME NEW S \in SUBSET Nat, 0 \in S, \A n \in S : n + 1 \in S
    PROVE  S = Nat
<1> SUFFICES ASSUME Nat \ S # {} PROVE FALSE
  OBVIOUS
<1>1. PICK n \in Nat \ S : \A m \in Nat \ S : n <= m
  BY Least
<1>2. n - 1 \in Nat
  BY <1>1
<1>3. n - 1 \in S
  BY <1>1, <1>2
<1> QED  BY <1>1, <1>3

\* What holds of the empty set, and of a subset if it does without one of its
\* members, holds of a finite set.
LEMMA SubsetInduction ==
    ASSUME NEW T, IsFiniteSet(T), NEW G \in SUBSET (SUBSET T), {} \in G,
           \A s \in SUBSET T : s = {} \/ \E x \in s : s \ {x} \in G => s \in G
    PROVE  G = SUBSET T
<1> DEFINE Q == {k \in Nat : \A s \in SUBSET T : Cardinality(s) = k => s \in G}
<1>1. \A s \in SUBSET T : IsFiniteSet(s) /\ Cardinality(s) \in Nat
  BY FS_Subset, FS_CardinalityType
<1>2. 0 \in Q
  BY <1>1, FS_EmptySet
<1>3. ASSUME NEW k \in Q PROVE k + 1 \in Q
  <2> SUFFICES ASSUME NEW s \in SUBSET T, Cardinality(s) = k + 1 PROVE s \in G
    OBVIOUS
  <2>1. k \in Nat /\ \A t \in SUBSET T : Cardinality(t) = k => t \in G
    OBVIOUS
  <2>2. s # {}
    BY <2>1, FS_EmptySet
  <2>3. \A x \in s : Cardinality(s \ {x}) = k
    <3>1. IsFiniteSet(s) /\ Cardinality(s) = k + 1
      BY <1>1
    <3>2. \A x \in s : Cardinality(s \ {x}) = Cardinality(s) - 1
      BY <3>1, FS_RemoveElement
    <3> QED  BY <2>1, <3>1, <3>2
  <2>4. PICK x \in s : s \ {x} \in G => s \in G
    BY <2>2
  <2>5. s \ {x} \in G
    BY <2>1, <2>3
  <2> QED  BY <2>4, <2>5
<1>4. Q = Nat
  <2>1. Q \in SUBSET Nat
    OBVIOUS
  <2> HIDE DEF Q
  <2> QED  BY <1>2, <1>3, <2>1, Induction
<1>5. ASSUME NEW s \in SUBSET T PROVE s \in G
  <2>1. Cardinality(s) \in Q
    BY <1>1, <1>4
  <2> QED  BY <2>1
<1> QED  BY <1>5

\* What holds of the empty sequence, and of a longer one if it does without
\* the last member, holds of all sequences.
LEMMA SequenceInduction ==
    ASSUME NEW T, NEW G \in SUBSET Seq(T), <<>> \in G,
           \A s \in Seq(T), x \in T : s \in G => Append(s, x) \in G
    PROVE  G = Seq(T)
<1> DEFINE Q == {k \in Nat : \A s \in Seq(T) : Len(s) = k => s \in G}
<1>1. 0 \in Q
  <2>1. ASSUME NEW s \in Seq(T), Len(s) = 0 PROVE s = <<>>
    BY <2>1, EmptySeq
  <2> QED  BY <2>1
<1>2. ASSUME NEW k \in Q PROVE k + 1 \in Q
  <2> SUFFICES ASSUME NEW s \in Seq(T), Len(s) = k + 1 PROVE s \in G
    OBVIOUS
  <2>1. k \in Nat /\ \A t \in Seq(T) : Len(t) = k => t \in G
    OBVIOUS
  <2>2. s # <<>>
    BY <2>1, EmptySeq
  <2>3. PICK t \in Seq(T), x \in T : s = Append(t, x)
    BY <2>2, SequenceEmptyOrAppend
  <2>4. Len(t) = k
    <3>1. Len(s) = Len(t) + 1 /\ Len(t) \in Nat
      BY <2>3, AppendProperties, LenProperties
    <3> QED  BY <2>1, <3>1
  <2> QED  BY <2>1, <2>3, <2>4
<1>3. Q = Nat
  <2>1. Q \in SUBSET Nat
    OBVIOUS
  <2> HIDE DEF Q
  <2> QED  BY <1>1, <1>2, <2>1, Induction
<1>4. ASSUME NEW s \in Seq(T) PROVE s \in G
  <2>1. Len(s) \in Q
    <3>1. Len(s) \in Nat
      BY LenProperties
    <3> HIDE DEF Q
    <3> QED  BY <1>3, <3>1
  <2> QED  BY <2>1
<1> QED  BY <1>4

-----------------------------------------------------------------------------
(* Recursion over numbers and finite sets *)

\* f is base at 0, and what the rule of k makes of its value before at k.
Recurs(n, base, rule, f) == f[0] = base /\ \A k \in 1..n : f[k] = rule[k][f[k - 1]]

\* A recursion over 0..n defines a function.
LEMMA Recursion ==
    ASSUME NEW X, NEW base \in X, NEW n \in Nat, NEW rule \in [1..n -> [X -> X]]
    PROVE  \E f \in [0..n -> X] : Recurs(n, base, rule, f)
<1> DEFINE Q == {k \in Nat : k <= n => \E f \in [0..k -> X] : Recurs(k, base, rule, f)}
<1>1. 0 \in Q
  <2> DEFINE g == [i \in 0..0 |-> base]
  <2>1. g \in [0..0 -> X] /\ Recurs(0, base, rule, g)
    BY DEF Recurs
  <2> QED  BY <2>1
<1>2. ASSUME NEW k \in Q PROVE k + 1 \in Q
  <2> SUFFICES ASSUME k + 1 <= n
               PROVE  \E f \in [0..(k + 1) -> X] : Recurs(k + 1, base, rule, f)
    OBVIOUS
  <2>1. PICK f \in [0..k -> X] : Recurs(k, base, rule, f)
    OBVIOUS
  <2> DEFINE g == [i \in 0..(k + 1) |-> IF i = k + 1 THEN rule[k + 1][f[k]] ELSE f[i]]
  <2>2. k \in Nat /\ k + 1 \in 1..n /\ f[k] \in X
    OBVIOUS
  <2>3. rule[k + 1][f[k]] \in X
    BY <2>2
  <2>4. g \in [0..(k + 1) -> X]
    BY <2>2, <2>3
  <2>5. g[0] = base
    BY <2>1, <2>2 DEF Recurs
  <2>6. ASSUME NEW i \in 1..(k + 1)
        PROVE  g[i] = rule[i][g[i - 1]]
    <3>1. CASE i = k + 1
      BY <2>2, <3>1
    <3>2. CASE i # k + 1
      <4>1. i \in 1..k /\ i - 1 \in 0..k /\ i - 1 # k + 1 /\ i - 1 \in 0..(k + 1)
        BY <2>2, <3>2
      <4>2. f[i] = rule[i][f[i - 1]]
        BY <2>1, <4>1 DEF Recurs
      <4> QED  BY <2>2, <3>2, <4>1, <4>2
    <3> QED  BY <3>1, <3>2
  <2>7. Recurs(k + 1, base, rule, g)
    BY <2>5, <2>6 DEF Recurs
  <2> QED  BY <2>4, <2>7
<1>3. Q = Nat
  <2>1. Q \in SUBSET Nat
    OBVIOUS
  <2> HIDE DEF Q
  <2> QED  BY <1>1, <1>2, <2>1, Induction
<1> QED  BY <1>3

\* Pick chooses a member of every subset.
Picks(T, pick) == \A s \in SUBSET T : s # {} => pick[s] \in s

\* The value of f for a set is what rule makes of a member and of f's value for
\* the rest.
Folds(T, base, pick, rule, f) ==
    /\ f \in [SUBSET T -> Int]
    /\ f[{}] = base
    /\ \A s \in SUBSET T : s # {} => f[s] = rule[pick[s]][f[s \ {pick[s]}]]

\* A recursion over the subsets of a finite set defines a function.
LEMMA FoldExists ==
    ASSUME NEW base \in Int, NEW T, IsFiniteSet(T), NEW pick, Picks(T, pick),
           NEW rule \in [T -> [Int -> Int]]
    PROVE  \E f : Folds(T, base, pick, rule, f)
<1> DEFINE rest == [s \in SUBSET T |-> s \ {pick[s]}]
           D(k) == {s \in SUBSET T : Cardinality(s) <= k}
           next(f, s) == IF s = {} THEN base ELSE rule[pick[s]][f[rest[s]]]
           Ok(k, f) == \A s \in D(k) : f[s] = next(f, s)
           Q == {k \in Nat : \E f \in [D(k) -> Int] : Ok(k, f)}
<1>1. \A s \in SUBSET T : IsFiniteSet(s) /\ Cardinality(s) \in Nat
  BY FS_Subset, FS_CardinalityType
<1>2. ASSUME NEW s \in SUBSET T, s # {}
      PROVE  /\ pick[s] \in s /\ pick[s] \in T /\ s \ {pick[s]} = rest[s]
             /\ rest[s] \in SUBSET T
             /\ Cardinality(rest[s]) = Cardinality(s) - 1
             /\ Cardinality(s) # 0
  <2>1. pick[s] \in s
    BY <1>2 DEF Picks
  <2>2. \A x \in s : Cardinality(s \ {x}) = Cardinality(s) - 1
    BY <1>1, FS_RemoveElement
  <2>3. Cardinality(s) # 0
    BY <1>1, <1>2, FS_EmptySet
  <2> QED  BY <2>1, <2>2, <2>3
<1>3. ASSUME NEW f, NEW k, \A s \in D(k) : s # {} => f[rest[s]] \in Int
      PROVE  [s \in D(k) |-> next(f, s)] \in [D(k) -> Int]
  <2> SUFFICES ASSUME NEW s \in D(k) PROVE next(f, s) \in Int
    OBVIOUS
  <2>1. CASE s = {}
    BY <2>1
  <2>2. CASE s # {}
    <3>1. f[rest[s]] \in Int /\ pick[s] \in T
      BY <1>2, <1>3, <2>2
    <3> HIDE DEF rest
    <3> QED  BY <2>2, <3>1
  <2> QED  BY <2>1, <2>2
<1>4. 0 \in Q
  <2> DEFINE f == [s \in D(0) |-> base]
  <2>1. \A s \in D(0) : s = {}
    BY <1>1, FS_EmptySet
  <2>2. f \in [D(0) -> Int] /\ Ok(0, f)
    BY <2>1
  <2> QED  BY <2>2
<1>5. ASSUME NEW k \in Q PROVE k + 1 \in Q
  <2>1. k \in Nat
    OBVIOUS
  <2>2. PICK f \in [D(k) -> Int] : Ok(k, f)
    OBVIOUS
  <2> DEFINE g == [s \in D(k + 1) |-> next(f, s)]
  <2>3. ASSUME NEW s \in D(k + 1), s # {} PROVE rest[s] \in D(k)
    <3>1. s \in SUBSET T /\ Cardinality(s) <= k + 1 /\ Cardinality(s) \in Nat
      BY <1>1, <2>3
    <3>2. rest[s] \in SUBSET T /\ Cardinality(rest[s]) = Cardinality(s) - 1
      BY <1>2, <2>3, <3>1
    <3> HIDE DEF rest
    <3> QED  BY <2>1, <3>1, <3>2
  <2>4. g \in [D(k + 1) -> Int]
    <3> HIDE DEF rest, D
    <3>1. \A s \in D(k + 1) : s # {} => f[rest[s]] \in Int
      BY <2>2, <2>3
    <3> HIDE DEF next
    <3> QED  BY <1>3, <3>1
  <2>5. ASSUME NEW s \in D(k) PROVE s \in D(k + 1) /\ g[s] = f[s]
    <3>1. s \in D(k + 1)
      BY <1>1, <2>1
    <3> HIDE DEF D, next
    <3> QED  BY <2>2, <3>1
  <2>6. Ok(k + 1, g)
    <3> SUFFICES ASSUME NEW s \in D(k + 1) PROVE next(f, s) = next(g, s)
      OBVIOUS
    <3> HIDE DEF rest, D, g
    <3> QED  BY <2>3, <2>5
  <2> HIDE DEF g, D, Ok
  <2> QED  BY <2>1, <2>4, <2>6
<1>6. Q = Nat
  <2>1. Q \in SUBSET Nat
    OBVIOUS
  <2> HIDE DEF Q
  <2> QED  BY <1>4, <1>5, <2>1, Induction
<1>7. PICK f \in [D(Cardinality(T)) -> Int] : Ok(Cardinality(T), f)
  <2>1. Cardinality(T) \in Q
    BY <1>1, <1>6
  <2> QED  BY <2>1
<1>8. D(Cardinality(T)) = SUBSET T
  <2>1. \A s \in SUBSET T : Cardinality(s) <= Cardinality(T)
    BY FS_Subset
  <2> QED  BY <2>1
<1>9. f \in [SUBSET T -> Int] /\ \A s \in SUBSET T : f[s] = next(f, s)
  <2> HIDE DEF D, next
  <2> QED  BY <1>7, <1>8
<1>10. f[{}] = base
  BY <1>9
<1>11. ASSUME NEW s \in SUBSET T, s # {} PROVE f[s] = rule[pick[s]][f[s \ {pick[s]}]]
  BY <1>2, <1>9, <1>11
<1> QED  BY <1>9, <1>10, <1>11 DEF Folds

-----------------------------------------------------------------------------
(* Orders, sequences and numbers *)

\* Of a finite set in order, one member comes before all others.
LEMMA Foremost ==
    ASSUME NEW S, IsFiniteSet(S), S # {}, NEW Below \in [S -> SUBSET S],
           \A x \in S : x \notin Below[x],
           \A x, y \in S : x # y => x \in Below[y] \/ y \in Below[x],
           \A x, y \in S : x \in Below[y] => Below[x] \subseteq Below[y]
    PROVE  \E x \in S : \A y \in S \ {x} : x \in Below[y]
<1>1. 0 \in 0..(Cardinality(S) - 1)
  <2>1. Cardinality(S) \in Nat /\ Cardinality(S) # 0
    BY FS_CardinalityType, FS_EmptySet
  <2> QED  BY <2>1
<1>2. \A k \in 0..(Cardinality(S) - 1) : \E x \in S : Cardinality(Below[x]) = k
  BY Ranked
<1>3. PICK x \in S : Cardinality(Below[x]) = 0
  BY <1>1, <1>2
<1>4. Below[x] = {}
  <2>1. IsFiniteSet(Below[x])
    BY FS_Subset
  <2> QED  BY <1>3, <2>1, FS_EmptySet
<1> QED  BY <1>4

\* A set of numbers up to n has a greatest one.
LEMMA Greatest ==
    ASSUME NEW n \in Nat, NEW d \in SUBSET (1..n), d # {}
    PROVE  Max(d) \in d /\ \A x \in d : x <= Max(d)
<1> DEFINE left == {m \in Nat : \E x \in d : m = n - x}
<1>1. PICK x \in d : TRUE
  OBVIOUS
<1>2. n - x \in left /\ left \in SUBSET Nat
  OBVIOUS
<1>3. PICK m \in left : \A k \in left : m <= k
  <2> HIDE DEF left
  <2> QED  BY <1>2, Least
<1>4. PICK y \in d : m = n - y
  OBVIOUS
<1>5. ASSUME NEW z \in d PROVE y >= z
  <2>1. n - z \in left /\ n - z \in Nat
    OBVIOUS
  <2>2. n - y <= n - z
    BY <1>3, <1>4, <2>1
  <2> QED  BY <2>2
<1>6. \E t \in d : \A z \in d : t >= z
  BY <1>5
<1>7. Max(d) \in d /\ \A z \in d : Max(d) >= z
  BY <1>6 DEF Max
<1> QED  BY <1>7

\* Behind two sequences is behind the second.
LEMMA ConcatAppend ==
    ASSUME NEW T, NEW s \in Seq(T), NEW t \in Seq(T), NEW x \in T
    PROVE  s \o Append(t, x) = Append(s \o t, x)
<1>1. /\ Append(t, x) \in Seq(T) /\ Len(Append(t, x)) = Len(t) + 1
      /\ \A i \in 1..Len(t) : Append(t, x)[i] = t[i]
      /\ Append(t, x)[Len(t) + 1] = x
      /\ Len(s) \in Nat /\ Len(t) \in Nat
  BY AppendProperties, LenProperties
<1>2. /\ s \o t \in Seq(T) /\ Len(s \o t) = Len(s) + Len(t)
      /\ \A i \in 1..(Len(s) + Len(t)) :
            (s \o t)[i] = IF i <= Len(s) THEN s[i] ELSE t[i - Len(s)]
  BY ConcatProperties
<1> DEFINE l == s \o Append(t, x)
           r == Append(s \o t, x)
           n == Len(s) + Len(t)
<1>3. /\ l \in Seq(T) /\ Len(l) = n + 1
      /\ \A i \in 1..(n + 1) : l[i] = IF i <= Len(s) THEN s[i] ELSE Append(t, x)[i - Len(s)]
  <2>1. /\ l \in Seq(T) /\ Len(l) = Len(s) + Len(Append(t, x))
        /\ \A i \in 1..(Len(s) + Len(Append(t, x))) :
              l[i] = IF i <= Len(s) THEN s[i] ELSE Append(t, x)[i - Len(s)]
    BY <1>1, ConcatProperties
  <2>2. Len(s) + Len(Append(t, x)) = n + 1
    BY <1>1
  <2> HIDE DEF l, n
  <2> QED  BY <2>1, <2>2
<1>4. /\ r \in Seq(T) /\ Len(r) = n + 1
      /\ \A i \in 1..n : r[i] = (s \o t)[i]
      /\ r[n + 1] = x
  BY <1>2, AppendProperties
<1> HIDE DEF l, r
<1>5. ASSUME NEW i \in 1..(n + 1) PROVE l[i] = r[i]
  <2>1. CASE i = n + 1
    <3>1. ~(i <= Len(s)) /\ i - Len(s) = Len(t) + 1
      BY <1>1, <2>1
    <3> QED  BY <1>1, <1>3, <1>4, <2>1, <3>1
  <2>2. CASE i # n + 1
    <3>1. i \in 1..n /\ (~(i <= Len(s)) => i - Len(s) \in 1..Len(t))
      BY <1>1, <2>2
    <3> QED  BY <1>1, <1>2, <1>3, <1>4, <3>1
  <2> QED  BY <2>1, <2>2
<1>6. l = r
  BY <1>3, <1>4, <1>5, SeqEqual
<1> QED  BY <1>6 DEF l, r

\* Rounding up.
LEMMA RoundedUp ==
    ASSUME NEW n \in Nat, NEW m \in Nat \ {0}
    PROVE  LET c == (n + m - 1) \div m
           IN  /\ c \in Nat
               /\ n <= c * m
               /\ \A p \in 1..c : (p - 1) * m \in Nat /\ (p - 1) * m < n /\ p * m = (p - 1) * m + m
<1> DEFINE c == (n + m - 1) \div m
           r == (n + m - 1) % m
<1>1. c \in Int /\ r \in 0..(m - 1) /\ n + m - 1 = c * m + r
  OBVIOUS
<1> HIDE DEF c, r
<1>2. n <= c * m /\ c * m <= n + m - 1
  <2>1. c * m \in Int
    BY <1>1
  <2> QED  BY <1>1, <2>1
<1>3. c \in Nat
  <2> SUFFICES ASSUME c <= -1 PROVE FALSE
    BY <1>1
  <2>1. c * m <= (-1) * m
    BY <1>1
  <2> QED  BY <1>1, <1>2, <2>1
<1>4. ASSUME NEW p \in 1..c
      PROVE  (p - 1) * m \in Nat /\ (p - 1) * m < n /\ p * m = (p - 1) * m + m
  <2>1. p * m <= c * m
    BY <1>3
  <2>2. p * m = (p - 1) * m + m
    BY <1>3
  <2>3. (p - 1) * m \in Nat
    BY <1>3
  <2> QED  BY <1>2, <1>3, <2>1, <2>2, <2>3
<1> QED  BY <1>2, <1>3, <1>4 DEF c

-----------------------------------------------------------------------------
(* Sequences put one behind the other *)

\* g[k] is the first k sequences put one behind the other.
Joins(ss, g) == g[0] = <<>> /\ \A k \in 1..Len(ss) : g[k] = g[k - 1] \o ss[k]

\* There are such, ...
LEMMA JoinsExist ==
    ASSUME NEW T, NEW ss \in Seq(Seq(T))
    PROVE  \E g \in [0..Len(ss) -> Seq(T)] : Joins(ss, g)
<1> DEFINE n    == Len(ss)
           X    == Seq(T)
           rule == [k \in 1..n |-> [v \in X |-> v \o ss[k]]]
<1>1. n \in Nat /\ (\A k \in 1..n : ss[k] \in X) /\ <<>> \in X
  BY LenProperties, ElementOfSeq, EmptySeq
<1>2. ASSUME NEW k \in 1..n, NEW v \in X PROVE v \o ss[k] \in X
  BY <1>1, ConcatProperties
<1>3. rule \in [1..n -> [X -> X]]
  <2> HIDE DEF X, n
  <2> QED  BY <1>2
<1>4. \A k \in 1..n, v \in X : rule[k][v] = v \o ss[k]
  OBVIOUS
<1> HIDE DEF rule, n, X
<1>5. PICK g \in [0..n -> X] : Recurs(n, <<>>, rule, g)
  BY <1>1, <1>3, Recursion
<1>6. \A k \in 1..n : g[k - 1] \in X
  BY <1>1
<1>7. Joins(ss, g)
  BY <1>4, <1>5, <1>6 DEF Recurs, Joins, n
<1> QED  BY <1>7 DEF n, X

\* ... and all end with the same.
LEMMA FlattenIs ==
    ASSUME NEW T, NEW ss \in Seq(Seq(T)), NEW g \in [0..Len(ss) -> Seq(T)], Joins(ss, g)
    PROVE  FlattenSeq(ss) = g[Len(ss)]
<1> DEFINE n == Len(ss)
           flatten == CHOOSE f : f = [i \in 1..n |-> IF i = 1 THEN ss[i] ELSE f[i - 1] \o ss[i]]
           h == [i \in 1..n |-> g[i]]
<1>1. n \in Nat /\ ss \in [1..n -> Seq(T)]
  BY LenProperties
<1>2. CASE n = 0
  <2>1. ss = <<>>
    BY <1>2, EmptySeq
  <2> QED  BY <1>2, <2>1 DEF FlattenSeq, Joins
<1>3. CASE n # 0
  <2>1. FlattenSeq(ss) = flatten[n]
    BY <1>3 DEF FlattenSeq
  <2>2. h = [i \in 1..n |-> IF i = 1 THEN ss[i] ELSE h[i - 1] \o ss[i]]
    <3>1. ASSUME NEW i \in 1..n
          PROVE  g[i] = IF i = 1 THEN ss[i] ELSE h[i - 1] \o ss[i]
      <4>1. CASE i = 1
        <5>1. i - 1 = 0 /\ ss[i] \in Seq(T)
          BY <1>1, <4>1
        <5>2. g[i] = g[i - 1] \o ss[i] /\ g[0] = <<>>
          BY DEF Joins
        <5>3. <<>> \o ss[i] = ss[i]
          BY <5>1, ConcatEmptySeq
        <5> QED  BY <4>1, <5>1, <5>2, <5>3
      <4>2. CASE i # 1
        <5>1. i - 1 \in 1..n
          BY <1>1, <4>2
        <5> QED  BY <4>2, <5>1 DEF Joins
      <4> QED  BY <4>1, <4>2
    <3> QED  BY <3>1
  <2>3. flatten = [i \in 1..n |-> IF i = 1 THEN ss[i] ELSE flatten[i - 1] \o ss[i]]
    <3> HIDE DEF h, n
    <3> QED  BY <2>2
  <2> DEFINE Q == {k \in Nat : k + 1 \in 1..n => flatten[k + 1] = g[k + 1]}
  <2>4. 0 \in Q
    <3>1. 1 \in 1..n
      BY <1>1, <1>3
    <3>2. h[1] = ss[1]
      <4> HIDE DEF h
      <4> QED  BY <2>2, <3>1
    <3>3. flatten[1] = ss[1]
      <4> HIDE DEF flatten
      <4> QED  BY <2>3, <3>1
    <3> HIDE DEF flatten
    <3> QED  BY <3>1, <3>2, <3>3
  <2>5. ASSUME NEW k \in Q PROVE k + 1 \in Q
    <3> SUFFICES ASSUME k + 1 + 1 \in 1..n PROVE flatten[k + 1 + 1] = g[k + 1 + 1]
      OBVIOUS
    <3>1. k \in Nat /\ k + 1 \in 1..n /\ flatten[k + 1] = g[k + 1]
      BY <1>1
    <3> HIDE DEF flatten, Q
    <3> DEFINE j == k + 1 + 1
    <3>2. j \in 1..n /\ j # 1 /\ j - 1 = k + 1
      BY <3>1
    <3> HIDE DEF j
    <3>3. flatten[j] = flatten[j - 1] \o ss[j]
      BY <2>3, <3>2
    <3>4. g[j] = g[j - 1] \o ss[j]
      BY <3>2 DEF Joins
    <3> USE DEF j
    <3> QED  BY <3>1, <3>2, <3>3, <3>4
  <2>6. Q = Nat
    <3>1. Q \in SUBSET Nat
      OBVIOUS
    <3> HIDE DEF Q
    <3> QED  BY <2>4, <2>5, <3>1, Induction
  <2>7. flatten[n] = g[n]
    <3>1. n - 1 \in Nat /\ n - 1 + 1 = n /\ n \in 1..n
      BY <1>1, <1>3
    <3>2. n - 1 \in Q
      <4> HIDE DEF Q
      <4> QED  BY <2>6, <3>1
    <3> HIDE DEF flatten
    <3> QED  BY <3>1, <3>2
  <2> QED  BY <2>1, <2>7
<1> QED  BY <1>2, <1>3

\* What is put behind the others ends up behind them.
LEMMA FlattenAppend ==
    ASSUME NEW T, NEW ss \in Seq(Seq(T)), NEW s \in Seq(T)
    PROVE  /\ FlattenSeq(<<>>) = <<>>
           /\ FlattenSeq(ss) \in Seq(T)
           /\ FlattenSeq(Append(ss, s)) = FlattenSeq(ss) \o s
<1> DEFINE n  == Len(ss)
           tt == Append(ss, s)
<1>1. /\ n \in Nat /\ tt \in Seq(Seq(T)) /\ Len(tt) = n + 1
      /\ \A i \in 1..n : tt[i] = ss[i]
      /\ tt[n + 1] = s
  BY LenProperties, AppendProperties
<1> HIDE DEF tt
<1>2. PICK g \in [0..Len(tt) -> Seq(T)] : Joins(tt, g)
  BY <1>1, JoinsExist
<1> DEFINE h == [k \in 0..n |-> g[k]]
<1>3. h \in [0..n -> Seq(T)] /\ Joins(ss, h)
  <2>1. \A k \in 0..n : k \in 0..Len(tt)
    BY <1>1
  <2>2. \A k \in 1..n : k \in 1..Len(tt) /\ k - 1 \in 0..n
    BY <1>1
  <2>3. h[0] = <<>>
    BY <1>1, <1>2 DEF Joins
  <2>4. ASSUME NEW k \in 1..n PROVE h[k] = h[k - 1] \o ss[k]
    <3>1. h[k] = g[k] /\ h[k - 1] = g[k - 1] /\ tt[k] = ss[k]
      BY <1>1, <2>2
    <3>2. g[k] = g[k - 1] \o tt[k]
      BY <1>2, <2>2 DEF Joins
    <3> HIDE DEF h
    <3> QED  BY <3>1, <3>2
  <2>5. h \in [0..n -> Seq(T)]
    BY <2>1
  <2> HIDE DEF h
  <2> QED  BY <2>3, <2>4, <2>5 DEF Joins
<1>4. FlattenSeq(tt) = g[n + 1]
  BY <1>1, <1>2, FlattenIs
<1>5. FlattenSeq(ss) = g[n] /\ g[n] \in Seq(T)
  <2>1. FlattenSeq(ss) = h[n]
    <3> HIDE DEF h
    <3> QED  BY <1>3, FlattenIs
  <2> QED  BY <1>1, <2>1
<1>6. g[n + 1] = g[n] \o s
  <2> DEFINE j == n + 1
  <2>1. j \in 1..Len(tt) /\ j - 1 = n /\ tt[j] = s
    BY <1>1
  <2> HIDE DEF j
  <2>2. g[j] = g[j - 1] \o tt[j]
    BY <1>2, <2>1 DEF Joins
  <2> QED  BY <2>1, <2>2 DEF j
<1>7. FlattenSeq(<<>>) = <<>>
  BY EmptySeq DEF FlattenSeq
<1> QED  BY <1>4, <1>5, <1>6, <1>7 DEF tt

-----------------------------------------------------------------------------
(* The bounds of clips *)

Measured(x) == x.start \in Nat /\ x.end \in Nat /\ x.start < x.end

\* A clip lies in its segment and is no longer than MaxClip, half of it at most
\* on either side of the centre.
LEMMA ClipInSegment ==
    ASSUME NEW x, Measured(x)
    PROVE  /\ ClipBounds(x).start \in Int /\ ClipBounds(x).end \in Int /\ Center(x) \in Int
           /\ x.start <= ClipBounds(x).start
           /\ ClipBounds(x).start < ClipBounds(x).end
           /\ ClipBounds(x).end <= x.end
           /\ Center(x) - ClipBounds(x).start <= MaxClip \div 2
           /\ ClipBounds(x).end - Center(x) <= MaxClip - MaxClip \div 2
<1> DEFINE length == Lower(x.end - x.start, MaxClip)
           half   == length \div 2
           middle == (x.start + x.end) \div 2
<1>1. /\ x.start \in Nat /\ x.end \in Nat /\ x.start < x.end
      /\ MaxClip \in Nat /\ MaxClip > 0
  BY ClipAssumption DEF Measured
<1>2. /\ length \in Nat /\ length > 0
      /\ length <= x.end - x.start /\ length <= MaxClip
  BY <1>1 DEF Lower
<1>3. half \in Nat /\ (length = 2 * half \/ length = 2 * half + 1)
  <2> HIDE DEF length
  <2> QED  BY <1>2
<1>4. middle \in Nat /\ (x.start + x.end = 2 * middle \/ x.start + x.end = 2 * middle + 1)
  BY <1>1
<1>5. /\ MaxClip \div 2 \in Nat
      /\ \/ MaxClip = 2 * (MaxClip \div 2)
         \/ MaxClip = 2 * (MaxClip \div 2) + 1
  BY <1>1
<1> HIDE DEF length, half, middle
<1>6. /\ x.start <= middle - half
      /\ middle - half + length <= x.end
      /\ half <= MaxClip \div 2
      /\ length - half <= MaxClip - MaxClip \div 2
  BY <1>1, <1>2, <1>3, <1>4, <1>5
<1>7. Higher(x.start, middle - half) = middle - half
  BY <1>1, <1>3, <1>4, <1>6 DEF Higher
<1>8. Lower(x.end, middle - half + length) = middle - half + length
  BY <1>1, <1>2, <1>3, <1>4, <1>6 DEF Lower
<1>9. Higher(x.start, (middle - half + length) - length) = middle - half
  <2>1. (middle - half + length) - length = middle - half
    BY <1>2, <1>3, <1>4
  <2> QED  BY <1>7, <2>1
<1>10. /\ ClipBounds(x).start = middle - half
       /\ ClipBounds(x).end = middle - half + length
       /\ Center(x) = middle
  BY <1>7, <1>8, <1>9 DEF ClipBounds, Center, length, half, middle
<1> QED  BY <1>1, <1>2, <1>3, <1>4, <1>6, <1>10

\* Clips of segments that are far enough apart do not meet.
LEMMA ClipsApart ==
    ASSUME NEW x, NEW y, Measured(x), Measured(y), Apart(x, y)
    PROVE  \/ ClipBounds(x).end <= ClipBounds(y).start
           \/ ClipBounds(y).end <= ClipBounds(x).start
<1>1. MaxClip \in Nat /\ MinCenterGap \in Nat /\ MaxClip <= MinCenterGap
      /\ MaxClip \div 2 \in Nat
  BY ClipAssumption
<1> QED  BY <1>1, ClipInSegment DEF Apart

-----------------------------------------------------------------------------
(* The invariant of the segments and clips *)

Placed == [start : Nat, end : Nat, text : Text]

Answered(answer) == answer \in Seq(Placed) /\ DOMAIN answer \subseteq DOMAIN Rank

\* Segments of the transcript can be compared and cut, and their speakers are listed.
Listed ==
    /\ transcript \in Seq(Range(transcript))
    /\ \A i \in DOMAIN transcript :
          /\ Measured(transcript[i])
          /\ transcript[i].status = "assigned" => transcript[i].speaker \in DOMAIN selected

\* Candidates are segments of their speaker, far enough from each other.
Picked ==
    /\ DOMAIN clipped = DOMAIN selected
    /\ \A s \in DOMAIN selected :
          /\ selected[s] \in Seq(Range(transcript))
          /\ \A i \in DOMAIN selected[s] : Usable(selected[s][i]) /\ selected[s][i].speaker = s
          /\ \A i, j \in DOMAIN selected[s] : i # j => Apart(selected[s][i], selected[s][j])

\* The outcome of a speaker is about its candidates.
Judged ==
    /\ stage \notin {"cut", "stored"} => \A s \in DOMAIN clipped : clipped[s] = None
    /\ \A s \in DOMAIN clipped : clipped[s] # None =>
          /\ clipped[s].loud \subseteq DOMAIN selected[s]
          /\ clipped[s].status = "ready" <=> Cardinality(clipped[s].loud) >= 2

\* The clips are those of the outcomes, or there are none of anybody.
Registered ==
    \/ clips = {} /\ (stage = "stored" => \A s \in DOMAIN clipped : clipped[s] = None)
    \/ /\ stage = "stored"
       /\ clips = UNION {ClipsOf(s) : s \in DOMAIN clipped}
       /\ \A s \in DOMAIN clipped : clipped[s] # None

SpeechInv == /\ Answered(heard) /\ Answered(aligned)
             /\ place \in Nat \ {0}
             /\ Listed
             /\ Picked
             /\ Judged
             /\ Registered

\* Nothing has been answered.
LEMMA SpeechInitOk == SpeechInit => SpeechInv
<1> SUFFICES ASSUME SpeechInit PROVE SpeechInv
  OBVIOUS
<1>1. \A S : <<>> \in Seq(S)
  BY EmptySeq
<1>2. DOMAIN <<>> = {}
  OBVIOUS
<1> QED
  BY <1>1, <1>2 DEF SpeechInit, SpeechInv, Answered, Listed, Picked, Judged, Registered

\* The model's pieces are put within the recording.
LEMMA ClampedPlaced ==
    ASSUME NEW x \in [start : Int, end : Int, text : Text]
    PROVE  Clamped(x) \in Placed
<1> DEFINE from == Lower(Higher(x.start, 0), Ticks)
           to   == Lower(Higher(x.end, from), Ticks)
<1>1. Ticks \in Nat
  BY DurationAssumption DEF Ticks
<1>2. from \in Nat
  BY <1>1 DEF Lower, Higher
<1>3. to \in Nat
  <2> HIDE DEF from
  <2> QED  BY <1>1, <1>2 DEF Lower, Higher
<1>4. Clamped(x) = [x EXCEPT !.start = from, !.end = to]
  BY DEF Clamped
<1> HIDE DEF from, to
<1> QED  BY <1>2, <1>3, <1>4 DEF Placed

\* What the alignment lacks is taken from the transcription, within the recording.
LEMMA MendedPlaced ==
    ASSUME NEW x \in Piece, NEW fallback \in Placed
    PROVE  Mended(x, fallback) \in Placed
<1>1. /\ Timed(x) => x.start \in Int /\ x.end \in Int
      /\ fallback.start \in Int /\ fallback.end \in Int /\ fallback.text \in Text
      /\ x.text # None => x.text \in Text
  BY DEF Piece, Placed, Timed
<1> DEFINE bounds == IF Timed(x) /\ x.start <= x.end THEN x ELSE fallback
           mended == [start |-> bounds.start, end |-> bounds.end,
                      text |-> IF x.text # None THEN x.text ELSE fallback.text]
<1>2. mended \in [start : Int, end : Int, text : Text]
  BY <1>1
<1>3. Mended(x, fallback) = Clamped(mended)
  BY DEF Mended
<1> HIDE DEF mended
<1> QED  BY <1>2, <1>3, ClampedPlaced

\* An accepted transcription has times and texts.
LEMMA TranscribeOk ==
    ASSUME SpeechInv, NEW answer \in HeardAnswers, Transcribe(answer)
    PROVE  SpeechInv'
<1>1. \/ heard' = heard
      \/ /\ answer # None /\ heard' = answer
         /\ \A i \in DOMAIN answer : Hearable(answer[i])
  BY DEF Transcribe
<1>2. Answered(heard')
  <2>1. CASE heard' = heard
    BY <2>1 DEF SpeechInv
  <2>2. CASE /\ answer # None /\ heard' = answer
             /\ \A i \in DOMAIN answer : Hearable(answer[i])
    <3>1. answer \in Seq(Piece) /\ DOMAIN answer \subseteq DOMAIN Rank
      BY <2>2, AnswerAssumption, RankAssumption
    <3>2. /\ Len(answer) \in Nat /\ DOMAIN answer = 1..Len(answer)
          /\ answer \in [1..Len(answer) -> Piece]
      BY <3>1, LenProperties
    <3>3. \A i \in DOMAIN answer : answer[i] \in Placed
      BY <2>2, <3>2 DEF Hearable, Timed, Piece, Placed
    <3>4. answer \in Seq(Placed)
      BY <3>2, <3>3, SeqDef
    <3> QED  BY <2>2, <3>1, <3>4 DEF Answered
  <2> QED  BY <1>1, <2>1, <2>2
<1>3. UNCHANGED <<aligned, turns, transcript, place, selected, clipped, clips>>
      /\ stage = "transcribe" /\ stage' \in {"align", "INVALID_RESPONSE"}
  BY DEF Transcribe
<1>4. Answered(aligned)' /\ Listed' /\ Picked' /\ Judged' /\ Registered'
  BY <1>3 DEF SpeechInv, Answered, Listed, Picked, Judged, Registered
<1> QED  BY <1>2, <1>3, <1>4 DEF SpeechInv, Answered

\* Aligned or mended, every piece has times in the recording and a text.
LEMMA AlignOk ==
    ASSUME SpeechInv, NEW answer \in AlignedAnswers, Align(answer)
    PROVE  SpeechInv'
<1>1. UNCHANGED <<heard, turns, transcript, place, selected, clipped, clips>>
      /\ stage = "align" /\ stage' \in {"diarize", "INVALID_RESPONSE"}
  BY DEF Align
<1>2. Answered(aligned')
  <2>1. CASE aligned' = aligned
    BY <2>1 DEF SpeechInv
  <2>2. CASE answer # None /\ aligned' # aligned
    <3>1. answer \in Seq(Piece) /\ DOMAIN answer \subseteq DOMAIN Rank
      BY <2>2, AnswerAssumption, RankAssumption
    <3>2. /\ Len(answer) \in Nat /\ DOMAIN answer = 1..Len(answer)
          /\ answer \in [1..Len(answer) -> Piece]
      BY <3>1, LenProperties
    <3>3. /\ Len(heard) \in Nat /\ DOMAIN heard = 1..Len(heard)
          /\ heard \in [1..Len(heard) -> Placed] /\ DOMAIN heard \subseteq DOMAIN Rank
      BY LenProperties DEF SpeechInv, Answered
    <3>4. CASE aligned' = [i \in DOMAIN heard |->
                    Mended(IF i \in DOMAIN answer THEN answer[i] ELSE Nothing, heard[i])]
      <4>1. Nothing \in Piece
        BY DEF Nothing, Piece
      <4>2. \A i \in DOMAIN heard : aligned'[i] \in Placed
        BY <3>2, <3>3, <3>4, <4>1, MendedPlaced
      <4>3. aligned' \in [1..Len(heard) -> Placed]
        BY <3>3, <3>4, <4>2
      <4>4. aligned' \in Seq(Placed)
        BY <3>3, <4>3, SeqDef
      <4> QED  BY <3>3, <4>3, <4>4 DEF Answered
    <3>5. CASE /\ aligned' = [i \in DOMAIN answer |-> Clamped(answer[i])]
               /\ \A i \in DOMAIN answer : Timed(answer[i]) /\ answer[i].text # None
      <4>1. \A i \in DOMAIN answer : answer[i] \in [start : Int, end : Int, text : Text]
        BY <3>2, <3>5 DEF Timed, Piece
      <4>2. \A i \in DOMAIN answer : aligned'[i] \in Placed
        BY <3>5, <4>1, ClampedPlaced
      <4>3. aligned' \in [1..Len(answer) -> Placed]
        BY <3>2, <3>5, <4>2
      <4>4. aligned' \in Seq(Placed)
        BY <3>2, <4>3, SeqDef
      <4> QED  BY <3>1, <3>2, <4>3, <4>4 DEF Answered
    <3> QED  BY <2>2, <3>4, <3>5 DEF Align
  <2> QED  BY <2>1, <2>2 DEF Align
<1>3. Answered(heard)' /\ Listed' /\ Picked' /\ Judged' /\ Registered'
  BY <1>1 DEF SpeechInv, Answered, Listed, Picked, Judged, Registered, ClipsOf
<1> QED  BY <1>1, <1>2, <1>3 DEF SpeechInv, Answered

\* The turns concern no segment yet.
LEMMA DiarizeOk ==
    ASSUME SpeechInv, NEW answer, Diarize(answer)
    PROVE  SpeechInv'
<1>1. UNCHANGED <<heard, aligned, transcript, place, selected, clipped, clips>>
      /\ stage = "diarize" /\ stage' \in {"store", "INVALID_RESPONSE"}
  BY DEF Diarize
<1> QED
  BY <1>1 DEF SpeechInv, Answered, Listed, Picked, Judged, Registered, ClipsOf

-----------------------------------------------------------------------------
(* Storing the segments *)

\* Rounding to the millisecond.
LEMMA RoundedNat == ASSUME NEW t \in Nat PROVE Rounded(t) \in Nat
  BY DEF Rounded

\* A segment has the place of its piece as id, and times.
LEMMA SegmentTyped ==
    ASSUME Answered(aligned), NEW i \in DOMAIN aligned
    PROVE  /\ Segment(i).id = i
           /\ Segment(i).start \in Nat /\ Segment(i).end \in Nat
<1> DEFINE from == Lower(Rounded(aligned[i].start), Duration)
           to   == Lower(Higher(Rounded(aligned[i].end), from), Duration)
<1>1. aligned[i].start \in Nat /\ aligned[i].end \in Nat
  <2>1. aligned \in [1..Len(aligned) -> Placed] /\ DOMAIN aligned = 1..Len(aligned)
    BY LenProperties DEF Answered
  <2>2. aligned[i] \in Placed
    BY <2>1
  <2> QED  BY <2>2 DEF Placed
<1>2. Rounded(aligned[i].start) \in Nat /\ Rounded(aligned[i].end) \in Nat /\ Duration \in Nat
  BY <1>1, RoundedNat, DurationAssumption
<1>3. from \in Nat
  BY <1>2 DEF Lower
<1>4. to \in Nat
  <2> HIDE DEF from
  <2> QED  BY <1>2, <1>3 DEF Lower, Higher
<1>5. Segment(i).id = i /\ Segment(i).start = from /\ Segment(i).end = to
  BY DEF Segment
<1> QED  BY <1>3, <1>4, <1>5

\* Of two segments one is earlier.
LEMMA WordedOrdered ==
    ASSUME Answered(aligned)
    PROVE  /\ IsFiniteSet(Worded)
           /\ \A x \in Worded : Measured(x) /\ ~Earlier(x, x)
           /\ \A x, y \in Worded : x # y => Earlier(x, y) \/ Earlier(y, x)
           /\ \A x, y, z \in Worded : Earlier(z, x) /\ Earlier(x, y) => Earlier(z, y)
<1> DEFINE all == {Segment(i) : i \in DOMAIN aligned}
           f   == [i \in DOMAIN aligned |-> Segment(i)]
<1>1. IsFiniteSet(all)
  <2>1. IsFiniteSet(DOMAIN aligned)
    BY LenProperties, FS_Interval DEF Answered
  <2>2. f \in Surjection(DOMAIN aligned, all)
    BY DEF Surjection
  <2> HIDE DEF f, all
  <2> QED  BY <2>1, <2>2, FS_Surjection
<1>2. IsFiniteSet(Worded)
  BY <1>1, FS_Subset DEF Worded
<1>3. ASSUME NEW x \in Worded
      PROVE  \E i \in DOMAIN aligned : x = Segment(i) /\ x.id = i
  BY SegmentTyped DEF Worded
<1>4. ASSUME NEW x \in Worded
      PROVE  /\ x.start \in Nat /\ x.end \in Nat /\ x.start < x.end
             /\ x.id \in DOMAIN Rank /\ Rank[x.id] \in Nat
  <2>1. x.start < x.end
    BY DEF Worded
  <2>2. x.id \in DOMAIN Rank
    BY <1>3 DEF Answered
  <2> QED  BY <1>3, <2>1, <2>2, SegmentTyped, RankAssumption
<1>5. \A x \in Worded : Measured(x) /\ ~Earlier(x, x)
  BY <1>4 DEF Measured, Earlier
<1>6. ASSUME NEW x \in Worded, NEW y \in Worded, x # y
      PROVE  Earlier(x, y) \/ Earlier(y, x)
  <2>1. x.id # y.id
    BY <1>3, <1>6
  <2>2. Rank[x.id] # Rank[y.id]
    BY <1>4, <2>1, RankAssumption
  <2> QED  BY <1>4, <2>2 DEF Earlier
<1>7. ASSUME NEW x \in Worded, NEW y \in Worded, NEW z \in Worded, Earlier(z, x), Earlier(x, y)
      PROVE  Earlier(z, y)
  BY <1>4, <1>7 DEF Earlier
<1> QED  BY <1>2, <1>5, <1>6, <1>7

\* Sorting invents no segment, and puts each behind as many as are earlier.
LEMMA SortedIn ==
    ASSUME Answered(aligned)
    PROVE  /\ Cardinality(Worded) \in Nat
           /\ Sorted(Worded) \in [1..Cardinality(Worded) -> Worded]
           /\ \A i \in 1..Cardinality(Worded) :
                 Cardinality({y \in Worded : Earlier(y, Sorted(Worded)[i])}) = i - 1
<1> DEFINE Below == [x \in Worded |-> {y \in Worded : Earlier(y, x)}]
<1>1. Cardinality(Worded) \in Nat
  BY WordedOrdered, FS_CardinalityType
<1>2. /\ IsFiniteSet(Worded)
      /\ Below \in [Worded -> SUBSET Worded]
      /\ \A x \in Worded : x \notin Below[x]
      /\ \A x, y \in Worded : x # y => x \in Below[y] \/ y \in Below[x]
      /\ \A x, y \in Worded : x \in Below[y] => Below[x] \subseteq Below[y]
  BY WordedOrdered
<1>3. ASSUME NEW i \in 1..Cardinality(Worded)
      PROVE  \E x \in Worded : Cardinality({y \in Worded : Earlier(y, x)}) = i - 1
  <2>1. i - 1 \in 0..(Cardinality(Worded) - 1)
    BY <1>1
  <2>2. \E x \in Worded : Cardinality(Below[x]) = i - 1
    <3> HIDE DEF Below
    <3> QED  BY <1>2, <2>1, Ranked
  <2> QED  BY <2>2
<1>4. Sorted(Worded) = [i \in 1..Cardinality(Worded) |->
          CHOOSE x \in Worded : Cardinality({y \in Worded : Earlier(y, x)}) = i - 1]
  BY DEF Sorted
<1>5. ASSUME NEW i \in 1..Cardinality(Worded)
      PROVE  /\ Sorted(Worded)[i] \in Worded
             /\ Cardinality({y \in Worded : Earlier(y, Sorted(Worded)[i])}) = i - 1
  BY <1>3, <1>4
<1> QED  BY <1>1, <1>4, <1>5

\* The stored segments are the worded ones in order, and nobody is selected yet.
LEMMA StoreOk == ASSUME SpeechInv, Store PROVE SpeechInv'
<1>1. UNCHANGED <<heard, aligned, turns, place, clips>> /\ stage = "store"
  BY DEF Store
<1>2. Answered(heard)' /\ Answered(aligned)' /\ (place \in Nat \ {0})'
  BY <1>1 DEF SpeechInv, Answered
<1>3. CASE UNCHANGED <<transcript, selected, clipped>>
           /\ stage' \in {"INVALID_SPEECH_RESULT", "SCHEMA_REFUSED"}
  <2>1. Listed' /\ Picked' /\ Judged' /\ Registered'
    BY <1>1, <1>3 DEF SpeechInv, Listed, Picked, Judged, Registered, ClipsOf
  <2> QED  BY <1>2, <2>1 DEF SpeechInv, Answered
<1>4. CASE /\ stage' = "select"
           /\ transcript' = Sorted(Worded)
           /\ Valid(Sorted(Worded))
           /\ selected' = [s \in SpeakersIn(Sorted(Worded)) |-> <<>>]
           /\ clipped' = [s \in SpeakersIn(Sorted(Worded)) |-> None]
  <2> DEFINE segs == Sorted(Worded)
  <2>1. /\ Cardinality(Worded) \in Nat
        /\ segs \in [1..Cardinality(Worded) -> Worded]
        /\ \A x \in Worded : Measured(x)
    BY SortedIn, WordedOrdered DEF SpeechInv
  <2>2. segs \in Seq(Range(segs))
    <3>1. segs \in [1..Cardinality(Worded) -> Range(segs)]
      BY <2>1 DEF Range
    <3> HIDE DEF segs
    <3> QED  BY <2>1, <3>1, SeqDef
  <2>3. ASSUME NEW i \in DOMAIN segs, segs[i].status = "assigned"
        PROVE  segs[i].speaker \in SpeakersIn(segs)
    <3>1. segs[i].speaker # None
      BY <1>4, <2>3 DEF Valid
    <3> QED  BY <3>1 DEF SpeakersIn
  <2>4. Listed'
    <3>1. \A i \in DOMAIN segs : Measured(segs[i])
      BY <2>1
    <3> HIDE DEF segs
    <3>2. transcript' = segs /\ DOMAIN selected' = SpeakersIn(segs)
      BY <1>4 DEF segs
    <3> QED  BY <2>2, <2>3, <3>1, <3>2 DEF Listed, Measured
  <2>5. Picked'
    BY <1>4, EmptySeq DEF Picked
  <2>6. Judged' /\ Registered'
    BY <1>1, <1>4 DEF SpeechInv, Judged, Registered
  <2> QED  BY <1>2, <2>4, <2>5, <2>6 DEF SpeechInv, Answered
<1> QED  BY <1>3, <1>4 DEF Store

-----------------------------------------------------------------------------
(* Choosing and cutting clips *)

\* A candidate that is taken is far from all that were.
LEMMA SelectOk == ASSUME SpeechInv, Select PROVE SpeechInv'
<1>1. UNCHANGED <<stage, heard, aligned, turns, transcript, clipped, clips>>
      /\ stage = "select" /\ place <= Len(transcript) /\ place' = place + 1
  BY DEF Select
<1>2. /\ Answered(heard)' /\ Answered(aligned)' /\ (place \in Nat \ {0})'
      /\ Judged' /\ Registered'
  <2>1. \A s \in DOMAIN clipped : clipped[s] = None
    BY <1>1 DEF SpeechInv, Judged
  <2>2. Judged' /\ Registered'
    BY <1>1, <2>1 DEF SpeechInv, Judged, Registered
  <2> QED  BY <1>1, <2>2 DEF SpeechInv, Answered
<1>3. CASE selected' = selected
  <2>1. Listed' /\ Picked'
    BY <1>1, <1>3 DEF SpeechInv, Listed, Picked
  <2> QED  BY <1>2, <2>1 DEF SpeechInv, Answered
<1>4. CASE /\ Taken(transcript[place])
           /\ selected' = [selected EXCEPT ![transcript[place].speaker] =
                              Append(@, transcript[place])]
  <2> DEFINE x == transcript[place]
             s == x.speaker
             old == selected[s]
             new == Append(old, x)
  <2>1. place \in DOMAIN transcript
    BY <1>1, LenProperties DEF SpeechInv, Listed
  <2>2. x \in Range(transcript) /\ Usable(x) /\ FarFrom(x, old)
    BY <1>4, <2>1 DEF Range, Taken
  <2>3. s \in DOMAIN selected
    BY <2>1, <2>2 DEF SpeechInv, Listed, Usable
  <2>4. /\ old \in Seq(Range(transcript))
        /\ \A i \in DOMAIN old : Usable(old[i]) /\ old[i].speaker = s
        /\ \A i, j \in DOMAIN old : i # j => Apart(old[i], old[j])
    BY <2>3 DEF SpeechInv, Picked
  <2>5. /\ new \in Seq(Range(transcript))
        /\ DOMAIN old = 1..Len(old) /\ Len(old) \in Nat
        /\ DOMAIN new = 1..(Len(old) + 1)
        /\ \A i \in 1..Len(old) : new[i] = old[i]
        /\ new[Len(old) + 1] = x
    BY <2>2, <2>4, AppendProperties, LenProperties
  <2>6. \A i \in DOMAIN new : Usable(new[i]) /\ new[i].speaker = s
    BY <2>2, <2>4, <2>5
  <2>7. \A i \in DOMAIN old : Apart(x, old[i]) /\ Apart(old[i], x)
    BY <2>2 DEF FarFrom, Apart
  <2>8. \A i, j \in DOMAIN new : i # j => Apart(new[i], new[j])
    <3> SUFFICES ASSUME NEW i \in DOMAIN new, NEW j \in DOMAIN new, i # j
                 PROVE  Apart(new[i], new[j])
      OBVIOUS
    <3> HIDE DEF x, s, old, new
    <3>1. CASE i \in DOMAIN old /\ j \in DOMAIN old
      BY <2>4, <2>5, <3>1
    <3>2. CASE i \in DOMAIN old /\ j = Len(old) + 1
      BY <2>5, <2>7, <3>2
    <3>3. CASE i = Len(old) + 1 /\ j \in DOMAIN old
      BY <2>5, <2>7, <3>3
    <3> QED  BY <2>5, <3>1, <3>2, <3>3
  <2>9. /\ DOMAIN selected' = DOMAIN selected
        /\ selected'[s] = new
        /\ \A t \in DOMAIN selected \ {s} : selected'[t] = selected[t]
    BY <1>4, <2>3
  <2> HIDE DEF x, s, old, new
  <2>10. Picked'
    BY <1>1, <2>5, <2>6, <2>8, <2>9 DEF SpeechInv, Picked
  <2>11. Listed'
    BY <1>1, <2>9 DEF SpeechInv, Listed
  <2> QED  BY <1>2, <2>10, <2>11 DEF SpeechInv, Answered
<1> QED  BY <1>3, <1>4 DEF Select

\* Then the clips are cut.
LEMMA SelectEndsOk == ASSUME SpeechInv, SelectEnds PROVE SpeechInv'
<1>1. UNCHANGED <<heard, aligned, turns, transcript, place, selected, clipped, clips>>
      /\ stage = "select" /\ stage' = "cut"
  BY DEF SelectEnds
<1> QED
  BY <1>1 DEF SpeechInv, Answered, Listed, Picked, Judged, Registered, ClipsOf

\* A speaker is ready with two loud clips.
LEMMA CutOk ==
    ASSUME SpeechInv, NEW s \in DOMAIN clipped, NEW cut \in [DOMAIN selected[s] -> Cuts],
           Cut(s, cut)
    PROVE  SpeechInv'
<1> DEFINE loud   == IF \E i \in DOMAIN cut : cut[i] = "error" THEN {} ELSE Loud(cut)
           status == IF \E i \in DOMAIN cut : cut[i] = "error" THEN "failed"
                     ELSE IF Cardinality(loud) >= 2 THEN "ready" ELSE "insufficient"
<1>1. /\ UNCHANGED <<stage, heard, aligned, turns, transcript, place, selected, clips>>
      /\ stage = "cut"
      /\ clipped' = [clipped EXCEPT ![s] = [status |-> status, loud |-> loud]]
  BY DEF Cut
<1>2. loud \subseteq DOMAIN selected[s]
  BY DEF Loud
<1>3. status = "ready" <=> Cardinality(loud) >= 2
  BY FS_EmptySet
<1> HIDE DEF loud, status
<1>4. /\ DOMAIN clipped' = DOMAIN clipped
      /\ clipped'[s].loud = loud /\ clipped'[s].status = status
      /\ \A t \in DOMAIN clipped \ {s} : clipped'[t] = clipped[t]
  BY <1>1
<1>5. Judged'
  BY <1>1, <1>2, <1>3, <1>4 DEF SpeechInv, Judged
<1>6. Answered(heard)' /\ Answered(aligned)' /\ Listed' /\ Picked' /\ Registered'
  BY <1>1, <1>4 DEF SpeechInv, Answered, Listed, Picked, Registered
<1> QED  BY <1>1, <1>5, <1>6 DEF SpeechInv, Answered

\* A failing write leaves no outcome and no clip.
LEMMA CutFailsOk ==
    ASSUME SpeechInv, NEW s \in DOMAIN clipped, CutFails(s)
    PROVE  SpeechInv'
<1>1. UNCHANGED <<heard, aligned, turns, transcript, place, selected, clips>>
      /\ stage = "cut" /\ stage' = "stored" /\ clipped' = [t \in DOMAIN clipped |-> None]
  BY DEF CutFails
<1> QED
  BY <1>1 DEF SpeechInv, Answered, Listed, Picked, Judged, Registered

\* The clips of all speakers are registered at once.
LEMMA RegisterOk == ASSUME SpeechInv, Register PROVE SpeechInv'
<1>1. /\ UNCHANGED <<heard, aligned, turns, transcript, place, selected, clipped>>
      /\ stage = "cut" /\ stage' = "stored"
      /\ clips' = UNION {ClipsOf(s) : s \in DOMAIN clipped}
      /\ \A s \in DOMAIN clipped : clipped[s] # None
  BY DEF Register
<1>2. clips' = UNION {ClipsOf(s)' : s \in DOMAIN clipped'}
  BY <1>1 DEF ClipsOf
<1>3. Registered'
  BY <1>1, <1>2 DEF Registered
<1>4. Answered(heard)' /\ Answered(aligned)' /\ Listed' /\ Picked' /\ Judged'
  BY <1>1 DEF SpeechInv, Answered, Listed, Picked, Judged
<1> QED  BY <1>1, <1>3, <1>4 DEF SpeechInv, Answered

\* Every step keeps the invariant.
LEMMA SpeechNextOk == ASSUME SpeechInv, [SpeechNext]_speechVars PROVE SpeechInv'
<1>1. CASE UNCHANGED speechVars
  <2>1. UNCHANGED <<stage, heard, aligned, turns, transcript, place, selected, clipped, clips>>
    BY <1>1 DEF speechVars
  <2>2. Registered'
    <3>1. \A s : ClipsOf(s)' = ClipsOf(s)
      BY <2>1 DEF ClipsOf
    <3> QED  BY <2>1, <3>1 DEF SpeechInv, Registered
  <2>3. Answered(heard)' /\ Answered(aligned)' /\ Listed' /\ Picked' /\ Judged'
    BY <2>1 DEF SpeechInv, Answered, Listed, Picked, Judged
  <2> QED  BY <2>1, <2>2, <2>3 DEF SpeechInv, Answered
<1>2. ASSUME NEW s \in DOMAIN clipped, NEW cut \in [DOMAIN selected[s] -> Cuts], Cut(s, cut)
      PROVE  SpeechInv'
  BY <1>2, CutOk
<1> QED
  BY <1>1, <1>2, TranscribeOk, AlignOk, DiarizeOk, StoreOk, SelectOk, SelectEndsOk, CutFailsOk,
     RegisterOk DEF SpeechNext

-----------------------------------------------------------------------------
(* From the invariant to the clips *)

\* The clips of a speaker are as many as its loud candidates.
LEMMA ClipsCounted ==
    ASSUME SpeechInv, NEW s \in DOMAIN clipped, clipped[s] # None
    PROVE  Cardinality(ClipsOf(s)) = Cardinality(clipped[s].loud)
<1> DEFINE loud     == clipped[s].loud
           upto(i)  == {j \in loud : j <= i}
           clip(i)  == [speaker |-> s, index |-> Cardinality(upto(i)),
                        segment |-> selected[s][i].id, bounds |-> ClipBounds(selected[s][i])]
           f        == [i \in loud |-> clip(i)]
<1>1. loud \subseteq DOMAIN selected[s] /\ DOMAIN selected[s] = 1..Len(selected[s])
      /\ Len(selected[s]) \in Nat
  BY LenProperties DEF SpeechInv, Judged, Picked
<1>2. IsFiniteSet(loud)
  <2>1. IsFiniteSet(1..Len(selected[s]))
    BY <1>1, FS_Interval
  <2> HIDE DEF loud
  <2> QED  BY <1>1, <2>1, FS_Subset
<1>3. ASSUME NEW i \in loud, NEW j \in loud, i < j
      PROVE  Cardinality(upto(i)) # Cardinality(upto(j))
  <2>1. i \in Nat /\ j \in Nat /\ \A k \in loud : k \in Nat
    BY <1>1
  <2>2. upto(i) \in SUBSET upto(j) /\ j \in upto(j) /\ j \notin upto(i)
    BY <1>3, <2>1
  <2>3. IsFiniteSet(upto(j))
    <3>1. upto(j) \in SUBSET loud
      OBVIOUS
    <3> HIDE DEF upto, loud
    <3> QED  BY <1>2, <3>1, FS_Subset
  <2> HIDE DEF upto, loud
  <2> QED  BY <2>2, <2>3, FS_Subset
<1>4. ASSUME NEW i \in loud, NEW j \in loud, i # j PROVE clip(i) # clip(j)
  <2>1. i \in Nat /\ j \in Nat
    BY <1>1
  <2>2. Cardinality(upto(i)) # Cardinality(upto(j))
    <3>1. i < j \/ j < i
      BY <1>4, <2>1
    <3> HIDE DEF upto, loud
    <3> QED  BY <1>3, <3>1
  <2>3. clip(i).index = Cardinality(upto(i)) /\ clip(j).index = Cardinality(upto(j))
    OBVIOUS
  <2> HIDE DEF clip, upto
  <2> QED  BY <2>2, <2>3
<1>5. ClipsOf(s) = {clip(i) : i \in loud}
  BY DEF ClipsOf
<1> HIDE DEF clip, loud
<1>6. f \in Bijection(loud, ClipsOf(s))
  <2>1. f \in [loud -> ClipsOf(s)]
    BY <1>5
  <2>2. \A c \in ClipsOf(s) : \E i \in loud : f[i] = c
    BY <1>5
  <2>3. \A i, j \in loud : f[i] = f[j] => i = j
    BY <1>4
  <2> HIDE DEF f
  <2> QED  BY <2>1, <2>2, <2>3 DEF Bijection, Injection, Surjection, IsInjective
<1>7. ExistsBijection(loud, ClipsOf(s))
  <2> HIDE DEF f
  <2> QED  BY <1>6 DEF ExistsBijection
<1>8. Cardinality(ClipsOf(s)) = Cardinality(loud)
  BY <1>2, <1>7, FS_Bijection
<1> QED  BY <1>8 DEF loud

\* Every clip is cut from a candidate, which is a segment of its speaker alone.
LEMMA ClipOrigin ==
    ASSUME SpeechInv, NEW c \in clips
    PROVE  \E s \in DOMAIN selected : \E i \in DOMAIN selected[s] :
              /\ c \in ClipsOf(s)
              /\ c = [speaker |-> s, index |-> Cardinality({j \in clipped[s].loud : j <= i}),
                      segment |-> selected[s][i].id, bounds |-> ClipBounds(selected[s][i])]
<1>1. clips = UNION {ClipsOf(s) : s \in DOMAIN clipped} /\ \A s \in DOMAIN clipped : clipped[s] # None
  BY DEF SpeechInv, Registered
<1>2. PICK s \in DOMAIN clipped : c \in ClipsOf(s)
  BY <1>1
<1>3. clipped[s].loud \subseteq DOMAIN selected[s] /\ s \in DOMAIN selected
  BY <1>1 DEF SpeechInv, Judged, Picked
<1> QED  BY <1>2, <1>3 DEF ClipsOf

\* A candidate is a segment of its speaker that can be cut.
LEMMA CandidateMeasured ==
    ASSUME SpeechInv, NEW s \in DOMAIN selected, NEW i \in DOMAIN selected[s]
    PROVE  /\ Measured(selected[s][i]) /\ Usable(selected[s][i]) /\ selected[s][i].speaker = s
           /\ \E k \in DOMAIN transcript : transcript[k] = selected[s][i]
<1>1. selected[s] \in Seq(Range(transcript)) /\ Usable(selected[s][i])
      /\ selected[s][i].speaker = s
  BY DEF SpeechInv, Picked
<1>2. selected[s] \in [1..Len(selected[s]) -> Range(transcript)]
      /\ DOMAIN selected[s] = 1..Len(selected[s])
  BY <1>1, LenProperties
<1>3. selected[s][i] \in Range(transcript)
  BY <1>2
<1>4. PICK k \in DOMAIN transcript : transcript[k] = selected[s][i]
  BY <1>3 DEF Range
<1>5. Measured(transcript[k])
  BY DEF SpeechInv, Listed
<1> QED  BY <1>1, <1>4, <1>5

\* The invariant makes clips usable.
LEMMA ClipsAreUsable == ASSUME SpeechInv PROVE ClipsUsable
<1>1. ASSUME NEW c \in clips, NEW d \in clips, c.speaker = d.speaker
      PROVE  c = d \/ c.bounds.end <= d.bounds.start \/ d.bounds.end <= c.bounds.start
  <2>1. PICK s \in DOMAIN selected : \E i \in DOMAIN selected[s] :
            c = [speaker |-> s, index |-> Cardinality({j \in clipped[s].loud : j <= i}),
                 segment |-> selected[s][i].id, bounds |-> ClipBounds(selected[s][i])]
    BY ClipOrigin
  <2>2. PICK i \in DOMAIN selected[s] :
            c = [speaker |-> s, index |-> Cardinality({j \in clipped[s].loud : j <= i}),
                 segment |-> selected[s][i].id, bounds |-> ClipBounds(selected[s][i])]
    BY <2>1
  <2>3. PICK t \in DOMAIN selected : \E k \in DOMAIN selected[t] :
            d = [speaker |-> t, index |-> Cardinality({j \in clipped[t].loud : j <= k}),
                 segment |-> selected[t][k].id, bounds |-> ClipBounds(selected[t][k])]
    BY ClipOrigin
  <2>4. PICK k \in DOMAIN selected[t] :
            d = [speaker |-> t, index |-> Cardinality({j \in clipped[t].loud : j <= k}),
                 segment |-> selected[t][k].id, bounds |-> ClipBounds(selected[t][k])]
    BY <2>3
  <2>5. c.speaker = s /\ d.speaker = t /\ c.bounds = ClipBounds(selected[s][i])
        /\ d.bounds = ClipBounds(selected[t][k])
    BY <2>2, <2>4
  <2>6. s = t
    BY <1>1, <2>5
  <2>7. CASE i = k
    BY <2>2, <2>4, <2>6, <2>7
  <2>8. CASE i # k
    <3>1. Apart(selected[s][i], selected[s][k])
      BY <2>6, <2>8 DEF SpeechInv, Picked
    <3>2. Measured(selected[s][i]) /\ Measured(selected[s][k])
      BY <2>6, CandidateMeasured
    <3> QED  BY <2>5, <2>6, <3>1, <3>2, ClipsApart
  <2> QED  BY <2>7, <2>8
<1>2. ASSUME NEW c \in clips
      PROVE  \E k \in DOMAIN transcript :
                /\ transcript[k].id = c.segment
                /\ transcript[k].speaker = c.speaker
                /\ transcript[k].status = "assigned"
                /\ transcript[k].start <= c.bounds.start
                /\ c.bounds.start < c.bounds.end
                /\ c.bounds.end <= transcript[k].end
  <2>1. PICK s \in DOMAIN selected : \E i \in DOMAIN selected[s] :
            c = [speaker |-> s, index |-> Cardinality({j \in clipped[s].loud : j <= i}),
                 segment |-> selected[s][i].id, bounds |-> ClipBounds(selected[s][i])]
    BY ClipOrigin
  <2>2. PICK i \in DOMAIN selected[s] :
            c = [speaker |-> s, index |-> Cardinality({j \in clipped[s].loud : j <= i}),
                 segment |-> selected[s][i].id, bounds |-> ClipBounds(selected[s][i])]
    BY <2>1
  <2>3. c.speaker = s /\ c.segment = selected[s][i].id /\ c.bounds = ClipBounds(selected[s][i])
    BY <2>2
  <2>4. PICK k \in DOMAIN transcript : transcript[k] = selected[s][i]
    BY CandidateMeasured
  <2>5. Measured(transcript[k]) /\ Usable(transcript[k]) /\ transcript[k].speaker = s
    BY <2>4, CandidateMeasured
  <2> QED  BY <2>3, <2>4, <2>5, ClipInSegment DEF Usable
<1>3. ASSUME stage = "stored", NEW s \in DOMAIN clipped, clipped[s] # None
      PROVE  clipped[s].status = "ready" <=> Cardinality({c \in clips : c.speaker = s}) >= 2
  <2>1. clips = UNION {ClipsOf(t) : t \in DOMAIN clipped}
    BY <1>3 DEF SpeechInv, Registered
  <2>2. ASSUME NEW t, NEW c \in ClipsOf(t) PROVE c.speaker = t
    <3>1. PICK i \in clipped[t].loud :
              c = [speaker |-> t, index |-> Cardinality({j \in clipped[t].loud : j <= i}),
                   segment |-> selected[t][i].id, bounds |-> ClipBounds(selected[t][i])]
      BY DEF ClipsOf
    <3> QED  BY <3>1
  <2>3. {c \in clips : c.speaker = s} = ClipsOf(s)
    BY <2>1, <2>2
  <2>4. clipped[s].status = "ready" <=> Cardinality(clipped[s].loud) >= 2
    BY <1>3 DEF SpeechInv, Judged
  <2> QED  BY <1>3, <2>3, <2>4, ClipsCounted
<1> QED  BY <1>1, <1>2, <1>3 DEF ClipsUsable

-----------------------------------------------------------------------------
(* The turns that are accepted *)

\* One of the turns of a voice is its first.
LEMMA FirstTurn ==
    ASSUME NEW all, IsFiniteSet(all), all \subseteq [start : Int, end : Int, voice : Int],
           NEW v, \E t \in all : t.voice = v
    PROVE  \E t \in all : t.voice = v /\ \A u \in all : u.voice = v => u = t \/ TurnBefore(t, u)
<1> DEFINE own   == {t \in all : t.voice = v}
           Below == [t \in own |-> {u \in own : TurnBefore(u, t)}]
<1>1. IsFiniteSet(own) /\ own # {}
  BY FS_Subset
<1>2. /\ Below \in [own -> SUBSET own]
      /\ \A x \in own : x \notin Below[x]
      /\ \A x, y \in own : x # y => x \in Below[y] \/ y \in Below[x]
      /\ \A x, y \in own : x \in Below[y] => Below[x] \subseteq Below[y]
  BY DEF TurnBefore
<1>3. PICK t \in own : \A u \in own \ {t} : t \in Below[u]
  <2> HIDE DEF own, Below
  <2> QED  BY <1>1, <1>2, Foremost
<1> QED  BY <1>3

\* Speakers are numbered apart.
LEMMA VoicesNumbered ==
    ASSUME NEW all, IsFiniteSet(all), all \subseteq [start : Int, end : Int, voice : Int],
           NEW t \in all, NEW u \in all
    PROVE  /\ SpeakerId(all, t.voice) \in Nat
           /\ SpeakerId(all, t.voice) = SpeakerId(all, u.voice) => t.voice = u.voice
<1> DEFINE first(v)  == CHOOSE x \in all : /\ x.voice = v
                            /\ \A y \in all : y.voice = v => y = x \/ TurnBefore(x, y)
           before(v) == {y.voice : y \in {x \in all : TurnBefore(x, first(v))}}
           voices    == {y.voice : y \in all}
<1>1. \A v : SpeakerId(all, v) = Cardinality(before(v))
  BY DEF SpeakerId
<1>2. ASSUME NEW v \in voices
      PROVE  /\ first(v) \in all /\ first(v).voice = v
             /\ \A y \in all : y.voice = v => y = first(v) \/ TurnBefore(first(v), y)
  BY FirstTurn
<1>3. IsFiniteSet(voices)
  <2> DEFINE f == [x \in all |-> x.voice]
  <2>1. f \in Surjection(all, voices)
    BY DEF Surjection
  <2> HIDE DEF f, voices
  <2> QED  BY <2>1, FS_Surjection
<1>4. \A v : IsFiniteSet(before(v)) /\ Cardinality(before(v)) \in Nat
  <2> SUFFICES ASSUME NEW v PROVE IsFiniteSet(before(v)) /\ Cardinality(before(v)) \in Nat
    OBVIOUS
  <2>1. before(v) \in SUBSET voices
    OBVIOUS
  <2> HIDE DEF before, voices
  <2> QED  BY <1>3, <2>1, FS_Subset, FS_CardinalityType
<1>5. ASSUME NEW v \in voices, NEW w \in voices, TurnBefore(first(v), first(w))
      PROVE  Cardinality(before(v)) # Cardinality(before(w))
  <2>1. /\ first(v) \in all /\ first(v).voice = v
        /\ first(w) \in all /\ first(w).voice = w
        /\ \A y \in all : y.voice = v => y = first(v) \/ TurnBefore(first(v), y)
    BY <1>2
  <2> HIDE DEF first, voices
  <2>2. \A x \in all : TurnBefore(x, first(v)) => TurnBefore(x, first(w))
    BY <1>5, <2>1 DEF TurnBefore
  <2>3. v \in before(w)
    BY <1>5, <2>1
  <2>4. \A y \in all : y.voice = v => ~TurnBefore(y, first(v))
    BY <2>1 DEF TurnBefore
  <2>5. v \notin before(v)
    BY <2>4
  <2>6. before(v) \in SUBSET before(w)
    BY <2>2
  <2> HIDE DEF before
  <2> QED  BY <1>4, <2>3, <2>5, <2>6, FS_Subset
<1>6. ASSUME t.voice # u.voice PROVE Cardinality(before(t.voice)) # Cardinality(before(u.voice))
  <2>1. t.voice \in voices /\ u.voice \in voices
    OBVIOUS
  <2>2. /\ first(t.voice) \in all /\ first(u.voice) \in all
        /\ first(t.voice).voice # first(u.voice).voice
    BY <1>2, <1>6, <2>1
  <2> HIDE DEF first, before, voices
  <2>3. TurnBefore(first(t.voice), first(u.voice)) \/ TurnBefore(first(u.voice), first(t.voice))
    BY <2>2 DEF TurnBefore
  <2> QED  BY <1>5, <2>1, <2>3
<1> QED  BY <1>1, <1>4, <1>6

\* Turns lie somewhere, and those of one speaker do not overlap.
Spoken ==
    /\ IsFiniteSet(turns)
    /\ turns \subseteq [start : Nat, end : Nat, speaker : Nat]
    /\ \A t \in turns : t.start < t.end
    /\ \A t, u \in turns : t.speaker = u.speaker => t = u \/ t.end <= u.start \/ u.end <= t.start

\* The accepted turns.
LEMMA DiarizeSpoken ==
    ASSUME Spoken, NEW answer \in TurnAnswers, Diarize(answer)
    PROVE  Spoken'
<1> DEFINE all == {t \in {Clamped(u) : u \in answer} : t.start < t.end}
           numbered(t) == [start |-> t.start, end |-> t.end, speaker |-> SpeakerId(all, t.voice)]
<1>1. CASE UNCHANGED turns
  BY <1>1 DEF Spoken
<1>2. CASE /\ answer # None /\ \A t \in answer : Timed(t) /\ t.start < t.end /\ t.voice # None
           /\ turns' = {numbered(t) : t \in all}
  <2>1. /\ IsFiniteSet(answer)
        /\ \A u \in answer : u \in [start : Int, end : Int, voice : Int]
    <3>1. IsFiniteSet(answer) /\ answer \subseteq Turn
      BY <1>2, TurnAssumption
    <3>2. ASSUME NEW u \in answer PROVE u \in [start : Int, end : Int, voice : Int]
      <4>1. u \in Turn /\ u.start # None /\ u.end # None /\ u.voice # None
        BY <1>2, <3>1 DEF Timed
      <4> QED  BY <4>1, VoiceAssumption DEF Turn
    <3> QED  BY <3>1, <3>2
  <2>2. \A t, u \in answer : t.voice = u.voice => t = u \/ t.end <= u.start \/ u.end <= t.start
    BY <1>2, TrackAssumption DEF Timed
  <2>3. ASSUME NEW u \in answer
        PROVE  /\ Clamped(u) \in [start : Nat, end : Nat, voice : Int]
               /\ Clamped(u).voice = u.voice
               /\ Clamped(u).start < Clamped(u).end =>
                     u.start <= Clamped(u).start /\ Clamped(u).end <= u.end
    <3>1. u \in [start : Int, end : Int, voice : Int] /\ Ticks \in Nat
      BY <2>1, DurationAssumption DEF Ticks
    <3> DEFINE from == Lower(Higher(u.start, 0), Ticks)
               to   == Lower(Higher(u.end, from), Ticks)
    <3>2. from \in Nat /\ (from < Ticks => u.start <= from)
      BY <3>1 DEF Lower, Higher
    <3>3. to \in Nat /\ to <= Ticks /\ (from < to => to <= u.end)
      <4> HIDE DEF from
      <4> QED  BY <3>1, <3>2 DEF Lower, Higher
    <3>4. Clamped(u) = [u EXCEPT !.start = from, !.end = to]
      BY DEF Clamped
    <3> HIDE DEF from, to
    <3>5. /\ Clamped(u) = [start |-> from, end |-> to, voice |-> u.voice]
      BY <3>1, <3>4
    <3> QED  BY <3>1, <3>2, <3>3, <3>5
  <2>4. IsFiniteSet(all) /\ all \subseteq [start : Nat, end : Nat, voice : Int]
    <3> DEFINE image == {Clamped(u) : u \in answer}
               f     == [u \in answer |-> Clamped(u)]
    <3>1. f \in Surjection(answer, image)
      BY DEF Surjection
    <3>2. IsFiniteSet(image)
      <4> HIDE DEF f, image
      <4> QED  BY <2>1, <3>1, FS_Surjection
    <3>3. all \in SUBSET image
      OBVIOUS
    <3>4. IsFiniteSet(all)
      <4> HIDE DEF all, image
      <4> QED  BY <3>2, <3>3, FS_Subset
    <3> QED  BY <2>3, <3>4
  <2>5. \A t, u \in all : t.voice = u.voice => t = u \/ t.end <= u.start \/ u.end <= t.start
    <3> SUFFICES ASSUME NEW t \in all, NEW u \in all, t.voice = u.voice, t # u
                 PROVE  t.end <= u.start \/ u.end <= t.start
      OBVIOUS
    <3>1. PICK x \in answer : t = Clamped(x)
      OBVIOUS
    <3>2. PICK y \in answer : u = Clamped(y)
      OBVIOUS
    <3>3. x.voice = y.voice /\ x # y
      BY <2>3, <3>1, <3>2
    <3>4. x.end <= y.start \/ y.end <= x.start
      BY <2>2, <3>3
    <3>5. t.start < t.end /\ u.start < u.end
      OBVIOUS
    <3> HIDE DEF all
    <3> QED  BY <2>1, <2>3, <3>1, <3>2, <3>4, <3>5
  <2>6. \A t, u \in all : /\ SpeakerId(all, t.voice) \in Nat
                          /\ SpeakerId(all, t.voice) = SpeakerId(all, u.voice) => t.voice = u.voice
    <3>1. all \subseteq [start : Int, end : Int, voice : Int]
      <4> HIDE DEF all
      <4> QED  BY <2>4
    <3> HIDE DEF all
    <3> QED  BY <2>4, <3>1, VoicesNumbered
  <2>7. \A t \in all : t.start < t.end
    OBVIOUS
  <2> HIDE DEF all
  <2>8. IsFiniteSet(turns')
    <3> DEFINE image == {numbered(u) : u \in all}
               f     == [u \in all |-> numbered(u)]
    <3>1. f \in Surjection(all, image)
      BY DEF Surjection
    <3> HIDE DEF f
    <3>2. IsFiniteSet(image)
      BY <2>4, <3>1, FS_Surjection
    <3> QED  BY <1>2, <3>2
  <2>9. /\ turns' \subseteq [start : Nat, end : Nat, speaker : Nat]
        /\ \A t \in turns' : t.start < t.end
    BY <1>2, <2>4, <2>6, <2>7
  <2>10. ASSUME NEW t \in turns', NEW u \in turns', t.speaker = u.speaker
         PROVE  t = u \/ t.end <= u.start \/ u.end <= t.start
    <3>1. PICK x \in all : t = numbered(x)
      BY <1>2
    <3>2. PICK y \in all : u = numbered(y)
      BY <1>2
    <3>3. x.voice = y.voice
      BY <2>6, <2>10, <3>1, <3>2
    <3>4. x = y \/ x.end <= y.start \/ y.end <= x.start
      BY <2>5, <3>3
    <3> QED  BY <3>1, <3>2, <3>4
  <2> QED  BY <2>8, <2>9, <2>10 DEF Spoken
<1> QED  BY <1>1, <1>2 DEF Diarize

-----------------------------------------------------------------------------
(* How long somebody talks *)

\* Total, as a recursion over the parts that are left.
Times(S) ==
    CHOOSE f : f = [s \in SUBSET S |->
        IF s = {} THEN 0
        ELSE LET p == CHOOSE x \in s : TRUE IN f[s \ {p}] + p.end - p.start]

\* The recursion defines a sum.
LEMMA TimesDefined ==
    ASSUME NEW S, IsFiniteSet(S), \A p \in S : p.start \in Int /\ p.end \in Int
    PROVE  /\ Times(S) \in [SUBSET S -> Int]
           /\ Times(S)[{}] = 0
           /\ \A s \in SUBSET S : s = {} \/ \E p \in s :
                 Times(S)[s] = Times(S)[s \ {p}] + p.end - p.start
<1> DEFINE pick == [s \in (SUBSET S) \ {{}} |-> CHOOSE x \in s : TRUE]
           rule == [p \in S |-> [n \in Int |-> n + p.end - p.start]]
<1>1. /\ \A s \in SUBSET S : s # {} => pick[s] \in s /\ pick[s] = CHOOSE x \in s : TRUE
      /\ \A p \in S, n \in Int : rule[p][n] = n + p.end - p.start
  OBVIOUS
<1>2. PICK fold : Folds(S, 0, pick, rule, fold)
  <2>1. rule \in [S -> [Int -> Int]] /\ 0 \in Int
    OBVIOUS
  <2>2. Picks(S, pick)
    BY <1>1 DEF Picks
  <2> HIDE DEF pick, rule
  <2> QED  BY <2>1, <2>2, FoldExists
<1>3. fold = [s \in SUBSET S |->
                 IF s = {} THEN 0
                 ELSE LET p == CHOOSE x \in s : TRUE IN fold[s \ {p}] + p.end - p.start]
  <2> HIDE DEF pick, rule
  <2>1. ASSUME NEW s \in SUBSET S
        PROVE  fold[s] = IF s = {} THEN 0
                         ELSE LET p == CHOOSE x \in s : TRUE IN fold[s \ {p}] + p.end - p.start
    <3>1. CASE s = {}
      BY <1>2, <3>1 DEF Folds
    <3>2. CASE s # {}
      <4>1. pick[s] \in S /\ fold[s \ {pick[s]}] \in Int
        BY <1>1, <1>2, <3>2 DEF Folds
      <4> QED  BY <1>1, <1>2, <3>2, <4>1 DEF Folds
    <3> QED  BY <3>1, <3>2
  <2>2. fold = [s \in SUBSET S |-> fold[s]]
    BY <1>2 DEF Folds
  <2> QED  BY <2>1, <2>2
<1>4. Times(S) = [s \in SUBSET S |->
                     IF s = {} THEN 0
                     ELSE LET p == CHOOSE x \in s : TRUE IN Times(S)[s \ {p}] + p.end - p.start]
  BY <1>3 DEF Times
<1> DEFINE sum == Times(S)
           G   == {s \in SUBSET S : sum[s] \in Int}
<1>5. G = SUBSET S
  <2>1. {} \in G
    BY <1>4
  <2>2. ASSUME NEW s \in SUBSET S, s # {}, s \ {pick[s]} \in G PROVE s \in G
    <3>1. /\ pick[s] \in S /\ sum[s \ {pick[s]}] \in Int
          /\ pick[s].start \in Int /\ pick[s].end \in Int
      BY <1>1, <2>2
    <3>2. sum[s] = sum[s \ {pick[s]}] + pick[s].end - pick[s].start
      BY <1>1, <1>4, <2>2
    <3> HIDE DEF sum, pick
    <3>3. sum[s] \in Int
      BY <3>1, <3>2
    <3> QED  BY <3>3
  <2>3. G \in SUBSET (SUBSET S)
    OBVIOUS
  <2> HIDE DEF G, pick
  <2>4. \A s \in SUBSET S : s = {} \/ \E x \in s : s \ {x} \in G => s \in G
    BY <1>1, <2>2
  <2> QED  BY <2>1, <2>3, <2>4, SubsetInduction
<1>6. \A s \in SUBSET S : sum[s] \in Int
  BY <1>5
<1>7. sum \in [SUBSET S -> Int]
  <2> HIDE DEF sum
  <2>1. sum = [s \in SUBSET S |-> sum[s]]
    BY <1>4 DEF sum
  <2> QED  BY <1>6, <2>1
<1>8. ASSUME NEW s \in SUBSET S, s # {}
      PROVE  \E p \in s : sum[s] = sum[s \ {p}] + p.end - p.start
  <2>1. pick[s] \in s
    BY <1>1, <1>8
  <2>2. pick[s] = CHOOSE x \in s : TRUE
    BY <1>1, <1>8
  <2>3. LET p == CHOOSE x \in s : TRUE IN sum[s] = sum[s \ {p}] + p.end - p.start
    BY <1>4, <1>8
  <2> HIDE DEF sum, pick
  <2> QED  BY <2>1, <2>2, <2>3
<1> QED  BY <1>4, <1>7, <1>8

\* Total is that sum.
LEMMA TotalIsTimes ==
    ASSUME NEW parts, NEW s
    PROVE  Total(parts, s) = LET own == {p \in parts : p.speaker = s} IN Times(own)[own]
  BY DEF Total, FoldSet, MapThenFoldSet, Times

\* The total is a number.
LEMMA TotalTyped ==
    ASSUME NEW parts, IsFiniteSet(parts), \A p \in parts : p.start \in Int /\ p.end \in Int,
           NEW s
    PROVE  Total(parts, s) \in Int
<1> DEFINE own == {p \in parts : p.speaker = s}
<1>1. IsFiniteSet(own)
  BY FS_Subset
<1>2. Times(own) \in [SUBSET own -> Int]
  <2>1. \A p \in own : p.start \in Int /\ p.end \in Int
    OBVIOUS
  <2> HIDE DEF own
  <2> QED  BY <1>1, <2>1, TimesDefined
<1>3. Times(own)[own] \in Int
  <2> HIDE DEF own
  <2> QED  BY <1>2
<1> QED  BY <1>3, TotalIsTimes

\* The moments of intervals.
Moments(S) == {t \in Int : \E p \in S : p.start <= t /\ t < p.end}

\* Of intervals that do not overlap, the lengths add up to the number of moments.
LEMMA TimesCounted ==
    ASSUME NEW S, IsFiniteSet(S),
           \A p \in S : p.start \in Int /\ p.end \in Int /\ p.start < p.end,
           \A p, q \in S : p = q \/ p.end <= q.start \/ q.end <= p.start
    PROVE  IsFiniteSet(Moments(S)) /\ Times(S)[S] = Cardinality(Moments(S))
<1> DEFINE G == {s \in SUBSET S : /\ IsFiniteSet(Moments(s))
                                  /\ Times(S)[s] = Cardinality(Moments(s))}
<1>1. {} \in G
  <2>1. Moments({}) = {}
    BY DEF Moments
  <2> QED  BY <2>1, FS_EmptySet, TimesDefined
<1>2. ASSUME NEW s \in SUBSET S, s # {}
      PROVE  \E p \in s : s \ {p} \in G => s \in G
  <2>1. PICK p \in s : Times(S)[s] = Times(S)[s \ {p}] + p.end - p.start
    BY <1>2, TimesDefined
  <2> DEFINE rest == Moments(s \ {p})
             new  == p.start .. (p.end - 1)
  <2>2. SUFFICES ASSUME s \ {p} \in G PROVE s \in G
    OBVIOUS
  <2>3. p.start \in Int /\ p.end \in Int /\ p.start < p.end
    OBVIOUS
  <2>4. Moments(s) = rest \cup new
    <3>1. \A q \in s : q.start \in Int /\ q.end \in Int
      OBVIOUS
    <3> QED  BY <2>3, <3>1 DEF Moments
  <2>5. rest \cap new = {}
    <3> SUFFICES ASSUME NEW t \in rest, t \in new PROVE FALSE
      OBVIOUS
    <3>1. PICK q \in s \ {p} : q.start <= t /\ t < q.end
      BY DEF Moments
    <3>2. q.start \in Int /\ q.end \in Int /\ (p.end <= q.start \/ q.end <= p.start)
      BY <3>1
    <3> QED  BY <2>3, <3>1, <3>2
  <2>6. IsFiniteSet(rest) /\ Times(S)[s \ {p}] = Cardinality(rest)
    BY <2>2
  <2>7. IsFiniteSet(new) /\ Cardinality(new) = p.end - p.start
    <3>1. IsFiniteSet(new)
      BY <2>3, FS_Interval
    <3>2. Cardinality(new) = IF p.start > p.end - 1 THEN 0 ELSE (p.end - 1) - p.start + 1
      <4>1. p.end - 1 \in Int
        BY <2>3
      <4> QED  BY <2>3, <4>1, FS_Interval
    <3> QED  BY <2>3, <3>1, <3>2
  <2> HIDE DEF rest, new
  <2>8. /\ IsFiniteSet(Moments(s))
        /\ Cardinality(Moments(s)) = Cardinality(rest) + Cardinality(new)
    <3>1. /\ IsFiniteSet(rest \cup new)
          /\ Cardinality(rest \cup new) =
                Cardinality(rest) + Cardinality(new) - Cardinality(rest \cap new)
      BY <2>6, <2>7, FS_Union
    <3>2. Cardinality(rest \cap new) = 0
      BY <2>5, FS_EmptySet
    <3>3. Cardinality(rest) \in Nat /\ Cardinality(new) \in Nat
      BY <2>6, <2>7, FS_CardinalityType
    <3> QED  BY <2>4, <3>1, <3>2, <3>3
  <2>9. Times(S)[s] = Cardinality(Moments(s))
    <3>1. Cardinality(rest) \in Nat
      BY <2>6, FS_CardinalityType
    <3>2. Times(S)[s] = Cardinality(rest) + p.end - p.start
      BY <2>1, <2>6
    <3>3. Cardinality(Moments(s)) = Cardinality(rest) + (p.end - p.start)
      BY <2>7, <2>8
    <3> QED  BY <2>3, <3>1, <3>2, <3>3
  <2> QED  BY <2>8, <2>9
<1>3. G = SUBSET S
  <2>1. G \in SUBSET (SUBSET S)
    OBVIOUS
  <2> HIDE DEF G
  <2>2. \A s \in SUBSET S : s = {} \/ \E x \in s : s \ {x} \in G => s \in G
    BY <1>2
  <2> QED  BY <1>1, <2>1, <2>2, SubsetInduction
<1> QED  BY <1>3

\* The lower and the higher of two numbers.
LEMMA Bounds ==
    ASSUME NEW a \in Nat, NEW b \in Nat
    PROVE  /\ Lower(a, b) \in Nat /\ Higher(a, b) \in Nat
           /\ \A t \in Int : /\ t < Lower(a, b) <=> t < a /\ t < b
                             /\ Higher(a, b) <= t <=> a <= t /\ b <= t
  BY DEF Lower, Higher

\* The parts of turns in a segment are intervals, and those of one speaker do
\* not overlap.
LEMMA PartsApart ==
    ASSUME Spoken, NEW x, x.start \in Nat, x.end \in Nat
    PROVE  /\ IsFiniteSet(Parts(x))
           /\ Parts(x) \subseteq [start : Nat, end : Nat, speaker : Nat]
           /\ \A p \in Parts(x) : p.start < p.end
           /\ \A p, q \in Parts(x) : p.speaker = q.speaker =>
                 p = q \/ p.end <= q.start \/ q.end <= p.start
           /\ \A p \in Parts(x) : \E u \in turns :
                 /\ p = [start |-> Higher(x.start, u.start), end |-> Lower(x.end, u.end),
                         speaker |-> u.speaker]
<1> DEFINE part(u) == [start |-> Higher(x.start, u.start), end |-> Lower(x.end, u.end),
                       speaker |-> u.speaker]
           image   == {part(u) : u \in turns}
<1>1. \A u \in turns : u.start \in Nat /\ u.end \in Nat /\ u.start < u.end /\ u.speaker \in Nat
  BY DEF Spoken
<1>2. IsFiniteSet(image)
  <2> DEFINE f == [u \in turns |-> part(u)]
  <2>1. f \in Surjection(turns, image)
    BY DEF Surjection
  <2> HIDE DEF f, image
  <2> QED  BY <2>1, FS_Surjection DEF Spoken
<1>3. Parts(x) = {p \in image : p.start < p.end}
  BY DEF Parts
<1>4. IsFiniteSet(Parts(x))
  <2>1. Parts(x) \in SUBSET image
    BY <1>3
  <2> HIDE DEF image
  <2> QED  BY <1>2, <2>1, FS_Subset
<1>5. ASSUME NEW u \in turns
      PROVE  part(u) \in [start : Nat, end : Nat, speaker : Nat]
  BY <1>1, Bounds
<1>6. ASSUME NEW p \in Parts(x), NEW q \in Parts(x), p.speaker = q.speaker
      PROVE  p = q \/ p.end <= q.start \/ q.end <= p.start
  <2>1. PICK u \in turns : p = part(u)
    BY <1>3
  <2>2. PICK v \in turns : q = part(v)
    BY <1>3
  <2>3. u = v \/ u.end <= v.start \/ v.end <= u.start
    BY <1>6, <2>1, <2>2 DEF Spoken
  <2>4. p.start < p.end /\ q.start < q.end
    BY <1>3
  <2> QED  BY <1>1, <2>1, <2>2, <2>3, <2>4 DEF Lower, Higher
<1> QED  BY <1>3, <1>4, <1>5, <1>6

Intervals(parts) ==
    /\ IsFiniteSet(parts)
    /\ parts \subseteq [start : Nat, end : Nat, speaker : Nat]
    /\ \A p \in parts : p.start < p.end

\* Where a speaker is first heard.
LEMMA FirstPartTyped ==
    ASSUME NEW parts, Intervals(parts), NEW s \in Talkers(parts)
    PROVE  FirstPart(parts, s) \in Nat
<1> DEFINE own == {t \in {p.start : p \in parts} : \E p \in parts : p.speaker = s /\ p.start = t}
<1>1. own \in SUBSET Nat
  BY DEF Intervals
<1>2. own # {}
  BY DEF Talkers
<1>3. PICK t \in own : \A u \in own : t <= u
  <2> HIDE DEF own
  <2> QED  BY <1>1, <1>2, Least
<1>4. /\ t \in {p.start : p \in parts}
      /\ \E p \in parts : p.speaker = s /\ p.start = t
      /\ \A p \in parts : p.speaker = s => t <= p.start
  BY <1>3
<1>5. FirstPart(parts, s) \in {p.start : p \in parts}
  BY <1>4 DEF FirstPart
<1> QED  BY <1>5 DEF Intervals

\* A speaker of the segment is ahead of all others, with no less time than any.
LEMMA PrimaryAhead ==
    ASSUME NEW parts, Intervals(parts), parts # {}
    PROVE  /\ Primary(parts) \in Talkers(parts)
           /\ \A t \in Talkers(parts) : Total(parts, t) <= Total(parts, Primary(parts))
<1> DEFINE S     == Talkers(parts)
           Below == [t \in S |-> {s \in S : Ahead(parts, s, t)}]
<1>1. IsFiniteSet(S) /\ S # {} /\ S \subseteq Nat
  <2> DEFINE f == [p \in parts |-> p.speaker]
  <2>1. f \in Surjection(parts, S)
    BY DEF Surjection, Talkers
  <2>2. S # {} /\ S \subseteq Nat
    BY DEF Talkers, Intervals
  <2> HIDE DEF f, S
  <2> QED  BY <2>1, <2>2, FS_Surjection DEF Intervals
<1>2. \A s \in S : Total(parts, s) \in Int /\ FirstPart(parts, s) \in Nat /\ s \in Nat
  <2>1. \A p \in parts : p.start \in Int /\ p.end \in Int
    BY DEF Intervals
  <2> HIDE DEF S
  <2>2. \A s \in S : Total(parts, s) \in Int
    BY <2>1, TotalTyped DEF Intervals
  <2> QED  BY <1>1, <2>2, FirstPartTyped DEF S
<1>3. /\ Below \in [S -> SUBSET S]
      /\ \A x \in S : x \notin Below[x]
      /\ \A x, y \in S : x # y => x \in Below[y] \/ y \in Below[x]
      /\ \A x, y \in S : x \in Below[y] => Below[x] \subseteq Below[y]
  <2> HIDE DEF S
  <2> QED  BY <1>2 DEF Ahead
<1>4. PICK s \in S : \A t \in S \ {s} : s \in Below[t]
  <2> HIDE DEF S, Below
  <2> QED  BY <1>1, <1>3, Foremost
<1>5. \A t \in S \ {s} : Ahead(parts, s, t)
  <2> HIDE DEF S
  <2> QED  BY <1>4
<1>6. /\ Primary(parts) \in S
      /\ \A t \in S \ {Primary(parts)} : Ahead(parts, Primary(parts), t)
  <2> HIDE DEF S
  <2>1. Primary(parts) = CHOOSE x \in S : \A t \in S \ {x} : Ahead(parts, x, t)
    BY DEF Primary, S
  <2> QED  BY <1>5, <2>1
<1>7. \A t \in S : Total(parts, t) <= Total(parts, Primary(parts))
  <2> HIDE DEF S
  <2> QED  BY <1>2, <1>6 DEF Ahead
<1> QED  BY <1>6, <1>7

\* Who overlaps, overlaps with somebody.
LEMMA OverlapsPaired ==
    ASSUME NEW parts, Intervals(parts)
    PROVE  /\ IsFiniteSet(Overlapping(parts))
           /\ Cardinality(Overlapping(parts)) # 1
           /\ Cardinality(Overlapping(parts)) >= 2 <=> Overlapping(parts) # {}
           /\ parts = {} => Overlapping(parts) = {}
<1> DEFINE S == Overlapping(parts)
<1>1. IsFiniteSet(S)
  <2> DEFINE f == [p \in parts |-> p.speaker]
             image == {p.speaker : p \in parts}
  <2>1. f \in Surjection(parts, image)
    BY DEF Surjection
  <2>2. S \in SUBSET image
    BY DEF Overlapping
  <2> HIDE DEF f, S, image
  <2> QED  BY <2>1, <2>2, FS_Surjection, FS_Subset DEF Intervals
<1>2. ASSUME NEW s \in S PROVE \E t \in S : s # t
  <2>1. PICK q \in parts : /\ q.speaker = s
                          /\ \E r \in parts : /\ q.speaker # r.speaker
                                               /\ Higher(q.start, r.start) < Lower(q.end, r.end)
    BY DEF Overlapping
  <2>2. PICK r \in parts : /\ q.speaker # r.speaker
                          /\ Higher(q.start, r.start) < Lower(q.end, r.end)
    BY <2>1
  <2>3. q.start \in Nat /\ q.end \in Nat /\ r.start \in Nat /\ r.end \in Nat
    BY DEF Intervals
  <2>4. Higher(r.start, q.start) < Lower(r.end, q.end)
    BY <2>2, <2>3 DEF Higher, Lower
  <2>5. r.speaker \in S
    BY <2>2, <2>4 DEF Overlapping
  <2> HIDE DEF S
  <2> QED  BY <2>1, <2>2, <2>5
<1> HIDE DEF S
<1>3. Cardinality(S) \in Nat
  BY <1>1, FS_CardinalityType
<1>4. S # {} => Cardinality(S) # 0 /\ Cardinality(S) # 1
  <2> SUFFICES ASSUME NEW s \in S PROVE Cardinality(S) # 0 /\ Cardinality(S) # 1
    OBVIOUS
  <2>1. PICK t \in S : s # t
    BY <1>2
  <2>2. IsFiniteSet(S \ {s}) /\ Cardinality(S \ {s}) = Cardinality(S) - 1
    BY <1>1, FS_RemoveElement
  <2>3. S \ {s} # {}
    BY <2>1
  <2>4. Cardinality(S \ {s}) # 0
    BY <2>2, <2>3, FS_EmptySet
  <2>5. Cardinality(S \ {s}) \in Nat
    BY <2>2, FS_CardinalityType
  <2> QED  BY <1>3, <2>2, <2>4, <2>5
<1>5. S = {} => Cardinality(S) = 0
  BY FS_EmptySet
<1>6. parts = {} => S = {}
  BY DEF S, Overlapping
<1> QED  BY <1>1, <1>3, <1>4, <1>5, <1>6 DEF S

\* The time of a speaker's parts is the time the speaker talks in the segment.
LEMMA TotalIsTime ==
    ASSUME Spoken, NEW x, x.start \in Nat, x.end \in Nat, NEW s
    PROVE  /\ IsFiniteSet({t \in x.start .. x.end - 1 : Talks(s, t)})
           /\ Total(Parts(x), s) = Cardinality({t \in x.start .. x.end - 1 : Talks(s, t)})
<1> DEFINE own == {p \in Parts(x) : p.speaker = s}
<1>1. /\ IsFiniteSet(own)
      /\ \A p \in own : p.start \in Int /\ p.end \in Int /\ p.start < p.end
      /\ \A p, q \in own : p = q \/ p.end <= q.start \/ q.end <= p.start
  <2>1. own \in SUBSET Parts(x)
    OBVIOUS
  <2>2. IsFiniteSet(own)
    <3> HIDE DEF own
    <3> QED  BY <2>1, PartsApart, FS_Subset
  <2> QED  BY <2>2, PartsApart
<1>2. Moments(own) = {t \in x.start .. x.end - 1 : Talks(s, t)}
  <2>1. ASSUME NEW t \in Moments(own) PROVE t \in x.start .. x.end - 1 /\ Talks(s, t)
    <3>1. PICK p \in own : p.start <= t /\ t < p.end
      BY DEF Moments
    <3>2. PICK u \in turns : p = [start |-> Higher(x.start, u.start), end |-> Lower(x.end, u.end),
                                  speaker |-> u.speaker]
      BY PartsApart
    <3>3. t \in Int /\ u.start \in Nat /\ u.end \in Nat /\ u.speaker = s
      BY <3>2 DEF Moments, Spoken
    <3>4. x.start <= t /\ u.start <= t /\ t < x.end /\ t < u.end
      BY <3>1, <3>2, <3>3, Bounds
    <3> QED  BY <3>3, <3>4 DEF Talks
  <2>2. ASSUME NEW t \in x.start .. x.end - 1, Talks(s, t) PROVE t \in Moments(own)
    <3>1. PICK u \in turns : u.speaker = s /\ u.start <= t /\ t < u.end
      BY <2>2 DEF Talks
    <3>2. u.start \in Nat /\ u.end \in Nat /\ t \in Int /\ x.start <= t /\ t < x.end
      BY DEF Spoken
    <3> DEFINE p == [start |-> Higher(x.start, u.start), end |-> Lower(x.end, u.end),
                     speaker |-> u.speaker]
    <3>3. p.start <= t /\ t < p.end /\ p.start \in Nat /\ p.end \in Nat
      BY <3>1, <3>2, Bounds
    <3>4. p.start < p.end
      BY <3>2, <3>3
    <3>5. p \in Parts(x) /\ p.speaker = s
      BY <3>1, <3>4 DEF Parts
    <3> QED  BY <3>2, <3>3, <3>5 DEF Moments
  <2>3. Moments(own) \subseteq Int
    BY DEF Moments
  <2> QED  BY <2>1, <2>2
<1>3. Total(Parts(x), s) = Times(own)[own]
  BY TotalIsTimes
<1> HIDE DEF own
<1>4. IsFiniteSet(Moments(own)) /\ Times(own)[own] = Cardinality(Moments(own))
  BY <1>1, TimesCounted
<1> QED  BY <1>2, <1>3, <1>4

\* Somebody talks in a segment exactly if a part of a turn is in it.
LEMMA TalkersTalk ==
    ASSUME Spoken, NEW x, x.start \in Nat, x.end \in Nat, NEW s
    PROVE  /\ s \in Talkers(Parts(x)) <=> \E t \in x.start .. x.end - 1 : Talks(s, t)
           /\ s \in Overlapping(Parts(x)) <=>
                 \E r : r # s /\ \E t \in x.start .. x.end - 1 : Talks(s, t) /\ Talks(r, t)
<1> DEFINE part(u) == [start |-> Higher(x.start, u.start), end |-> Lower(x.end, u.end),
                       speaker |-> u.speaker]
<1>1. \A u \in turns : u.start \in Nat /\ u.end \in Nat
  BY DEF Spoken
<1>2. ASSUME NEW p \in Parts(x)
      PROVE  /\ p.start \in Nat /\ p.end \in Nat /\ p.start < p.end
             /\ \A t \in Int : p.start <= t /\ t < p.end =>
                   t \in x.start .. x.end - 1 /\ Talks(p.speaker, t)
  <2>1. PICK u \in turns : p = part(u)
    BY PartsApart
  <2>2. p.start \in Nat /\ p.end \in Nat /\ p.start < p.end
    BY PartsApart
  <2>3. ASSUME NEW t \in Int, p.start <= t, t < p.end
        PROVE  t \in x.start .. x.end - 1 /\ Talks(p.speaker, t)
    <3>1. x.start <= t /\ u.start <= t /\ t < x.end /\ t < u.end
      BY <1>1, <2>1, <2>3, Bounds
    <3> QED  BY <2>1, <3>1 DEF Talks
  <2> QED  BY <2>2, <2>3
<1>3. ASSUME NEW t \in x.start .. x.end - 1, NEW r, Talks(r, t)
      PROVE  \E p \in Parts(x) : p.speaker = r /\ p.start <= t /\ t < p.end
  <2>1. PICK u \in turns : u.speaker = r /\ u.start <= t /\ t < u.end
    BY <1>3 DEF Talks
  <2>2. t \in Int /\ x.start <= t /\ t < x.end
    OBVIOUS
  <2>3. part(u).start <= t /\ t < part(u).end /\ part(u).start \in Nat /\ part(u).end \in Nat
    BY <1>1, <2>1, <2>2, Bounds
  <2>4. part(u) \in Parts(x)
    BY <2>2, <2>3 DEF Parts
  <2> QED  BY <2>1, <2>3, <2>4
<1> HIDE DEF part
<1>4. s \in Talkers(Parts(x)) <=> \E t \in x.start .. x.end - 1 : Talks(s, t)
  <2>1. ASSUME s \in Talkers(Parts(x)) PROVE \E t \in x.start .. x.end - 1 : Talks(s, t)
    <3>1. PICK p \in Parts(x) : p.speaker = s
      BY <2>1 DEF Talkers
    <3>2. p.start \in Int /\ p.start <= p.start /\ p.start < p.end
      BY <1>2
    <3> QED  BY <1>2, <3>1, <3>2
  <2> QED  BY <1>3, <2>1 DEF Talkers
<1>5. ASSUME s \in Overlapping(Parts(x))
      PROVE  \E r : r # s /\ \E t \in x.start .. x.end - 1 : Talks(s, t) /\ Talks(r, t)
  <2>1. PICK p \in Parts(x) : /\ p.speaker = s
                              /\ \E q \in Parts(x) : /\ p.speaker # q.speaker
                                                     /\ Higher(p.start, q.start) < Lower(p.end, q.end)
    BY <1>5 DEF Overlapping
  <2>2. PICK q \in Parts(x) : /\ p.speaker # q.speaker
                              /\ Higher(p.start, q.start) < Lower(p.end, q.end)
    BY <2>1
  <2> DEFINE t == Higher(p.start, q.start)
  <2>3. t \in Int /\ p.start <= t /\ q.start <= t /\ t < p.end /\ t < q.end
    BY <1>2, <2>2 DEF Higher, Lower
  <2> HIDE DEF t
  <2>4. t \in x.start .. x.end - 1 /\ Talks(s, t) /\ Talks(q.speaker, t)
    BY <1>2, <2>1, <2>3
  <2> QED  BY <2>1, <2>2, <2>4
<1>6. ASSUME NEW r, r # s, NEW t \in x.start .. x.end - 1, Talks(s, t), Talks(r, t)
      PROVE  s \in Overlapping(Parts(x))
  <2>1. PICK p \in Parts(x) : p.speaker = s /\ p.start <= t /\ t < p.end
    BY <1>3, <1>6
  <2>2. PICK q \in Parts(x) : q.speaker = r /\ q.start <= t /\ t < q.end
    BY <1>3, <1>6
  <2>3. Higher(p.start, q.start) < Lower(p.end, q.end)
    BY <1>2, <2>1, <2>2 DEF Higher, Lower
  <2> QED  BY <1>6, <2>1, <2>2, <2>3 DEF Overlapping
<1> QED  BY <1>4, <1>5, <1>6

-----------------------------------------------------------------------------
(* Who a segment is said to be by *)

\* What the schema asks of a segment on its own.
Coherent(x) ==
    /\ x.status = "unassigned" <=> x.speaker = None
    /\ Cardinality(x.others) >= 2 <=> x.status = "overlap"
    /\ Cardinality(x.others) # 1

\* What AttributedByVoice says of a segment.
Attributed(x) ==
    LET all  == {u.speaker : u \in turns}
        time == [s \in all |-> Time(s, x)]
    IN  /\ x.speaker = None <=> \A s \in all : time[s] = 0
        /\ x.speaker # None => \A s \in all : time[s] <= time[x.speaker]
        /\ x.others = {s \in all : \E r \in all \ {s} :
                          \E t \in During(x) : Talks(s, t) /\ Talks(r, t)}

\* The piece a segment is made of.
LEMMA PieceTyped ==
    ASSUME Answered(aligned), NEW i \in DOMAIN aligned
    PROVE  aligned[i].start \in Nat /\ aligned[i].end \in Nat /\ aligned[i].text \in Text
<1>1. aligned \in [1..Len(aligned) -> Placed] /\ DOMAIN aligned = 1..Len(aligned)
  BY LenProperties DEF Answered
<1>2. aligned[i] \in Placed
  BY <1>1
<1> QED  BY <1>2 DEF Placed

\* A segment has a speaker, a status and others that agree.
LEMMA SegmentCoherent ==
    ASSUME Spoken, Answered(aligned), NEW i \in DOMAIN aligned
    PROVE  Coherent(Segment(i))
<1> DEFINE parts == Parts(aligned[i])
<1>1. Intervals(parts)
  BY PieceTyped, PartsApart DEF Intervals
<1>2. /\ Segment(i).speaker = Primary(parts)
      /\ Segment(i).status = AssignmentStatus(parts)
      /\ Segment(i).others = Overlapping(parts)
  BY DEF Segment
<1> HIDE DEF parts
<1>3. Primary(parts) = None <=> parts = {}
  <2>1. CASE parts = {}
    BY <2>1 DEF Primary
  <2>2. CASE parts # {}
    <3>1. Primary(parts) \in Nat
      BY <1>1, <2>2, PrimaryAhead DEF Talkers, Intervals
    <3> QED  BY <2>2, <3>1, VoiceAssumption
  <2> QED  BY <2>1, <2>2
<1>4. /\ Cardinality(Overlapping(parts)) # 1
      /\ Cardinality(Overlapping(parts)) >= 2 <=> Overlapping(parts) # {}
      /\ parts = {} => Overlapping(parts) = {}
  BY <1>1, OverlapsPaired
<1>5. /\ AssignmentStatus(parts) = "unassigned" <=> parts = {}
      /\ AssignmentStatus(parts) = "overlap" <=> Overlapping(parts) # {}
  BY <1>4 DEF AssignmentStatus
<1> QED  BY <1>2, <1>3, <1>4, <1>5 DEF Coherent

\* A segment's speaker and others are those the turns say.
LEMMA SegmentAttributed ==
    ASSUME Spoken, Answered(aligned), NEW i \in DOMAIN aligned
    PROVE  Attributed(Segment(i))
<1> DEFINE y      == aligned[i]
           parts  == Parts(y)
           moments == y.start .. y.end - 1
           all    == {u.speaker : u \in turns}
           x      == Segment(i)
           time   == [s \in all |-> Time(s, x)]
<1>1. y.start \in Nat /\ y.end \in Nat
  BY PieceTyped
<1>2. Intervals(parts)
  BY <1>1, PartsApart DEF Intervals
<1>3. x.speaker = Primary(parts) /\ x.others = Overlapping(parts) /\ During(x) = moments
  BY DEF Segment, During
<1>4. ASSUME NEW s \in all
      PROVE  /\ time[s] = Total(parts, s) /\ time[s] \in Nat
             /\ s \in Talkers(parts) <=> time[s] # 0
  <2>1. /\ IsFiniteSet({t \in moments : Talks(s, t)})
        /\ Total(parts, s) = Cardinality({t \in moments : Talks(s, t)})
        /\ s \in Talkers(parts) <=> \E t \in moments : Talks(s, t)
    BY <1>1, TotalIsTime, TalkersTalk
  <2>2. time[s] = Cardinality({t \in moments : Talks(s, t)})
    BY <1>3 DEF Time
  <2>3. /\ Cardinality({t \in moments : Talks(s, t)}) \in Nat
        /\ Cardinality({t \in moments : Talks(s, t)}) = 0 <=> {t \in moments : Talks(s, t)} = {}
    BY <2>1, FS_CardinalityType, FS_EmptySet
  <2> QED  BY <2>1, <2>2, <2>3
<1>5. Talkers(parts) \subseteq all
  BY <1>1, TalkersTalk DEF Talks
<1>6. x.speaker = None <=> \A s \in all : time[s] = 0
  <2> HIDE DEF time, x, all
  <2>1. CASE parts = {}
    BY <1>3, <1>4, <2>1 DEF Primary, Talkers
  <2>2. CASE parts # {}
    <3>1. Primary(parts) \in Talkers(parts)
      BY <1>2, <2>2, PrimaryAhead
    <3>2. Primary(parts) \in Nat
      BY <1>2, <3>1 DEF Talkers, Intervals
    <3>3. Primary(parts) # None
      BY <3>2, VoiceAssumption
    <3> QED  BY <1>3, <1>4, <1>5, <3>1, <3>3
  <2> QED  BY <2>1, <2>2
<1>7. ASSUME x.speaker # None, NEW s \in all
      PROVE  time[s] <= time[x.speaker]
  <2> HIDE DEF time, x, all
  <2>1. parts # {}
    BY <1>3, <1>7 DEF Primary
  <2>2. /\ Primary(parts) \in Talkers(parts)
        /\ \A t \in Talkers(parts) : Total(parts, t) <= Total(parts, Primary(parts))
    BY <1>2, <2>1, PrimaryAhead
  <2>3. CASE s \in Talkers(parts)
    BY <1>3, <1>4, <1>5, <2>2, <2>3
  <2>4. CASE s \notin Talkers(parts)
    BY <1>3, <1>4, <1>5, <2>2, <2>4
  <2> QED  BY <2>3, <2>4
<1>8. x.others = {s \in all : \E r \in all \ {s} :
                     \E t \in During(x) : Talks(s, t) /\ Talks(r, t)}
  <2>1. \A s : s \in Overlapping(parts) <=>
            \E r : r # s /\ \E t \in moments : Talks(s, t) /\ Talks(r, t)
    BY <1>1, TalkersTalk
  <2>2. \A s, t : Talks(s, t) => s \in all
    BY DEF Talks
  <2> HIDE DEF x, all, moments, parts
  <2> QED  BY <1>3, <2>1, <2>2
<1> QED  BY <1>6, <1>7, <1>8 DEF Attributed

-----------------------------------------------------------------------------
(* The stored segments *)

\* The segments that are stored are what the schema asks for.
LEMMA SortedValid ==
    ASSUME Spoken, Answered(aligned)
    PROVE  Valid(Sorted(Worded))
<1> DEFINE n    == Cardinality(Worded)
           segs == Sorted(Worded)
           under(x) == {y \in Worded : Earlier(y, x)}
<1>1. /\ n \in Nat /\ segs \in [1..n -> Worded]
      /\ \A i \in 1..n : Cardinality(under(segs[i])) = i - 1
  BY SortedIn
<1>2. Len(segs) = n /\ DOMAIN segs = 1..n
  <2> HIDE DEF segs, n
  <2> QED  BY <1>1, SeqDef, LenProperties
<1>3. ASSUME NEW x \in Worded
      PROVE  0 <= x.start /\ x.start < x.end /\ x.start \in Nat /\ x.end \in Nat /\ Coherent(x)
  BY WordedOrdered, SegmentCoherent DEF Worded, Measured
<1>4. ASSUME NEW i \in 1..n - 1
      PROVE  \/ segs[i].start < segs[i + 1].start
             \/ segs[i].start = segs[i + 1].start /\ segs[i].end <= segs[i + 1].end
  <2> DEFINE x == segs[i]
             y == segs[i + 1]
  <2> HIDE DEF segs
  <2>1. i \in 1..n /\ i + 1 \in 1..n
    BY <1>1
  <2>2. /\ x \in Worded /\ y \in Worded
        /\ Cardinality(under(x)) = i - 1 /\ Cardinality(under(y)) = i
    BY <1>1, <2>1
  <2>3. ~Earlier(y, x)
    <3> SUFFICES ASSUME Earlier(y, x) PROVE FALSE
      OBVIOUS
    <3>1. under(y) \in SUBSET under(x)
      BY <2>2, WordedOrdered
    <3>2. IsFiniteSet(under(x))
      BY <2>2, WordedOrdered, FS_Subset
    <3>3. Cardinality(under(y)) <= Cardinality(under(x))
      BY <3>1, <3>2, FS_Subset
    <3> QED  BY <2>1, <2>2, <3>3
  <2>4. x # y
    <3> HIDE DEF x, y, under
    <3>1. i - 1 # i
      BY <2>1
    <3> QED  BY <2>2, <3>1
  <2>5. Earlier(x, y)
    BY <2>2, <2>3, <2>4, WordedOrdered
  <2> QED  BY <1>3, <2>2, <2>5 DEF Earlier
<1> HIDE DEF segs, n
<1>5. Valid(segs)
  BY <1>1, <1>2, <1>3, <1>4 DEF Valid, Coherent
<1> QED  BY <1>5 DEF segs

\* What the stored segments are made of; nothing is stored yet before.
Attribution ==
    /\ Spoken
    /\ stage # "SCHEMA_REFUSED"
    /\ stage \in {"transcribe", "align", "diarize", "store"} => transcript = <<>>
    /\ \A i \in DOMAIN transcript : transcript[i] \in Worded

\* Nothing has been said.
LEMMA AttributionInit == SpeechInit => Attribution
<1> SUFFICES ASSUME SpeechInit PROVE Attribution
  OBVIOUS
<1>1. IsFiniteSet({}) /\ DOMAIN <<>> = {}
  BY FS_EmptySet
<1> QED  BY <1>1 DEF SpeechInit, Attribution, Spoken

\* Every step keeps it.
LEMMA AttributionNext ==
    ASSUME SpeechInv, Attribution, [SpeechNext]_speechVars
    PROVE  Attribution'
<1>1. CASE UNCHANGED <<aligned, turns, transcript>> /\ stage' # "SCHEMA_REFUSED"
           /\ (stage' \in {"transcribe", "align", "diarize", "store"} =>
                  stage \in {"transcribe", "align", "diarize", "store"})
  <2>1. Worded' = Worded
    BY <1>1 DEF Worded, Segment, Parts
  <2> QED  BY <1>1, <2>1 DEF Attribution, Spoken
<1>2. CASE UNCHANGED speechVars
  <2>1. UNCHANGED <<stage, aligned, turns, transcript>>
    BY <1>2 DEF speechVars
  <2> QED  BY <1>1, <2>1 DEF Attribution
<1>3. ASSUME NEW answer \in HeardAnswers, Transcribe(answer)
      PROVE  Attribution'
  BY <1>1, <1>3 DEF Transcribe
<1>4. ASSUME NEW answer \in AlignedAnswers, Align(answer)
      PROVE  Attribution'
  <2>1. UNCHANGED <<turns, transcript>> /\ stage = "align"
        /\ stage' \in {"diarize", "INVALID_RESPONSE"}
    BY <1>4 DEF Align
  <2>2. transcript = <<>> /\ DOMAIN transcript = {}
    BY <2>1 DEF Attribution
  <2> QED  BY <2>1, <2>2 DEF Attribution, Spoken
<1>5. ASSUME NEW answer \in TurnAnswers, Diarize(answer)
      PROVE  Attribution'
  <2>1. UNCHANGED transcript /\ stage = "diarize"
        /\ stage' \in {"store", "INVALID_RESPONSE"}
    BY <1>5 DEF Diarize
  <2>2. transcript = <<>> /\ DOMAIN transcript = {}
    BY <2>1 DEF Attribution
  <2>3. Spoken'
    BY <1>5, DiarizeSpoken DEF Attribution
  <2> QED  BY <2>1, <2>2, <2>3 DEF Attribution
<1>6. CASE Store
  <2>1. UNCHANGED <<aligned, turns>> /\ Worded' = Worded /\ Spoken'
    BY <1>6 DEF Store, Worded, Segment, Parts, Attribution, Spoken
  <2>2. Valid(Sorted(Worded))
    BY SortedValid DEF Attribution, SpeechInv
  <2>3. \/ stage' = "select" /\ transcript' = Sorted(Worded)
        \/ stage' = "INVALID_SPEECH_RESULT" /\ transcript' = transcript
    BY <1>6, <2>2 DEF Store
  <2>4. \A i \in DOMAIN Sorted(Worded) : Sorted(Worded)[i] \in Worded
    BY SortedIn DEF SpeechInv
  <2> QED  BY <2>1, <2>3, <2>4 DEF Attribution
<1>7. CASE Select
  BY <1>1, <1>7 DEF Select, Attribution
<1>8. CASE SelectEnds
  BY <1>1, <1>8 DEF SelectEnds
<1>9. ASSUME NEW s, NEW cut, Cut(s, cut)
      PROVE  Attribution'
  BY <1>1, <1>9 DEF Cut, Attribution
<1>10. ASSUME NEW s, CutFails(s)
       PROVE  Attribution'
  BY <1>1, <1>10 DEF CutFails
<1>11. CASE Register
  BY <1>1, <1>11 DEF Register
<1> QED
  BY <1>2, <1>3, <1>4, <1>5, <1>6, <1>7, <1>8, <1>9, <1>10, <1>11 DEF SpeechNext

-----------------------------------------------------------------------------
(* The evidence of facts and results *)

Call == [kind : {"none", "classify", "summarize"},
         pc : {"idle", "extract", "final", "waiting", "succeeded", "failed"},
         try : Int, attempt : Int, requests : Int]

CallTyped == call \in Call /\ (call.kind = "none" => call.pc = "idle")

EvidenceInv == /\ CallTyped
               /\ facts \in Seq(Citations)
               /\ call.pc = "idle" => result = {}
               /\ EvidenceHolds

\* Nothing was asked.
LEMMA EvidenceInitOk == ProviderInit => EvidenceInv
<1> SUFFICES ASSUME ProviderInit PROVE EvidenceInv
  OBVIOUS
<1>1. <<>> \in Seq(Citations) /\ DOMAIN <<>> = {}
  BY EmptySeq
<1> QED
  BY <1>1 DEF ProviderInit, EvidenceInv, CallTyped, Call, EvidenceHolds

\* An attempt begins without facts.
LEMMA BeginOk ==
    ASSUME NEW kind \in {"classify", "summarize"}, NEW attempt \in Int, NEW requests \in Int,
           Begin(kind, attempt, requests), result \subseteq Ids(Whole(material'))
    PROVE  EvidenceInv'
<1>1. facts' = <<>> /\ result' = result
      /\ call' = [kind |-> kind, pc |-> IF chunks' = <<>> THEN "final" ELSE "extract", try |-> 1,
                  attempt |-> attempt, requests |-> requests]
  BY DEF Begin
<1>2. <<>> \in Seq(Citations') /\ DOMAIN <<>> = {} /\ Len(<<>>) = 0
  BY EmptySeq
<1>3. CallTyped' /\ call'.pc # "idle" /\ (call'.pc = "final" => chunks' = <<>>)
      /\ call'.pc # "succeeded"
  BY <1>1 DEF CallTyped, Call
<1>4. result' \subseteq Ids(Whole(material))'
  BY <1>1 DEF Ids, Whole
<1> QED
  BY <1>1, <1>2, <1>3, <1>4 DEF EvidenceInv, EvidenceHolds

\* A job asks for the first time.
LEMMA AskOk ==
    ASSUME EvidenceInv, NEW kind \in {"classify", "summarize"}, NEW segs, Ask(kind, segs)
    PROVE  EvidenceInv'
<1>1. result = {} /\ Begin(kind, 1, 0)
  BY DEF EvidenceInv, Ask
<1> QED  BY <1>1, BeginOk

\* The next attempt keeps nothing of the earlier one.
LEMMA AgainOk ==
    ASSUME EvidenceInv, Again
    PROVE  EvidenceInv'
<1>1. /\ material' = material
      /\ Begin(call.kind, call.attempt + 1, call.requests)
      /\ result \subseteq Ids(Whole(material))
  BY DEF EvidenceInv, EvidenceHolds, Again
<1>2. call.kind \in {"classify", "summarize"} /\ call.attempt + 1 \in Int /\ call.requests \in Int
  BY DEF EvidenceInv, CallTyped, Call, Again
<1> QED  BY <1>1, <1>2, BeginOk

\* The fields of a call.
LEMMA CallFields ==
    ASSUME NEW c \in Call
    PROVE  /\ c.kind \in {"none", "classify", "summarize"}
           /\ c.try \in Int /\ c.attempt \in Int /\ c.requests + 1 \in Int
  BY DEF Call

\* A request is counted, whatever it brings.
LEMMA CallCounted ==
    ASSUME CallTyped, call.pc # "idle", NEW pc \in {"extract", "final", "waiting", "succeeded", "failed"},
           \/ call' = [call EXCEPT !.requests = @ + 1, !.pc = pc]
           \/ \E try \in Int : call' = [call EXCEPT !.requests = @ + 1, !.try = try, !.pc = pc]
    PROVE  CallTyped' /\ call'.pc = pc /\ call'.kind = call.kind
<1>1. call \in Call /\ call.kind # "none"
  BY DEF CallTyped
<1>2. \E try \in Int :
          call' = [kind |-> call.kind, pc |-> pc, try |-> try, attempt |-> call.attempt,
                   requests |-> call.requests + 1]
  <2>1. CASE call' = [call EXCEPT !.requests = @ + 1, !.pc = pc]
    <3>1. call.try \in Int
      BY ONLY <1>1, CallFields
    <3>2. call' = [kind |-> call.kind, pc |-> pc, try |-> call.try, attempt |-> call.attempt,
                   requests |-> call.requests + 1]
      BY <1>1, <2>1 DEF Call
    <3> QED  BY <3>1, <3>2
  <2>2. ASSUME NEW try \in Int, call' = [call EXCEPT !.requests = @ + 1, !.try = try, !.pc = pc]
        PROVE  call' = [kind |-> call.kind, pc |-> pc, try |-> try, attempt |-> call.attempt,
                        requests |-> call.requests + 1]
    BY <1>1, <2>2 DEF Call
  <2> QED  BY <2>1, <2>2
<1>3. PICK try \in Int :
          call' = [kind |-> call.kind, pc |-> pc, try |-> try, attempt |-> call.attempt,
                   requests |-> call.requests + 1]
  BY <1>2
<1>4. call'.kind = call.kind /\ call'.pc = pc /\ call' \in Call
  <2>1. /\ call.kind \in {"none", "classify", "summarize"}
        /\ call.attempt \in Int /\ call.requests + 1 \in Int
    BY ONLY <1>1, CallFields
  <2>2. pc \in {"idle", "extract", "final", "waiting", "succeeded", "failed"}
    OBVIOUS
  <2>3. call'.kind = call.kind /\ call'.pc = pc
    BY <1>3
  <2>4. call' \in Call
    BY ONLY <1>3, <2>1, <2>2 DEF Call
  <2> QED  BY <2>3, <2>4
<1> QED  BY <1>1, <1>4 DEF CallTyped

\* A request that brings nothing.
LEMMA FruitlessOk ==
    ASSUME EvidenceInv, UNCHANGED <<material, chunks, facts, result>>, CallTyped',
           call'.kind = call.kind,
           call'.pc \in {call.pc, "waiting", "failed"}, call.pc # "idle", call'.pc # "idle"
    PROVE  EvidenceInv'
<1>1. Citations' = Citations /\ Ids(Whole(material))' = Ids(Whole(material))
      /\ \A i \in DOMAIN facts : Ids(chunks[i])' = Ids(chunks[i])
  BY DEF Citations, Ids, Whole
<1> QED  BY <1>1 DEF EvidenceInv, EvidenceHolds

\* The facts of a chunk cite that chunk.
LEMMA FactsOk ==
    ASSUME EvidenceInv, NEW cites \in Citations, Facts(cites)
    PROVE  EvidenceInv'
<1>1. /\ call.pc = "extract" /\ facts' = Append(facts, cites)
      /\ UNCHANGED <<material, chunks, result>>
      /\ call'.kind = call.kind /\ call'.pc \in {"final", "extract"}
      /\ call'.pc = "final" => Len(facts) + 1 = Len(chunks)
      /\ CallTyped'
  <2> DEFINE pc == IF Len(facts) + 1 = Len(chunks) THEN "final" ELSE "extract"
  <2>1. /\ call.pc = "extract" /\ facts' = Append(facts, cites)
        /\ UNCHANGED <<material, chunks, result>>
        /\ call' = [call EXCEPT !.requests = @ + 1, !.try = 1, !.pc = pc]
    BY DEF Facts
  <2>2. pc \in {"extract", "final"} /\ (pc = "final" => Len(facts) + 1 = Len(chunks))
    OBVIOUS
  <2> HIDE DEF pc
  <2>3. \E try \in Int : call' = [call EXCEPT !.requests = @ + 1, !.try = try, !.pc = pc]
    <3> WITNESS 1 \in Int
    <3> QED  BY <2>1
  <2>4. CallTyped' /\ call'.pc = pc /\ call'.kind = call.kind
    <3>1. CallTyped /\ call.pc # "idle" /\ pc \in {"extract", "final", "waiting", "succeeded", "failed"}
      BY <2>1, <2>2 DEF EvidenceInv
    <3> QED  BY <2>3, <3>1, CallCounted
  <2> QED  BY <2>1, <2>2, <2>4
<1>2. /\ facts' \in Seq(Citations)
      /\ Len(facts) \in Nat /\ DOMAIN facts = 1..Len(facts)
      /\ Len(facts') = Len(facts) + 1 /\ DOMAIN facts' = 1..(Len(facts) + 1)
      /\ \A i \in 1..Len(facts) : facts'[i] = facts[i]
      /\ facts'[Len(facts) + 1] = cites
  BY <1>1, AppendProperties, LenProperties DEF EvidenceInv
<1>3. /\ call.kind = "summarize" => cites # {}
      /\ cites \subseteq Ids(chunks[Len(facts) + 1])
  BY DEF Facts, HoldsForChunk, Current
<1>4. \A i \in DOMAIN facts' : /\ call.kind = "summarize" => facts'[i] # {}
                               /\ facts'[i] \subseteq Ids(chunks[i])
  <2> SUFFICES ASSUME NEW i \in DOMAIN facts'
               PROVE  /\ call.kind = "summarize" => facts'[i] # {}
                      /\ facts'[i] \subseteq Ids(chunks[i])
    OBVIOUS
  <2>1. CASE i \in 1..Len(facts)
    BY <1>2, <2>1 DEF EvidenceInv, EvidenceHolds
  <2>2. CASE i = Len(facts) + 1
    BY <1>2, <1>3, <2>2
  <2> QED  BY <1>2, <2>1, <2>2
<1>5. Citations' = Citations /\ Ids(Whole(material))' = Ids(Whole(material))
      /\ \A i : Ids(chunks[i])' = Ids(chunks[i])
  BY <1>1 DEF Citations, Ids, Whole
<1>6. call'.pc \in {"final", "succeeded"} => Len(facts') = Len(chunks')
  BY <1>1, <1>2
<1> QED
  BY <1>1, <1>2, <1>4, <1>5, <1>6 DEF EvidenceInv, EvidenceHolds

\* The result cites the transcript.
LEMMA ResultOk ==
    ASSUME EvidenceInv, NEW cites \in Citations, Result(cites)
    PROVE  EvidenceInv'
<1>1. /\ call.pc = "final" /\ result' = cites
      /\ UNCHANGED <<material, chunks, facts>>
      /\ call'.kind = call.kind /\ call'.pc = "succeeded" /\ CallTyped'
  <2>1. /\ call.pc = "final" /\ result' = cites
        /\ UNCHANGED <<material, chunks, facts>>
        /\ call' = [call EXCEPT !.requests = @ + 1, !.pc = "succeeded"]
    BY DEF Result
  <2>2. CallTyped' /\ call'.pc = "succeeded" /\ call'.kind = call.kind
    BY <2>1, CallCounted DEF EvidenceInv
  <2> QED  BY <2>1, <2>2
<1>2. cites \subseteq Ids(Whole(material))
  BY DEF Result, HoldsForResult
<1>3. Citations' = Citations /\ Ids(Whole(material))' = Ids(Whole(material))
      /\ \A i : Ids(chunks[i])' = Ids(chunks[i])
  BY <1>1 DEF Citations, Ids, Whole
<1> QED
  BY <1>1, <1>2, <1>3 DEF EvidenceInv, EvidenceHolds

\* Every step keeps the invariant of the evidence.
LEMMA ProviderNextOk == ASSUME EvidenceInv, [ProviderNext]_providerVars PROVE EvidenceInv'
<1>1. CASE UNCHANGED providerVars
  <2>1. UNCHANGED <<material, chunks, call, facts, result>>
    BY <1>1 DEF providerVars
  <2>2. CallTyped'
    BY <2>1 DEF EvidenceInv, CallTyped
  <2>3. Citations' = Citations /\ Ids(Whole(material))' = Ids(Whole(material))
        /\ \A i : Ids(chunks[i])' = Ids(chunks[i])
    BY <2>1 DEF Citations, Ids, Whole
  <2> QED  BY <2>1, <2>2, <2>3 DEF EvidenceInv, EvidenceHolds
<1>2. CASE Unavailable \/ Refused \/ Wrong
  <2>1. UNCHANGED <<material, chunks, facts, result>> /\ call.pc \in {"extract", "final"}
    BY <1>2 DEF Unavailable, Refused, Wrong, Asking
  <2>2. CallTyped /\ call \in Call
    BY DEF EvidenceInv, CallTyped
  <2>3. \E pc \in {call.pc, "waiting", "failed"} :
            \/ call' = [call EXCEPT !.requests = @ + 1, !.pc = pc]
            \/ \E try \in Int : call' = [call EXCEPT !.requests = @ + 1, !.try = try, !.pc = pc]
    <3>1. CASE Unavailable
      BY <3>1 DEF Unavailable
    <3>2. CASE Refused
      BY <3>2 DEF Refused
    <3>3. CASE Wrong
      <4>1. call.try + 1 \in Int
        BY <2>2 DEF Call
      <4>2. call' = [call EXCEPT !.requests = @ + 1, !.try = call.try + 1,
                                 !.pc = IF call.try < 2 THEN call.pc ELSE "failed"]
        BY <3>3, <2>2 DEF Wrong, Corrected, Call
      <4> QED  BY <4>1, <4>2
    <3> QED  BY <1>2, <3>1, <3>2, <3>3
  <2>4. PICK pc \in {call.pc, "waiting", "failed"} :
            \/ call' = [call EXCEPT !.requests = @ + 1, !.pc = pc]
            \/ \E try \in Int : call' = [call EXCEPT !.requests = @ + 1, !.try = try, !.pc = pc]
    BY <2>3
  <2>5. CallTyped' /\ call'.pc = pc /\ call'.kind = call.kind
    BY <2>1, <2>2, <2>4, CallCounted
  <2> QED  BY <2>1, <2>5, FruitlessOk
<1> QED  BY <1>1, <1>2, AgainOk, FactsOk, ResultOk DEF ProviderNext

-----------------------------------------------------------------------------
(* Sizes *)

Slice == [id : Nat, from : Nat, to : Nat]

\* Size, as a recursion over the places that are left.
Sizes(s) ==
    CHOOSE f : f = [d \in SUBSET DOMAIN s |->
        IF d = {} THEN 0 ELSE LET x == Max(d) IN f[d \ {x}] + s[x].to - s[x].from]

\* It adds slice by slice.
LEMMA SizesDefined ==
    ASSUME NEW s \in Seq(Slice)
    PROVE  /\ Sizes(s)[{}] = 0
           /\ \A k \in 1..Len(s) : Sizes(s)[1..k] = Sizes(s)[1..(k - 1)] + s[k].to - s[k].from
<1> DEFINE n == Len(s)
           T == 1..n
           pick == [d \in (SUBSET T) \ {{}} |-> Max(d)]
           rule == [x \in T |-> [v \in Int |-> v + s[x].to - s[x].from]]
<1>1. n \in Nat /\ DOMAIN s = T /\ IsFiniteSet(T)
      /\ \A x \in T : s[x].to \in Nat /\ s[x].from \in Nat
  <2>1. n \in Nat /\ DOMAIN s = T /\ \A x \in T : s[x] \in Slice
    BY LenProperties, ElementOfSeq
  <2>2. IsFiniteSet(T)
    BY <2>1, FS_Interval
  <2>3. \A x \in T : s[x].to \in Nat /\ s[x].from \in Nat
    <3> HIDE DEF T
    <3> QED  BY <2>1 DEF Slice
  <2> QED  BY <2>1, <2>2, <2>3
<1>2. \A d \in SUBSET T : d # {} => pick[d] \in d /\ pick[d] = Max(d)
  BY <1>1, Greatest
<1>3. \A x \in T, v \in Int : rule[x][v] = v + s[x].to - s[x].from
  OBVIOUS
<1>4. PICK fold : Folds(T, 0, pick, rule, fold)
  <2>1. rule \in [T -> [Int -> Int]] /\ 0 \in Int
    BY <1>1
  <2>2. Picks(T, pick)
    BY <1>2 DEF Picks
  <2> HIDE DEF pick, rule, T
  <2> QED  BY <1>1, <2>1, <2>2, FoldExists
<1>5. fold = [d \in SUBSET T |->
                 IF d = {} THEN 0 ELSE LET x == Max(d) IN fold[d \ {x}] + s[x].to - s[x].from]
  <2> HIDE DEF pick, rule, T
  <2>1. ASSUME NEW d \in SUBSET T
        PROVE  fold[d] = IF d = {} THEN 0
                         ELSE LET x == Max(d) IN fold[d \ {x}] + s[x].to - s[x].from
    <3>1. CASE d = {}
      BY <1>4, <3>1 DEF Folds
    <3>2. CASE d # {}
      <4>1. pick[d] \in T /\ fold[d \ {pick[d]}] \in Int
        BY <1>2, <1>4, <3>2 DEF Folds
      <4> QED  BY <1>2, <1>3, <1>4, <3>2, <4>1 DEF Folds
    <3> QED  BY <3>1, <3>2
  <2>2. fold = [d \in SUBSET T |-> fold[d]]
    BY <1>4 DEF Folds
  <2> QED  BY <2>1, <2>2
<1> DEFINE sum == Sizes(s)
<1>6. sum = [d \in SUBSET T |->
                IF d = {} THEN 0 ELSE LET x == Max(d) IN sum[d \ {x}] + s[x].to - s[x].from]
  BY <1>1, <1>5 DEF Sizes
<1>7. ASSUME NEW k \in T
      PROVE  sum[1..k] = sum[1..(k - 1)] + s[k].to - s[k].from
  <2> DEFINE d == 1..k
  <2>1. d \in SUBSET T /\ d # {} /\ k \in d /\ d \in SUBSET (1..k) /\ k \in Nat
    BY <1>1
  <2>2. Max(d) = k
    <3>1. Max(d) \in d /\ k <= Max(d)
      <4> HIDE DEF d
      <4> QED  BY <2>1, Greatest
    <3> QED  BY <2>1, <3>1
  <2>3. d \ {k} = 1..(k - 1)
    BY <2>1
  <2>4. sum[d] = sum[d \ {k}] + s[k].to - s[k].from
    <3> HIDE DEF d, sum, T
    <3> QED  BY <1>6, <2>1, <2>2
  <2> HIDE DEF sum
  <2> QED  BY <2>3, <2>4
<1>8. sum[{}] = 0
  BY <1>6
<1> QED  BY <1>7, <1>8

\* g[k] is the size of the first k slices.
Adds(s, g) == g[0] = 0 /\ \A k \in 1..Len(s) : g[k] = g[k - 1] + s[k].to - s[k].from

\* There are such sums, ...
LEMMA AddsExist ==
    ASSUME NEW s \in Seq(Slice)
    PROVE  \E g \in [0..Len(s) -> Int] : Adds(s, g)
<1> DEFINE n    == Len(s)
           rule == [k \in 1..n |-> [v \in Int |-> v + s[k].to - s[k].from]]
<1>1. n \in Nat /\ \A k \in 1..n : s[k].to \in Nat /\ s[k].from \in Nat
  <2>1. n \in Nat /\ \A k \in 1..n : s[k] \in Slice
    BY LenProperties, ElementOfSeq
  <2> QED  BY <2>1 DEF Slice
<1>2. rule \in [1..n -> [Int -> Int]]
  BY <1>1
<1>3. \A k \in 1..n, v \in Int : rule[k][v] = v + s[k].to - s[k].from
  OBVIOUS
<1> HIDE DEF rule, n
<1>4. PICK g \in [0..n -> Int] : Recurs(n, 0, rule, g)
  <2> DEFINE X == Int
  <2>1. 0 \in X /\ n \in Nat /\ rule \in [1..n -> [X -> X]]
    BY <1>1, <1>2
  <2> HIDE DEF X
  <2>2. \E g \in [0..n -> X] : Recurs(n, 0, rule, g)
    BY <2>1, Recursion
  <2> QED  BY <2>2 DEF X
<1>5. \A k \in 1..n : g[k - 1] \in Int
  BY <1>1
<1>6. Adds(s, g)
  BY <1>3, <1>4, <1>5 DEF Recurs, Adds, n
<1> QED  BY <1>6 DEF n

\* ... and all end with the size.
LEMMA SizeIs ==
    ASSUME NEW s \in Seq(Slice), NEW g \in [0..Len(s) -> Int], Adds(s, g)
    PROVE  Size(s) = g[Len(s)]
<1> DEFINE n   == Len(s)
           sum == Sizes(s)
           Q   == {k \in Nat : k \in 0..n => sum[1..k] = g[k]}
<1>1. n \in Nat /\ DOMAIN s = 1..n
  BY LenProperties
<1>2. Size(s) = sum[1..n]
  BY <1>1 DEF Size, FoldLeft, MapThenFoldSet, Sizes
<1>3. 0 \in Q
  <2>1. 1..0 = {} /\ sum[{}] = 0
    BY SizesDefined
  <2> HIDE DEF sum
  <2> QED  BY <2>1 DEF Adds
<1>4. ASSUME NEW k \in Q PROVE k + 1 \in Q
  <2> SUFFICES ASSUME k + 1 \in 0..n PROVE sum[1..(k + 1)] = g[k + 1]
    OBVIOUS
  <2> DEFINE j == k + 1
  <2>1. j \in 1..n /\ j - 1 = k /\ sum[1..k] = g[k]
    BY <1>1
  <2> HIDE DEF j, Q
  <2>2. sum[1..j] = sum[1..(j - 1)] + s[j].to - s[j].from
    BY <2>1, SizesDefined
  <2>3. g[j] = g[j - 1] + s[j].to - s[j].from
    BY <2>1 DEF Adds
  <2> HIDE DEF sum
  <2>4. sum[1..j] = g[j]
    BY <2>1, <2>2, <2>3
  <2> QED  BY <2>4 DEF j
<1>5. Q = Nat
  <2>1. Q \in SUBSET Nat
    OBVIOUS
  <2> HIDE DEF Q
  <2> QED  BY <1>3, <1>4, <2>1, Induction
<1>6. n \in Q /\ n \in 0..n
  <2> HIDE DEF Q
  <2> QED  BY <1>1, <1>5
<1> HIDE DEF sum
<1> QED  BY <1>2, <1>6

\* A slice adds its length.
LEMMA SizeAppend ==
    ASSUME NEW s \in Seq(Slice), NEW x \in Slice
    PROVE  /\ Size(<<>>) = 0
           /\ Size(s) \in Int
           /\ Size(Append(s, x)) = Size(s) + x.to - x.from
<1> DEFINE n == Len(s)
           t == Append(s, x)
<1>1. /\ n \in Nat /\ t \in Seq(Slice) /\ Len(t) = n + 1
      /\ \A i \in 1..n : t[i] = s[i]
      /\ t[n + 1] = x
  BY LenProperties, AppendProperties
<1> HIDE DEF t
<1>2. PICK g \in [0..Len(t) -> Int] : Adds(t, g)
  BY <1>1, AddsExist
<1> DEFINE h == [k \in 0..n |-> g[k]]
<1>3. h \in [0..n -> Int] /\ Adds(s, h)
  <2>1. \A k \in 0..n : k \in 0..Len(t)
    BY <1>1
  <2>2. \A k \in 1..n : k \in 1..Len(t) /\ k - 1 \in 0..n
    BY <1>1
  <2>3. h[0] = 0
    BY <1>1, <1>2 DEF Adds
  <2>4. ASSUME NEW k \in 1..n PROVE h[k] = h[k - 1] + s[k].to - s[k].from
    <3>1. h[k] = g[k] /\ h[k - 1] = g[k - 1] /\ t[k] = s[k]
      BY <1>1, <2>2
    <3>2. g[k] = g[k - 1] + t[k].to - t[k].from
      BY <1>2, <2>2 DEF Adds
    <3> HIDE DEF h
    <3> QED  BY <3>1, <3>2
  <2>5. h \in [0..n -> Int]
    BY <2>1
  <2> HIDE DEF h
  <2> QED  BY <2>3, <2>4, <2>5 DEF Adds
<1>4. Size(t) = g[n + 1]
  BY <1>1, <1>2, SizeIs
<1>5. Size(s) = g[n] /\ g[n] \in Int
  <2>1. Size(s) = h[n]
    <3> HIDE DEF h
    <3> QED  BY <1>3, SizeIs
  <2> QED  BY <1>1, <2>1
<1>6. g[n + 1] = g[n] + x.to - x.from
  <2> DEFINE j == n + 1
  <2>1. j \in 1..Len(t) /\ j - 1 = n /\ t[j] = x
    BY <1>1
  <2> HIDE DEF j
  <2>2. g[j] = g[j - 1] + t[j].to - t[j].from
    BY <1>2, <2>1 DEF Adds
  <2> QED  BY <2>1, <2>2 DEF j
<1>7. Size(<<>>) = 0
  <2> DEFINE e == [k \in 0..0 |-> 0]
  <2>1. <<>> \in Seq(Slice) /\ Len(<<>>) = 0
    BY EmptySeq
  <2>2. e \in [0..Len(<<>>) -> Int] /\ Adds(<<>>, e)
    BY <2>1 DEF Adds
  <2> HIDE DEF e
  <2>3. Size(<<>>) = e[0]
    BY <2>1, <2>2, SizeIs
  <2> QED  BY <2>3 DEF e
<1> QED  BY <1>4, <1>5, <1>6, <1>7 DEF t

-----------------------------------------------------------------------------
(* Characters *)

\* A slice that is not turned around.
Stretch == {x \in Slice : x.from <= x.to}

Letter == Nat \X Nat

LettersOf(x) == [k \in 1..(x.to - x.from) |-> <<x.id, x.from + k>>]

\* A slice has as many characters as its size.
LEMMA LettersTyped ==
    ASSUME NEW x \in Stretch
    PROVE  LettersOf(x) \in Seq(Letter) /\ Len(LettersOf(x)) = x.to - x.from
<1> DEFINE n == x.to - x.from
<1>1. n \in Nat /\ x.id \in Nat /\ x.from \in Nat
  BY DEF Stretch, Slice
<1>2. ASSUME NEW k \in 1..n PROVE <<x.id, x.from + k>> \in Letter
  BY <1>1 DEF Letter
<1>3. LettersOf(x) \in [1..n -> Letter]
  BY <1>2 DEF LettersOf
<1> HIDE DEF n
<1>4. LettersOf(x) \in Seq(Letter)
  BY <1>1, <1>3, SeqDef
<1>5. Len(LettersOf(x)) = n
  BY <1>1, <1>3, <1>4, LenProperties
<1> QED  BY <1>4, <1>5 DEF n

Spelled(s) == [i \in DOMAIN s |-> LettersOf(s[i])]

\* The characters of one slice more.
LEMMA SpelledAppend ==
    ASSUME NEW s \in Seq(Stretch), NEW x \in Stretch
    PROVE  /\ Spelled(s) \in Seq(Seq(Letter))
           /\ Spelled(Append(s, x)) = Append(Spelled(s), LettersOf(x))
<1> DEFINE n == Len(s)
           t == Append(s, x)
<1>1. /\ n \in Nat /\ t \in Seq(Stretch) /\ Len(t) = n + 1 /\ DOMAIN t = 1..(n + 1)
      /\ \A i \in 1..n : t[i] = s[i] /\ s[i] \in Stretch
      /\ t[n + 1] = x /\ DOMAIN s = 1..n
  BY LenProperties, AppendProperties, ElementOfSeq
<1> HIDE DEF t, n
<1>2. ASSUME NEW u \in Seq(Stretch), NEW m \in Nat, DOMAIN u = 1..m
      PROVE  Spelled(u) \in Seq(Seq(Letter)) /\ Len(Spelled(u)) = m
  <2>1. ASSUME NEW i \in 1..m PROVE LettersOf(u[i]) \in Seq(Letter)
    <3>1. u[i] \in Stretch
      BY <1>2, LenProperties, ElementOfSeq
    <3> QED  BY <3>1, LettersTyped
  <2>2. Spelled(u) \in [1..m -> Seq(Letter)]
    BY <1>2, <2>1 DEF Spelled
  <2>3. Spelled(u) \in Seq(Seq(Letter))
    BY <2>2, SeqDef
  <2> QED  BY <2>2, <2>3, LenProperties
<1>3. Spelled(s) \in Seq(Seq(Letter)) /\ Len(Spelled(s)) = n
  BY <1>1, <1>2
<1>4. Spelled(t) \in Seq(Seq(Letter)) /\ Len(Spelled(t)) = n + 1
  <2>1. n + 1 \in Nat
    BY <1>1
  <2> QED  BY <1>1, <1>2, <2>1
<1> DEFINE r == Append(Spelled(s), LettersOf(x))
<1>5. /\ r \in Seq(Seq(Letter)) /\ Len(r) = n + 1
      /\ \A i \in 1..n : r[i] = Spelled(s)[i]
      /\ r[n + 1] = LettersOf(x)
  <2>1. LettersOf(x) \in Seq(Letter)
    BY LettersTyped
  <2> QED  BY <1>3, <2>1, AppendProperties
<1> HIDE DEF r
<1>6. ASSUME NEW i \in 1..(n + 1) PROVE Spelled(t)[i] = r[i]
  <2>1. CASE i = n + 1
    BY <1>1, <1>5, <2>1 DEF Spelled
  <2>2. CASE i # n + 1
    <3>1. i \in 1..n
      BY <1>1, <2>2
    <3> QED  BY <1>1, <1>5, <3>1 DEF Spelled
  <2> QED  BY <2>1, <2>2
<1>7. Spelled(t) = r
  BY <1>4, <1>5, <1>6, SeqEqual
<1> QED  BY <1>3, <1>7 DEF t, r

\* The characters of slices, one after the other.
LEMMA CharactersAppend ==
    ASSUME NEW s \in Seq(Stretch), NEW x \in Stretch
    PROVE  /\ CharactersOf(<<>>) = <<>>
           /\ CharactersOf(s) \in Seq(Letter)
           /\ CharactersOf(Append(s, x)) = CharactersOf(s) \o LettersOf(x)
<1>1. \A t : CharactersOf(t) = FlattenSeq(Spelled(t))
  BY DEF CharactersOf, Spelled, LettersOf
<1>2. LettersOf(x) \in Seq(Letter)
  BY LettersTyped
<1>3. /\ FlattenSeq(<<>>) = <<>>
      /\ FlattenSeq(Spelled(s)) \in Seq(Letter)
      /\ FlattenSeq(Append(Spelled(s), LettersOf(x))) = FlattenSeq(Spelled(s)) \o LettersOf(x)
  BY <1>2, SpelledAppend, FlattenAppend
<1>4. Spelled(<<>>) = <<>>
  BY DEF Spelled
<1> QED  BY <1>1, <1>3, <1>4, SpelledAppend

\* There are as many of them as the size says.
LEMMA CharactersCounted ==
    ASSUME NEW s \in Seq(Stretch)
    PROVE  Len(CharactersOf(s)) = Size(s)
<1> DEFINE G == {t \in Seq(Stretch) : Len(CharactersOf(t)) = Size(t)}
<1>1. \A t \in Seq(Stretch) : t \in Seq(Slice)
  <2>1. Stretch \subseteq Slice
    BY DEF Stretch
  <2> QED  BY <2>1, SeqMonotonic
<1>2. <<>> \in G
  <2>1. PICK x : x \in Stretch
    <3>1. [id |-> 0, from |-> 0, to |-> 0] \in Stretch
      BY DEF Stretch, Slice
    <3> QED  BY <3>1
  <2>2. <<>> \in Seq(Stretch) /\ Len(<<>>) = 0 /\ x \in Slice
    BY <2>1, EmptySeq DEF Stretch
  <2>3. CharactersOf(<<>>) = <<>> /\ Size(<<>>) = 0
    BY <1>1, <2>1, <2>2, CharactersAppend, SizeAppend
  <2> QED  BY <2>2, <2>3
<1>3. ASSUME NEW t \in Seq(Stretch), NEW x \in Stretch, t \in G PROVE Append(t, x) \in G
  <2>1. Append(t, x) \in Seq(Stretch)
    BY AppendProperties
  <2>2. CharactersOf(Append(t, x)) = CharactersOf(t) \o LettersOf(x) /\ CharactersOf(t) \in Seq(Letter)
    BY CharactersAppend
  <2>3. Size(Append(t, x)) = Size(t) + x.to - x.from /\ Size(t) \in Int
    <3>1. t \in Seq(Slice) /\ x \in Slice
      BY <1>1 DEF Stretch
    <3> QED  BY <3>1, SizeAppend
  <2>4. LettersOf(x) \in Seq(Letter) /\ Len(LettersOf(x)) = x.to - x.from
    BY LettersTyped
  <2>5. Len(CharactersOf(Append(t, x))) = Len(CharactersOf(t)) + Len(LettersOf(x))
    BY <2>2, <2>4, ConcatProperties
  <2>6. Len(CharactersOf(t)) = Size(t) /\ x.to \in Int /\ x.from \in Int
    BY <1>3 DEF Stretch, Slice
  <2>7. Len(CharactersOf(Append(t, x))) = Size(Append(t, x))
    BY <2>3, <2>4, <2>5, <2>6
  <2> QED  BY <2>1, <2>7
<1>4. G = Seq(Stretch)
  <2>1. G \in SUBSET Seq(Stretch)
    OBVIOUS
  <2> HIDE DEF G
  <2> QED  BY <1>2, <1>3, <2>1, SequenceInduction
<1> QED  BY <1>4

\* The characters of slices behind slices.
LEMMA CharactersConcat ==
    ASSUME NEW s \in Seq(Stretch), NEW t \in Seq(Stretch)
    PROVE  CharactersOf(s \o t) = CharactersOf(s) \o CharactersOf(t)
<1> DEFINE G == {u \in Seq(Stretch) : CharactersOf(s \o u) = CharactersOf(s) \o CharactersOf(u)}
<1>1. <<>> \in G
  <2>1. [id |-> 0, from |-> 0, to |-> 0] \in Stretch
    BY DEF Stretch, Slice
  <2>2. CharactersOf(<<>>) = <<>> /\ CharactersOf(s) \in Seq(Letter)
    BY <2>1, CharactersAppend
  <2>3. s \o <<>> = s /\ CharactersOf(s) \o <<>> = CharactersOf(s) /\ <<>> \in Seq(Stretch)
    BY <2>2, ConcatEmptySeq, EmptySeq
  <2> QED  BY <2>2, <2>3
<1>2. ASSUME NEW u \in Seq(Stretch), NEW x \in Stretch, u \in G PROVE Append(u, x) \in G
  <2>1. s \o u \in Seq(Stretch) /\ Append(u, x) \in Seq(Stretch)
    BY ConcatProperties, AppendProperties
  <2>2. /\ CharactersOf(Append(s \o u, x)) = CharactersOf(s \o u) \o LettersOf(x)
        /\ CharactersOf(Append(u, x)) = CharactersOf(u) \o LettersOf(x)
        /\ CharactersOf(s) \in Seq(Letter) /\ CharactersOf(u) \in Seq(Letter)
        /\ LettersOf(x) \in Seq(Letter)
    BY <2>1, CharactersAppend, LettersTyped
  <2>3. (CharactersOf(s) \o CharactersOf(u)) \o LettersOf(x)
            = CharactersOf(s) \o (CharactersOf(u) \o LettersOf(x))
    <3> DEFINE a == CharactersOf(s)
               b == CharactersOf(u)
               c == LettersOf(x)
    <3>1. a \in Seq(Letter) /\ b \in Seq(Letter) /\ c \in Seq(Letter)
      BY <2>2
    <3> HIDE DEF a, b, c
    <3>2. (a \o b) \o c = a \o (b \o c)
      BY <3>1, ConcatAssociative
    <3> QED  BY <3>2 DEF a, b, c
  <2>4. s \o Append(u, x) = Append(s \o u, x)
    BY ConcatAppend
  <2>5. CharactersOf(s \o u) = CharactersOf(s) \o CharactersOf(u)
    BY <1>2
  <2>6. CharactersOf(s \o Append(u, x)) = CharactersOf(s) \o CharactersOf(Append(u, x))
    BY <2>2, <2>3, <2>4, <2>5
  <2> QED  BY <2>1, <2>6
<1>3. G = Seq(Stretch)
  <2>1. G \in SUBSET Seq(Stretch)
    OBVIOUS
  <2> HIDE DEF G
  <2> QED  BY <1>1, <1>2, <2>1, SequenceInduction
<1> QED  BY <1>3

CharactersEach(ss) == [i \in DOMAIN ss |-> CharactersOf(ss[i])]

\* The characters of each sequence, one sequence more.
LEMMA EachAppend ==
    ASSUME NEW ss \in Seq(Seq(Stretch)), NEW s \in Seq(Stretch)
    PROVE  /\ CharactersEach(ss) \in Seq(Seq(Letter))
           /\ CharactersOf(s) \in Seq(Letter)
           /\ CharactersEach(Append(ss, s)) = Append(CharactersEach(ss), CharactersOf(s))
<1> DEFINE n == Len(ss)
           t == Append(ss, s)
           T == Seq(Stretch)
<1>1. /\ n \in Nat /\ t \in Seq(T) /\ Len(t) = n + 1 /\ DOMAIN t = 1..(n + 1)
      /\ \A i \in 1..n : t[i] = ss[i] /\ ss[i] \in T
      /\ t[n + 1] = s /\ DOMAIN ss = 1..n /\ ss \in Seq(T)
  <2>1. ss \in Seq(T) /\ s \in T
    OBVIOUS
  <2> HIDE DEF T
  <2> QED  BY <2>1, LenProperties, AppendProperties, ElementOfSeq
<1>2. \A u \in T : CharactersOf(u) \in Seq(Letter)
  <2>1. [id |-> 0, from |-> 0, to |-> 0] \in Stretch
    BY DEF Stretch, Slice
  <2> QED  BY <2>1, CharactersAppend
<1>3. s \in T
  OBVIOUS
<1> HIDE DEF t, n, T
<1>4. ASSUME NEW u \in Seq(T), NEW m \in Nat, DOMAIN u = 1..m
      PROVE  CharactersEach(u) \in Seq(Seq(Letter)) /\ Len(CharactersEach(u)) = m
  <2>1. ASSUME NEW i \in 1..m PROVE CharactersOf(u[i]) \in Seq(Letter)
    <3>1. u[i] \in T
      BY <1>4, LenProperties, ElementOfSeq
    <3> QED  BY <1>2, <3>1
  <2>2. CharactersEach(u) \in [1..m -> Seq(Letter)]
    BY <1>4, <2>1 DEF CharactersEach
  <2>3. CharactersEach(u) \in Seq(Seq(Letter))
    BY <2>2, SeqDef
  <2> QED  BY <2>2, <2>3, LenProperties
<1>5. CharactersEach(ss) \in Seq(Seq(Letter)) /\ Len(CharactersEach(ss)) = n
  BY <1>1, <1>4
<1>6. CharactersEach(t) \in Seq(Seq(Letter)) /\ Len(CharactersEach(t)) = n + 1
  <2>1. n + 1 \in Nat
    BY <1>1
  <2> QED  BY <1>1, <1>4, <2>1
<1> DEFINE r == Append(CharactersEach(ss), CharactersOf(s))
<1>7. /\ r \in Seq(Seq(Letter)) /\ Len(r) = n + 1
      /\ \A i \in 1..n : r[i] = CharactersEach(ss)[i]
      /\ r[n + 1] = CharactersOf(s)
  <2>1. CharactersOf(s) \in Seq(Letter)
    BY <1>2, <1>3
  <2> QED  BY <1>5, <2>1, AppendProperties
<1> HIDE DEF r
<1>8. ASSUME NEW i \in 1..(n + 1) PROVE CharactersEach(t)[i] = r[i]
  <2>1. CASE i = n + 1
    BY <1>1, <1>7, <2>1 DEF CharactersEach
  <2>2. CASE i # n + 1
    <3>1. i \in 1..n
      BY <1>1, <2>2
    <3> QED  BY <1>1, <1>7, <3>1 DEF CharactersEach
  <2> QED  BY <2>1, <2>2
<1>9. CharactersEach(t) = r
  BY <1>6, <1>7, <1>8, SeqEqual
<1> QED  BY <1>2, <1>3, <1>5, <1>9 DEF t, r

\* Sequences put one behind the other have the characters of each.
LEMMA CharactersFlatten ==
    ASSUME NEW ss \in Seq(Seq(Stretch))
    PROVE  CharactersOf(FlattenSeq(ss)) = FlattenSeq(CharactersEach(ss))
<1> DEFINE T == Seq(Stretch)
           G == {u \in Seq(T) : CharactersOf(FlattenSeq(u)) = FlattenSeq(CharactersEach(u))}
<1>1. <<>> \in G
  <2>1. [id |-> 0, from |-> 0, to |-> 0] \in Stretch /\ <<>> \in Seq(Stretch)
        /\ <<>> \in Seq(Seq(Stretch)) /\ Len(<<>>) = 0
    BY EmptySeq DEF Stretch, Slice
  <2>2. CharactersOf(<<>>) = <<>>
    BY <2>1, CharactersAppend
  <2>3. FlattenSeq(<<>>) = <<>>
    BY <2>1, FlattenAppend
  <2>4. CharactersEach(<<>>) = <<>>
    BY DEF CharactersEach
  <2> QED  BY <2>1, <2>2, <2>3, <2>4
<1>2. ASSUME NEW u \in Seq(T), NEW s \in T, u \in G PROVE Append(u, s) \in G
  <2>1. Append(u, s) \in Seq(T)
    <3> HIDE DEF T
    <3> QED  BY AppendProperties
  <2>2. FlattenSeq(Append(u, s)) = FlattenSeq(u) \o s /\ FlattenSeq(u) \in Seq(Stretch)
    BY FlattenAppend
  <2>3. CharactersOf(FlattenSeq(u) \o s) = CharactersOf(FlattenSeq(u)) \o CharactersOf(s)
    BY <2>2, CharactersConcat
  <2>4. /\ CharactersEach(u) \in Seq(Seq(Letter)) /\ CharactersOf(s) \in Seq(Letter)
        /\ CharactersEach(Append(u, s)) = Append(CharactersEach(u), CharactersOf(s))
    BY EachAppend
  <2>5. FlattenSeq(Append(CharactersEach(u), CharactersOf(s)))
            = FlattenSeq(CharactersEach(u)) \o CharactersOf(s)
    BY <2>4, FlattenAppend
  <2>6. CharactersOf(FlattenSeq(u)) = FlattenSeq(CharactersEach(u))
    BY <1>2
  <2>7. CharactersOf(FlattenSeq(Append(u, s))) = FlattenSeq(CharactersEach(Append(u, s)))
    BY <2>2, <2>3, <2>4, <2>5, <2>6
  <2> QED  BY <2>1, <2>7
<1>3. G = Seq(T)
  <2>1. G \in SUBSET Seq(T)
    OBVIOUS
  <2> HIDE DEF G, T
  <2> QED  BY <1>1, <1>2, <2>1, SequenceInduction
<1> QED  BY <1>3

-----------------------------------------------------------------------------
(* Slices *)

\* A slice that can be sent.
Small == {x \in Stretch : x.to - x.from <= MaxContext}

\* Slices have the characters of what is sliced, and each can be sent.
LEMMA SlicesWhole ==
    ASSUME NEW x \in Stretch, x.from = 0
    PROVE  Slices(x) \in Seq(Small) /\ CharactersOf(Slices(x)) = LettersOf(x)
<1> DEFINE n == x.to
           m == MaxContext
           c == (n + m - 1) \div m
           e(p) == IF p * m < n THEN p * m ELSE n
           y(p) == [id |-> x.id, from |-> (p - 1) * m, to |-> e(p)]
           s == Slices(x)
           u(k) == [id |-> x.id, from |-> 0, to |-> k]
<1>1. n \in Nat /\ m \in Nat \ {0} /\ x.id \in Nat /\ x = u(n)
  BY ContextAssumption DEF Stretch, Slice
<1>2. /\ c \in Nat /\ n <= c * m
      /\ \A p \in 1..c : (p - 1) * m \in Nat /\ (p - 1) * m < n /\ p * m = (p - 1) * m + m
  <2> HIDE DEF n, m
  <2> QED  BY <1>1, RoundedUp
<1>3. s = [p \in 1..c |-> y(p)]
  BY DEF Slices
<1> HIDE DEF c, s, n, m
<1>4. ASSUME NEW p \in 1..c
      PROVE  /\ e(p) \in Nat /\ e(p - 1) = (p - 1) * m
             /\ e(p - 1) <= e(p) /\ e(p) - e(p - 1) <= m
             /\ y(p) \in Small
  <2> DEFINE q == (p - 1) * m
             r == p * m
  <2>1. q \in Nat /\ q < n /\ r = q + m
    BY <1>2
  <2> HIDE DEF q, r
  <2>2. (IF r < n THEN r ELSE n) \in Nat /\ (IF q < n THEN q ELSE n) = q
        /\ q <= (IF r < n THEN r ELSE n) /\ (IF r < n THEN r ELSE n) - q <= m
    BY <1>1, <2>1
  <2>3. [id |-> x.id, from |-> q, to |-> IF r < n THEN r ELSE n] \in Small
    BY <1>1, <2>1, <2>2 DEF Small, Stretch, Slice, m
  <2> QED  BY <2>2, <2>3 DEF q, r
<1>5. s \in [1..c -> Small]
  BY <1>3, <1>4
<1>6. s \in Seq(Small) /\ Len(s) = c
  <2>1. s \in Seq(Small)
    BY <1>2, <1>5, SeqDef
  <2> QED  BY <1>2, <1>5, <2>1, LenProperties
<1>7. s \in Seq(Stretch)
  <2>1. Small \subseteq Stretch
    BY DEF Small
  <2> QED  BY <1>6, <2>1, SeqMonotonic
<1> DEFINE first(p) == SubSeq(s, 1, p)
           Q == {p \in Nat : p <= c => CharactersOf(first(p)) = LettersOf(u(e(p)))}
<1>8. 0 \in Q
  <2>1. first(0) = <<>> /\ e(0) = 0
    BY <1>1, SubSeqEmpty
  <2>2. CharactersOf(<<>>) = <<>>
    BY <1>7, CharactersAppend
  <2>3. LettersOf(u(0)) = <<>>
    <3>1. u(0) \in Stretch
      BY <1>1 DEF Stretch, Slice
    <3>2. LettersOf(u(0)) \in Seq(Letter) /\ Len(LettersOf(u(0))) = 0
      BY <3>1, LettersTyped
    <3> QED  BY <3>2, EmptySeq
  <2> HIDE DEF first, e, u
  <2> QED  BY <2>1, <2>2, <2>3
<1>9. ASSUME NEW k \in Q PROVE k + 1 \in Q
  <2> SUFFICES ASSUME k + 1 <= c PROVE CharactersOf(first(k + 1)) = LettersOf(u(e(k + 1)))
    OBVIOUS
  <2> DEFINE p == k + 1
             b == e(k)
             d == e(p)
  <2>1. k \in Nat /\ p \in 1..c /\ p - 1 = k /\ CharactersOf(first(k)) = LettersOf(u(b))
    BY <1>2
  <2>2. /\ b \in Nat /\ d \in Nat /\ b <= d
        /\ y(p) = [id |-> x.id, from |-> b, to |-> d] /\ y(p) \in Small
    <3>1. e(p - 1) = (p - 1) * m /\ (p - 1) * m \in Nat /\ e(p) \in Nat /\ e(p - 1) <= e(p)
          /\ y(p) \in Small
      BY <1>2, <1>4, <2>1
    <3>2. e(p - 1) = b
      BY <2>1
    <3> HIDE DEF b, e
    <3> QED  BY <3>1, <3>2
  <2>3. s[p] = y(p)
    BY <1>3, <2>1
  <2> DEFINE z == y(p)
  <2>4. z \in Stretch /\ z.id = x.id /\ z.from = b /\ z.to = d
    BY <2>2 DEF Small
  <2> HIDE DEF p, b, d, e, z, Q
  <2>5. first(p) = Append(first(k), z) /\ first(k) \in Seq(Stretch)
    <3>1. first(k) \in Seq(Stretch)
      <4>1. \A i \in 1..k : s[i] \in Stretch
        <5>1. \A i \in 1..k : i \in 1..Len(s)
          BY <1>2, <1>6, <2>1
        <5> QED  BY <1>7, <5>1, ElementOfSeq
      <4> QED  BY <2>1, <4>1, SubSeqProperties
    <3>2. first(p) = first(p - 1) \o <<s[p]>>
      <4>1. 1 \in 1..Len(s) /\ p \in 1..Len(s)
        BY <1>2, <1>6, <2>1
      <4> QED  BY <1>7, <4>1, SubSeqRecursiveSecond
    <3> QED  BY <2>1, <2>3, <2>4, <3>1, <3>2, AppendIsConcat DEF z
  <2>6. CharactersOf(first(p)) = LettersOf(u(b)) \o LettersOf(z)
    BY <2>1, <2>4, <2>5, CharactersAppend
  <2>7. u(b) \in Stretch /\ u(d) \in Stretch
    BY <1>1, <2>2 DEF Stretch, Slice
  <2>8. LettersOf(u(b)) \o LettersOf(z) = LettersOf(u(d))
    <3> DEFINE l == LettersOf(u(b)) \o LettersOf(z)
               r == LettersOf(u(d))
    <3>1. /\ LettersOf(u(b)) \in Seq(Letter) /\ Len(LettersOf(u(b))) = b
          /\ LettersOf(z) \in Seq(Letter) /\ Len(LettersOf(z)) = d - b
          /\ r \in Seq(Letter) /\ Len(r) = d
      <4>1. u(b).to - u(b).from = b /\ u(d).to - u(d).from = d
        BY <2>2
      <4> QED  BY <2>4, <2>7, <4>1, LettersTyped
    <3>2. /\ l \in Seq(Letter) /\ Len(l) = d
          /\ \A i \in 1..d : l[i] = IF i <= b THEN LettersOf(u(b))[i] ELSE LettersOf(z)[i - b]
      <4>1. /\ l \in Seq(Letter) /\ Len(l) = b + (d - b)
            /\ \A i \in 1..(b + (d - b)) :
                  l[i] = IF i <= b THEN LettersOf(u(b))[i] ELSE LettersOf(z)[i - b]
        BY <3>1, ConcatProperties
      <4>2. b + (d - b) = d
        BY <2>2
      <4> QED  BY <4>1, <4>2
    <3>3. ASSUME NEW i \in 1..d PROVE l[i] = r[i]
      <4>1. r[i] = <<x.id, 0 + i>>
        BY <2>2 DEF LettersOf
      <4>2. CASE i <= b
        <5>1. LettersOf(u(b))[i] = <<x.id, 0 + i>>
          BY <2>2, <4>2 DEF LettersOf
        <5> HIDE DEF l, r, u
        <5> QED  BY <3>2, <4>1, <4>2, <5>1
      <4>3. CASE ~(i <= b)
        <5>1. i - b \in 1..(d - b) /\ b + (i - b) = 0 + i
          BY <2>2, <4>3
        <5>2. LettersOf(z)[i - b] = <<x.id, b + (i - b)>>
          BY <2>4, <5>1 DEF LettersOf
        <5> HIDE DEF l, r, u
        <5> QED  BY <3>2, <4>1, <4>3, <5>1, <5>2
      <4> QED  BY <4>2, <4>3
    <3> HIDE DEF l, r
    <3>4. l = r
      BY <3>1, <3>2, <3>3, SeqEqual
    <3> QED  BY <3>4 DEF l, r
  <2>9. CharactersOf(first(p)) = LettersOf(u(d))
    BY <2>6, <2>8
  <2> HIDE DEF u, first
  <2> QED  BY <2>9 DEF p, d
<1>10. Q = Nat
  <2>1. Q \in SUBSET Nat
    OBVIOUS
  <2> HIDE DEF Q
  <2> QED  BY <1>8, <1>9, <2>1, Induction
<1>11. c \in Q
  <2> HIDE DEF Q
  <2> QED  BY <1>2, <1>10
<1>12. e(c) = n /\ first(c) = s
  <2>1. first(c) = s
    BY <1>6, <1>7, SubSeqFull
  <2> QED  BY <1>1, <1>2, <2>1
<1>13. c <= c
  BY <1>2
<1>14. CharactersOf(first(c)) = LettersOf(u(e(c)))
  BY <1>11, <1>13
<1> HIDE DEF e, first, u
<1>15. CharactersOf(s) = LettersOf(x)
  BY <1>1, <1>12, <1>14
<1> QED  BY <1>6, <1>15 DEF s

Entry == [id : Nat, length : Nat]

\* The whole transcript, as slices of which none is cut.
LEMMA WholeTyped ==
    ASSUME NEW segs \in Seq(Entry)
    PROVE  /\ Whole(segs) \in Seq(Stretch)
           /\ DOMAIN Whole(segs) = DOMAIN segs
           /\ \A i \in DOMAIN segs : Whole(segs)[i] \in Stretch /\ Whole(segs)[i].from = 0
<1> DEFINE n == Len(segs)
<1>1. n \in Nat /\ DOMAIN segs = 1..n /\ \A i \in 1..n : segs[i] \in Entry
  BY LenProperties, ElementOfSeq
<1>2. ASSUME NEW i \in 1..n
      PROVE  Whole(segs)[i] \in Stretch /\ Whole(segs)[i].from = 0
  <2>1. segs[i].id \in Nat /\ segs[i].length \in Nat
    BY <1>1 DEF Entry
  <2> QED  BY <1>1, <2>1 DEF Whole, Stretch, Slice
<1> HIDE DEF n
<1>3. Whole(segs) \in [1..n -> Stretch]
  <2>1. Whole(segs) = [i \in 1..n |-> Whole(segs)[i]]
    BY <1>1 DEF Whole
  <2> QED  BY <1>2, <2>1
<1>4. Whole(segs) \in Seq(Stretch)
  BY <1>1, <1>3, SeqDef
<1> QED  BY <1>1, <1>2, <1>3, <1>4

\* The slices have all characters of the transcript.
LEMMA AllSlicesWhole ==
    ASSUME NEW segs \in Seq(Entry)
    PROVE  /\ AllSlices(segs) \in Seq(Small)
           /\ CharactersOf(AllSlices(segs)) = CharactersOf(Whole(segs))
<1> DEFINE n  == Len(segs)
           w  == Whole(segs)
           ss == [i \in DOMAIN segs |-> Slices(w[i])]
<1>1. n \in Nat /\ DOMAIN segs = 1..n
  BY LenProperties
<1>2. ASSUME NEW i \in 1..n
      PROVE  Slices(w[i]) \in Seq(Small) /\ CharactersOf(Slices(w[i])) = LettersOf(w[i])
  BY <1>1, WholeTyped, SlicesWhole
<1>3. ss \in [1..n -> Seq(Small)]
  BY <1>1, <1>2
<1> HIDE DEF n
<1>4. ss \in Seq(Seq(Small)) /\ DOMAIN ss = 1..n
  <2>1. ss \in Seq(Seq(Small))
    <3> HIDE DEF ss
    <3> QED  BY <1>1, <1>3, SeqDef
  <2> QED  BY <1>1, <2>1
<1>5. \A s \in Seq(Small) : s \in Seq(Stretch)
  <2>1. Small \subseteq Stretch
    BY DEF Small
  <2> QED  BY <2>1, SeqMonotonic
<1>6. ss \in Seq(Seq(Stretch))
  <2>1. Seq(Small) \subseteq Seq(Stretch)
    BY <1>5
  <2> HIDE DEF ss
  <2> QED  BY <1>4, <2>1, SeqMonotonic
<1>7. AllSlices(segs) = FlattenSeq(ss)
  BY DEF AllSlices
<1>8. CharactersEach(ss) = Spelled(w)
  <2>1. DOMAIN w = 1..n
    BY <1>1, WholeTyped
  <2>2. \A i \in 1..n : CharactersOf(ss[i]) = LettersOf(w[i])
    BY <1>1, <1>2
  <2> HIDE DEF ss, w
  <2> QED  BY <1>4, <2>1, <2>2 DEF CharactersEach, Spelled
<1>9. CharactersOf(w) = FlattenSeq(Spelled(w))
  BY DEF CharactersOf, Spelled, LettersOf
<1> HIDE DEF ss, w
<1>10. FlattenSeq(ss) \in Seq(Small)
  <2>1. <<>> \in Seq(Small)
    BY EmptySeq
  <2> QED  BY <1>4, <2>1, FlattenAppend
<1>11. CharactersOf(FlattenSeq(ss)) = FlattenSeq(CharactersEach(ss))
  BY <1>6, CharactersFlatten
<1> QED  BY <1>7, <1>8, <1>9, <1>10, <1>11 DEF w

-----------------------------------------------------------------------------
(* Chunks *)

\* A chunk that can be sent.
Sendable == {c \in Seq(Small) : Size(c) <= MaxContext}

\* A chunk takes a slice if it fits, otherwise a new one is begun with it.
LEMMA ChunkGrows ==
    ASSUME NEW done \in Seq(Sendable), NEW x \in Small
    PROVE  LET longer == IF done # <<>> /\ Size(Last(done)) + x.to - x.from <= MaxContext
                         THEN [done EXCEPT ![Len(done)] = Append(@, x)]
                         ELSE Append(done, <<x>>)
           IN  /\ longer \in Seq(Sendable)
               /\ FlattenSeq(longer) = Append(FlattenSeq(done), x)
               /\ FlattenSeq(done) \in Seq(Small)
<1>1. /\ Sendable \subseteq Seq(Small) /\ done \in Seq(Seq(Small))
      /\ \A c \in Seq(Small) : c \in Seq(Slice)
      /\ x \in Slice
  <2>1. Sendable \subseteq Seq(Small) /\ Small \subseteq Slice
    BY DEF Sendable, Small, Stretch
  <2>2. done \in Seq(Seq(Small))
    BY <2>1, SeqMonotonic
  <2>3. \A c \in Seq(Small) : c \in Seq(Slice)
    BY <2>1, SeqMonotonic
  <2> QED  BY <2>1, <2>2, <2>3
<1>2. /\ <<>> \in Seq(Small) /\ <<>> \in Seq(Seq(Small))
      /\ FlattenSeq(done) \in Seq(Small)
      /\ \A s \in Seq(Small) : /\ FlattenSeq(Append(done, s)) = FlattenSeq(done) \o s
  <2>1. <<>> \in Seq(Small) /\ <<>> \in Seq(Seq(Small))
    BY EmptySeq
  <2> QED  BY <1>1, <2>1, FlattenAppend
<1>3. CASE done # <<>> /\ Size(Last(done)) + x.to - x.from <= MaxContext
  <2>1. PICK front \in Seq(Sendable), c \in Sendable : done = Append(front, c)
    BY <1>3, SequenceEmptyOrAppend
  <2> DEFINE d == Append(c, x)
             n == Len(front)
  <2>2. /\ n \in Nat /\ Len(done) = n + 1 /\ done[n + 1] = c
        /\ \A i \in 1..n : done[i] = front[i]
    BY <2>1, AppendProperties, LenProperties
  <2>3. d \in Sendable
    <3>1. c \in Seq(Small) /\ Last(done) = c
      BY <2>2 DEF Sendable, Last
    <3>2. d \in Seq(Small)
      BY <3>1, AppendProperties
    <3>3. Size(d) = Size(c) + x.to - x.from
      BY <1>1, <3>1, SizeAppend
    <3> HIDE DEF d
    <3> QED  BY <1>3, <3>1, <3>2, <3>3 DEF Sendable
  <2>4. [done EXCEPT ![Len(done)] = Append(@, x)] = Append(front, d)
    <3> DEFINE l == [done EXCEPT ![Len(done)] = Append(@, x)]
               r == Append(front, d)
    <3>1. l = [done EXCEPT ![n + 1] = d]
      BY <2>2
    <3>2. /\ l \in Seq(Sendable) /\ Len(l) = n + 1
          /\ \A i \in 1..(n + 1) : l[i] = IF i = n + 1 THEN d ELSE done[i]
      <4>1. n + 1 \in 1..Len(done)
        BY <2>2
      <4> HIDE DEF l, d
      <4> QED  BY <2>2, <2>3, <3>1, <4>1, ExceptSeq
    <3>3. /\ r \in Seq(Sendable) /\ Len(r) = n + 1
          /\ \A i \in 1..n : r[i] = front[i]
          /\ r[n + 1] = d
      <4> HIDE DEF d
      <4> QED  BY <2>3, AppendProperties
    <3> HIDE DEF l, r, d
    <3>4. ASSUME NEW i \in 1..(n + 1) PROVE l[i] = r[i]
      <4>1. CASE i = n + 1
        BY <3>2, <3>3, <4>1
      <4>2. CASE i # n + 1
        <5>1. i \in 1..n
          BY <2>2, <4>2
        <5> QED  BY <2>2, <3>2, <3>3, <4>2, <5>1
      <4> QED  BY <4>1, <4>2
    <3>5. l = r
      BY <3>2, <3>3, <3>4, SeqEqual
    <3> QED  BY <3>5 DEF l, r
  <2>5. Append(front, d) \in Seq(Sendable)
    <3> HIDE DEF d
    <3> QED  BY <2>3, AppendProperties
  <2>6. FlattenSeq(Append(front, d)) = Append(FlattenSeq(done), x)
    <3>1. front \in Seq(Seq(Small)) /\ c \in Seq(Small) /\ d \in Seq(Small)
      BY <1>1, <2>3, SeqMonotonic
    <3> HIDE DEF d
    <3>2. /\ FlattenSeq(Append(front, d)) = FlattenSeq(front) \o d
          /\ FlattenSeq(Append(front, c)) = FlattenSeq(front) \o c
          /\ FlattenSeq(front) \in Seq(Small)
      BY <3>1, FlattenAppend
    <3>3. FlattenSeq(front) \o Append(c, x) = Append(FlattenSeq(front) \o c, x)
      BY <3>1, <3>2, ConcatAppend
    <3> QED  BY <2>1, <3>2, <3>3 DEF d
  <2> QED  BY <1>2, <1>3, <2>4, <2>5, <2>6
<1>4. CASE ~(done # <<>> /\ Size(Last(done)) + x.to - x.from <= MaxContext)
  <2>1. <<x>> = Append(<<>>, x)
    OBVIOUS
  <2>2. <<x>> \in Sendable
    <3>1. <<x>> \in Seq(Small)
      BY <1>2, <2>1, AppendProperties
    <3>2. Size(<<x>>) = 0 + x.to - x.from
      BY <1>1, <1>2, <2>1, SizeAppend
    <3>3. x.to - x.from <= MaxContext /\ x.to \in Int /\ x.from \in Int
      BY DEF Small, Stretch, Slice
    <3> QED  BY <3>1, <3>2, <3>3 DEF Sendable
  <2>3. Append(done, <<x>>) \in Seq(Sendable)
    BY <2>2, AppendProperties
  <2>4. FlattenSeq(Append(done, <<x>>)) = FlattenSeq(done) \o <<x>>
    BY <1>1, <1>2, <2>2
  <2>5. FlattenSeq(done) \o <<x>> = Append(FlattenSeq(done), x)
    BY <1>2, AppendIsConcat
  <2> QED  BY <1>2, <1>4, <2>3, <2>4, <2>5
<1> QED  BY <1>3, <1>4

Longer(done, x) ==
    IF done # <<>> /\ Size(Last(done)) + x.to - x.from <= MaxContext
    THEN [done EXCEPT ![Len(done)] = Append(@, x)]
    ELSE Append(done, <<x>>)

\* The chunks hold the slices in their order, and each can be sent.
LEMMA ChunksWhole ==
    ASSUME NEW segs \in Seq(Entry)
    PROVE  Chunks(segs) \in Seq(Sendable) /\ FlattenSeq(Chunks(segs)) = AllSlices(segs)
<1> DEFINE X    == Seq(Sendable)
           s    == AllSlices(segs)
           n    == Len(s)
           rule == [k \in 1..n |-> [done \in X |-> Longer(done, s[k])]]
           upto == CHOOSE f : f = [k \in 0..n |->
                       IF k = 0 THEN <<>> ELSE Longer(f[k - 1], s[k])]
<1>1. s \in Seq(Small) /\ n \in Nat /\ \A k \in 1..n : s[k] \in Small
  <2>1. s \in Seq(Small)
    BY AllSlicesWhole
  <2> HIDE DEF s
  <2> QED  BY <2>1, LenProperties, ElementOfSeq
<1>2. Chunks(segs) = upto[n]
  BY DEF Chunks, Longer
<1> HIDE DEF s
<1>3. ASSUME NEW done \in X, NEW x \in Small
      PROVE  /\ Longer(done, x) \in X
             /\ FlattenSeq(Longer(done, x)) = Append(FlattenSeq(done), x)
  BY ChunkGrows DEF Longer
<1>4. rule \in [1..n -> [X -> X]] /\ \A k \in 1..n, done \in X : rule[k][done] = Longer(done, s[k])
  <2> HIDE DEF X, n
  <2> QED  BY <1>1, <1>3
<1>5. <<>> \in X
  BY EmptySeq
<1> HIDE DEF rule, X, n
<1>6. PICK f \in [0..n -> X] : Recurs(n, <<>>, rule, f)
  BY <1>1, <1>4, <1>5, Recursion
<1>7. f = [k \in 0..n |-> IF k = 0 THEN <<>> ELSE Longer(f[k - 1], s[k])]
  <2>1. ASSUME NEW k \in 0..n PROVE f[k] = IF k = 0 THEN <<>> ELSE Longer(f[k - 1], s[k])
    <3>1. CASE k = 0
      BY <1>6, <3>1 DEF Recurs
    <3>2. CASE k # 0
      <4>1. k \in 1..n /\ k - 1 \in 0..n
        BY <1>1, <3>2
      <4>2. f[k - 1] \in X
        BY <4>1
      <4>3. f[k] = rule[k][f[k - 1]]
        BY <1>6, <4>1 DEF Recurs
      <4> QED  BY <1>4, <3>2, <4>1, <4>2, <4>3
    <3> QED  BY <3>1, <3>2
  <2>2. f = [k \in 0..n |-> f[k]]
    OBVIOUS
  <2> QED  BY <2>1, <2>2
<1>8. upto = [k \in 0..n |-> IF k = 0 THEN <<>> ELSE Longer(upto[k - 1], s[k])]
  BY <1>7
<1> HIDE DEF upto
<1> DEFINE Q == {k \in Nat : k <= n => upto[k] \in X /\ FlattenSeq(upto[k]) = SubSeq(s, 1, k)}
<1>9. 0 \in Q
  <2>1. upto[0] = <<>>
    BY <1>1, <1>8
  <2>2. SubSeq(s, 1, 0) = <<>>
    BY SubSeqEmpty
  <2>3. FlattenSeq(<<>>) = <<>>
    BY EmptySeq DEF FlattenSeq
  <2> QED  BY <1>5, <2>1, <2>2, <2>3
<1>10. ASSUME NEW k \in Q PROVE k + 1 \in Q
  <2> SUFFICES ASSUME k + 1 <= n
               PROVE  upto[k + 1] \in X /\ FlattenSeq(upto[k + 1]) = SubSeq(s, 1, k + 1)
    OBVIOUS
  <2> DEFINE p == k + 1
  <2>1. /\ k \in Nat /\ p \in 1..n /\ p \in 0..n /\ p # 0 /\ p - 1 = k
        /\ upto[k] \in X /\ FlattenSeq(upto[k]) = SubSeq(s, 1, k)
    BY <1>1
  <2> HIDE DEF p, Q
  <2>2. upto[p] = Longer(upto[k], s[p])
    BY <1>8, <2>1
  <2>3. upto[p] \in X /\ FlattenSeq(upto[p]) = Append(SubSeq(s, 1, k), s[p])
    BY <1>1, <1>3, <2>1, <2>2
  <2>4. SubSeq(s, 1, p) = Append(SubSeq(s, 1, k), s[p])
    <3>1. SubSeq(s, 1, k) \in Seq(Small)
      <4>1. \A i \in 1..k : s[i] \in Small
        <5>1. \A i \in 1..k : i \in 1..n
          BY <1>1, <2>1
        <5> QED  BY <1>1, <5>1
      <4> QED  BY <2>1, <4>1, SubSeqProperties
    <3>2. SubSeq(s, 1, p) = SubSeq(s, 1, p - 1) \o <<s[p]>>
      <4>1. 1 \in 1..Len(s) /\ p \in 1..Len(s)
        BY <1>1, <2>1 DEF n
      <4> QED  BY <1>1, <4>1, SubSeqRecursiveSecond
    <3> QED  BY <1>1, <2>1, <3>1, <3>2, AppendIsConcat
  <2> QED  BY <2>3, <2>4 DEF p
<1>11. Q = Nat
  <2>1. Q \in SUBSET Nat
    OBVIOUS
  <2> HIDE DEF Q
  <2> QED  BY <1>9, <1>10, <2>1, Induction
<1>12. n \in Q /\ n <= n
  <2> HIDE DEF Q
  <2> QED  BY <1>1, <1>11
<1>13. upto[n] \in X /\ FlattenSeq(upto[n]) = SubSeq(s, 1, n)
  BY <1>12
<1>14. SubSeq(s, 1, n) = s
  BY <1>1, SubSeqFull DEF n
<1>15. Chunks(segs) \in X /\ FlattenSeq(Chunks(segs)) = s
  BY <1>2, <1>13, <1>14
<1> QED  BY <1>15 DEF X, s

\* What the chunks of a transcript are, and that one without any fits.
LEMMA ChunksSendable ==
    ASSUME NEW segs \in Seq(Entry)
    PROVE  /\ Chunks(segs) \in Seq(Sendable)
           /\ CharactersOf(FlattenSeq(Chunks(segs))) = CharactersOf(Whole(segs))
           /\ Chunks(segs) = <<>> => Fits(segs)
<1>1. /\ Chunks(segs) \in Seq(Sendable)
      /\ CharactersOf(FlattenSeq(Chunks(segs))) = CharactersOf(Whole(segs))
  BY ChunksWhole, AllSlicesWhole
<1>2. ASSUME Chunks(segs) = <<>> PROVE Fits(segs)
  <2>1. FlattenSeq(<<>>) = <<>>
    BY EmptySeq DEF FlattenSeq
  <2>2. CharactersOf(<<>>) = <<>>
    <3>1. [id |-> 0, from |-> 0, to |-> 0] \in Stretch /\ <<>> \in Seq(Stretch)
      BY EmptySeq DEF Stretch, Slice
    <3> QED  BY <3>1, CharactersAppend
  <2>3. CharactersOf(Whole(segs)) = <<>>
    BY <1>1, <1>2, <2>1, <2>2
  <2>4. Len(CharactersOf(Whole(segs))) = Size(Whole(segs))
    BY WholeTyped, CharactersCounted
  <2>5. Size(Whole(segs)) = 0
    BY <2>3, <2>4, EmptySeq
  <2> QED  BY <2>5, ContextAssumption DEF Fits
<1> QED  BY <1>1, <1>2

-----------------------------------------------------------------------------
(* The requests of a job *)

\* The texts of the stored segments have a length.
LEMMA DocumentTyped ==
    ASSUME SpeechInv, Attribution, NEW kind, Document(kind)
    PROVE  \E segs \in Seq(Entry) : Ask(kind, segs)
<1> DEFINE e(i)  == [id |-> transcript[i].id, length |-> Length[transcript[i].text]]
           segs  == [i \in DOMAIN transcript |-> e(i)]
           n     == Len(transcript)
<1>1. n \in Nat /\ DOMAIN transcript = 1..n
  BY LenProperties DEF SpeechInv, Listed
<1>2. ASSUME NEW i \in 1..n PROVE e(i) \in Entry
  <2>1. PICK j \in DOMAIN aligned : transcript[i] = Segment(j)
    BY <1>1 DEF Attribution, Worded
  <2>2. aligned[j].text \in Text /\ j \in Nat
    <3>1. DOMAIN aligned = 1..Len(aligned)
      BY LenProperties DEF SpeechInv, Answered
    <3> QED  BY <2>1, <3>1, PieceTyped DEF SpeechInv
  <2>3. transcript[i].id = j /\ transcript[i].text = aligned[j].text
    BY <2>1 DEF Segment
  <2>4. Length[transcript[i].text] \in Nat
    BY <2>2, <2>3, LengthAssumption
  <2> QED  BY <2>2, <2>3, <2>4 DEF Entry
<1>3. segs \in [1..n -> Entry]
  <2> HIDE DEF e
  <2> QED  BY <1>1, <1>2
<1>4. segs \in Seq(Entry)
  <2> HIDE DEF segs, n
  <2> QED  BY <1>1, <1>3, SeqDef
<1>5. Ask(kind, segs)
  BY DEF Document
<1> HIDE DEF segs
<1> QED  BY <1>4, <1>5

\* A call after one more request.
Requested(c, d, try, pc) ==
    /\ d.kind = c.kind /\ d.attempt = c.attempt
    /\ d.pc = pc /\ d.try = try
    /\ d.requests = c.requests + 1

\* The requests of the actions.
LEMMA Requests ==
    ASSUME call \in Call
    PROVE  /\ Unavailable => Requested(call, call', call.try,
                                 IF call.attempt < MaxAttempts THEN "waiting" ELSE "failed")
           /\ Refused => Requested(call, call', call.try, "failed")
           /\ Wrong => Requested(call, call', call.try + 1,
                                 IF call.try < 2 THEN call.pc ELSE "failed")
           /\ \A cites : Facts(cites) => Requested(call, call', 1,
                  IF Len(facts) + 1 = Len(chunks) THEN "final" ELSE "extract")
           /\ \A cites : Result(cites) => Requested(call, call', call.try, "succeeded")
<1>1. Unavailable => Requested(call, call', call.try,
                         IF call.attempt < MaxAttempts THEN "waiting" ELSE "failed")
  BY DEF Unavailable, Requested, Call
<1>2. Refused => Requested(call, call', call.try, "failed")
  BY DEF Refused, Requested, Call
<1>3. Wrong => Requested(call, call', call.try + 1, IF call.try < 2 THEN call.pc ELSE "failed")
  BY DEF Wrong, Corrected, Requested, Call
<1>4. \A cites : Facts(cites) => Requested(call, call', 1,
          IF Len(facts) + 1 = Len(chunks) THEN "final" ELSE "extract")
  BY DEF Facts, Requested, Call
<1>5. \A cites : Result(cites) => Requested(call, call', call.try, "succeeded")
  BY DEF Result, Requested, Call
<1> QED  BY <1>1, <1>2, <1>3, <1>4, <1>5

\* The requests that one attempt makes at most.
Share == 2 * (Len(chunks) + 1)

\* The requests of earlier attempts, twice the chunks that are done with, and
\* the tries of the open one.
Spent ==
    /\ call.requests \in Int
    /\ call.pc = "idle" => call.requests = 0
    /\ Asking => /\ call.try \in 1..2 /\ call.attempt \in 1..MaxAttempts
                 /\ call.requests <= (call.attempt - 1) * Share + 2 * Len(facts) + call.try - 1
    /\ call.pc = "waiting" => /\ call.attempt \in 1..(MaxAttempts - 1)
                              /\ call.requests <= call.attempt * Share
    /\ call.pc \in {"succeeded", "failed"} => call.requests <= MaxAttempts * Share

\* What was extracted from is the chunks so far, and what is read is known.
Shown ==
    /\ call \in Call
    /\ facts \in Seq(Citations)
    /\ call.pc = "idle" => chunks = <<>>
    /\ call.pc # "idle" => /\ material \in Seq(Entry)
                           /\ chunks = IF Fits(material) THEN <<>> ELSE Chunks(material)
    /\ call.pc = "extract" => Len(facts) < Len(chunks)
    /\ call.pc = "final" => Len(facts) = Len(chunks)
    /\ Asking => shown = CharactersOf(FlattenSeq(SubSeq(chunks, 1, Len(facts))))
    /\ call.pc = "succeeded" => shown = CharactersOf(Whole(material))

\* Chunks can be counted and sent.
LEMMA ChunksTyped ==
    ASSUME Shown
    PROVE  /\ chunks \in Seq(Sendable) /\ Len(chunks) \in Nat /\ Len(facts) \in Nat
           /\ call.pc # "idle" /\ chunks = <<>> => Fits(material)
           /\ call.pc # "idle" /\ chunks # <<>> =>
                 CharactersOf(FlattenSeq(chunks)) = CharactersOf(Whole(material))
<1>1. Len(facts) \in Nat
  BY LenProperties DEF Shown
<1>2. <<>> \in Seq(Sendable)
  BY EmptySeq
<1>3. CASE call.pc = "idle"
  BY <1>1, <1>2, <1>3, LenProperties DEF Shown
<1>4. CASE call.pc # "idle"
  <2>1. /\ Chunks(material) \in Seq(Sendable)
        /\ CharactersOf(FlattenSeq(Chunks(material))) = CharactersOf(Whole(material))
        /\ Chunks(material) = <<>> => Fits(material)
    BY <1>4, ChunksSendable DEF Shown
  <2>2. chunks = IF Fits(material) THEN <<>> ELSE Chunks(material)
    BY <1>4 DEF Shown
  <2>3. chunks \in Seq(Sendable)
    BY <1>2, <2>1, <2>2
  <2> QED  BY <1>1, <1>4, <2>1, <2>2, <2>3, LenProperties
<1> QED  BY <1>3, <1>4

\* Nothing was asked.
LEMMA ShownInit == ProviderInit => Shown /\ Spent
<1> SUFFICES ASSUME ProviderInit PROVE Shown /\ Spent
  OBVIOUS
<1>1. <<>> \in Seq(Citations)
  BY EmptySeq
<1> QED  BY <1>1 DEF ProviderInit, Shown, Spent, Call, Asking

\* What an attempt begins with.
LEMMA ShownBegin ==
    ASSUME Begin(call'.kind, call'.attempt, call'.requests), call' \in Call,
           material' \in Seq(Entry),
           chunks' = IF Fits(material') THEN <<>> ELSE Chunks(material'),
           call'.attempt \in 1..MaxAttempts,
           call'.requests <= (call'.attempt - 1) * Share'
    PROVE  Shown' /\ Spent'
<1>1. /\ facts' = <<>> /\ shown' = <<>> /\ call'.try = 1
      /\ call'.pc = IF chunks' = <<>> THEN "final" ELSE "extract"
  BY DEF Begin
<1>2. /\ <<>> \in Seq(Citations') /\ Len(<<>>) = 0
      /\ SubSeq(chunks', 1, 0) = <<>>
  BY EmptySeq, SubSeqEmpty
<1>3. CharactersOf(FlattenSeq(<<>>)) = <<>>
  <2>1. FlattenSeq(<<>>) = <<>>
    BY EmptySeq DEF FlattenSeq
  <2>2. [id |-> 0, from |-> 0, to |-> 0] \in Stretch /\ <<>> \in Seq(Stretch)
    BY EmptySeq DEF Stretch, Slice
  <2> QED  BY <2>1, <2>2, CharactersAppend
<1>4. chunks' # <<>> => Len(chunks') > 0
  <2>1. <<>> \in Seq(Sendable) /\ Chunks(material') \in Seq(Sendable)
    BY EmptySeq, ChunksSendable
  <2>2. chunks' \in Seq(Sendable)
    BY <2>1
  <2> QED  BY <2>2, EmptySeq
<1>5. Shown'
  BY <1>1, <1>2, <1>3, <1>4 DEF Shown, Asking, Fits
<1>6. Spent'
  <2>1. call'.requests \in Int
    BY DEF Call
  <2> DEFINE spent == (call'.attempt - 1) * Share'
  <2>2. spent \in Int
    <3>1. Len(chunks') \in Nat
      <4>1. <<>> \in Seq(Sendable) /\ Chunks(material') \in Seq(Sendable)
        BY EmptySeq, ChunksSendable
      <4> QED  BY <4>1, LenProperties
    <3> QED  BY <3>1 DEF Share
  <2> HIDE DEF spent
  <2>3. call'.requests <= spent + 2 * Len(facts') + call'.try - 1
    BY <1>1, <1>2, <2>1, <2>2 DEF spent
  <2> QED  BY <1>1, <2>1, <2>3 DEF Spent, Asking, spent
<1> QED  BY <1>5, <1>6

\* A job asks for the first time.
LEMMA ShownAsk ==
    ASSUME NEW kind \in {"classify", "summarize"}, NEW segs \in Seq(Entry), Ask(kind, segs)
    PROVE  Shown' /\ Spent'
<1>1. /\ material' = segs /\ chunks' = IF Fits(segs) THEN <<>> ELSE Chunks(segs)
      /\ Begin(kind, 1, 0)
  BY DEF Ask
<1>2. call'.kind = kind /\ call'.attempt = 1 /\ call'.requests = 0 /\ call' \in Call
  BY <1>1 DEF Begin, Call
<1>3. Begin(call'.kind, call'.attempt, call'.requests)
  BY <1>1, <1>2
<1>4. Len(chunks') \in Nat
  <2>1. <<>> \in Seq(Sendable) /\ Chunks(segs) \in Seq(Sendable)
    BY EmptySeq, ChunksSendable
  <2> QED  BY <1>1, <2>1, LenProperties
<1>5. call'.requests <= (call'.attempt - 1) * Share'
  BY <1>2, <1>4 DEF Share
<1>6. call'.attempt \in 1..MaxAttempts
  BY <1>2, ContextAssumption
<1> QED  BY <1>1, <1>2, <1>3, <1>5, <1>6, ShownBegin

\* The next attempt.
LEMMA ShownAgain == ASSUME Shown, Spent, Again PROVE Shown' /\ Spent'
<1>1. /\ call.pc = "waiting" /\ UNCHANGED <<material, chunks>>
      /\ Begin(call.kind, call.attempt + 1, call.requests)
  BY DEF Again
<1>2. /\ call.attempt \in 1..(MaxAttempts - 1) /\ call.requests <= call.attempt * Share
      /\ call \in Call
  BY <1>1 DEF Spent, Shown
<1>3. /\ call'.kind = call.kind /\ call'.attempt = call.attempt + 1
      /\ call'.requests = call.requests /\ call' \in Call
  BY <1>1, <1>2 DEF Begin, Call
<1>4. Begin(call'.kind, call'.attempt, call'.requests)
  BY <1>1, <1>3
<1>5. /\ material' \in Seq(Entry)
      /\ chunks' = IF Fits(material') THEN <<>> ELSE Chunks(material')
  BY <1>1 DEF Shown
<1>6. call'.attempt \in 1..MaxAttempts /\ call'.attempt - 1 = call.attempt
  BY <1>2, <1>3, ContextAssumption
<1>7. Share' = Share
  BY <1>1 DEF Share
<1> QED  BY <1>2, <1>3, <1>4, <1>5, <1>6, <1>7, ShownBegin

\* The shares of attempts add up.
LEMMA SharesAdd ==
    ASSUME NEW l \in Nat, NEW a \in 1..MaxAttempts
    PROVE  /\ (a - 1) * (2 * (l + 1)) \in Nat
           /\ a * (2 * (l + 1)) = (a - 1) * (2 * (l + 1)) + 2 * l + 2
           /\ a * (2 * (l + 1)) <= MaxAttempts * (2 * (l + 1))
<1>1. MaxAttempts \in Nat /\ a - 1 \in Nat
  BY ContextAssumption
<1> DEFINE u == 2 * (l + 1)
<1>2. u \in Nat /\ u = 2 * l + 2
  OBVIOUS
<1> HIDE DEF u
<1>3. (a - 1) * u \in Nat /\ a * u = (a - 1) * u + u /\ a * u <= MaxAttempts * u
  BY <1>1, <1>2
<1>4. a * u = (a - 1) * u + 2 * l + 2
  BY <1>2, <1>3
<1> QED  BY <1>3, <1>4 DEF u

\* A request that was not for nothing, or that was: it is within the share of
\* its attempt, and the tries of the next do not begin before.
LEMMA SpentRequest ==
    ASSUME Shown, Spent, UNCHANGED chunks, Asking, call'.pc # "idle",
           NEW try, NEW pc, Requested(call, call', try, pc),
           \/ pc = "waiting" /\ call.attempt < MaxAttempts
           \/ pc \in {"succeeded", "failed"}
           \/ pc \in {"extract", "final"} /\ facts' = facts /\ try = call.try + 1 /\ try <= 2
           \/ pc \in {"extract", "final"} /\ Len(facts') = Len(facts) + 1 /\ try = 1
    PROVE  Spent'
<1> DEFINE l == Len(chunks)
           f == Len(facts)
           a == call.attempt
           u == 2 * (l + 1)
           before == (a - 1) * u
           all    == MaxAttempts * u
           upto   == a * u
<1>1. l \in Nat /\ f \in Nat /\ f <= l
  BY ChunksTyped DEF Shown, Asking
<1>2. /\ a \in 1..MaxAttempts /\ call.try \in 1..2 /\ call.requests \in Int
      /\ call.requests <= before + 2 * f + call.try - 1
  BY DEF Spent, Share
<1>3. before \in Nat /\ upto = before + 2 * l + 2 /\ upto <= all
  <2> HIDE DEF l
  <2> QED  BY <1>1, <1>2, SharesAdd
<1>4. /\ call'.attempt = a /\ call'.pc = pc /\ call'.try = try
      /\ call'.requests = call.requests + 1
  BY DEF Requested
<1>5. Share' = u
  BY DEF Share
<1>6. MaxAttempts \in Nat /\ all \in Int
  <2>1. MaxAttempts \in Nat
    BY ContextAssumption
  <2> QED  BY <1>1, <2>1
<1> HIDE DEF before, all, upto, l, u, a
<1>7. call.requests + 1 <= upto /\ call.requests + 1 <= all
  BY <1>1, <1>2, <1>3, <1>6
<1>8. call.requests + 1 \in Int
  BY <1>2
<1>9. upto = call'.attempt * Share' /\ all = MaxAttempts * Share'
      /\ before = (call'.attempt - 1) * Share'
  BY <1>4, <1>5 DEF upto, all, before
<1>10. CASE pc = "waiting" /\ a < MaxAttempts
  BY <1>2, <1>4, <1>6, <1>7, <1>8, <1>9, <1>10 DEF Spent, Asking
<1>11. CASE pc \in {"succeeded", "failed"}
  BY <1>4, <1>7, <1>8, <1>9, <1>11 DEF Spent, Asking
<1>12. CASE /\ pc \in {"extract", "final"}
            /\ \/ facts' = facts /\ try = call.try + 1 /\ try <= 2
               \/ Len(facts') = f + 1 /\ try = 1
  <2>1. call.requests + 1 <= before + 2 * Len(facts') + try - 1 /\ try \in 1..2
    BY <1>1, <1>2, <1>3, <1>12
  <2> QED  BY <1>2, <1>4, <1>8, <1>9, <1>12, <2>1 DEF Spent, Asking
<1> QED  BY <1>10, <1>11, <1>12 DEF a

\* Nothing was learned.
LEMMA ShownFruitless ==
    ASSUME Shown, Spent, Unavailable \/ Refused \/ Wrong, call' \in Call
    PROVE  Shown' /\ Spent'
<1>1. call \in Call /\ UNCHANGED <<material, chunks, shown, facts, result>> /\ Asking
  BY DEF Shown, Unavailable, Refused, Wrong
<1>2. \E try, pc : /\ Requested(call, call', try, pc)
                   /\ \/ pc = "waiting" /\ call.attempt < MaxAttempts
                      \/ pc = "failed"
                      \/ pc = call.pc /\ try = call.try + 1 /\ try <= 2
  <2>1. CASE Unavailable
    BY <1>1, <2>1, Requests
  <2>2. CASE Refused
    BY <1>1, <2>2, Requests
  <2>3. CASE Wrong
    <3>1. Requested(call, call', call.try + 1, IF call.try < 2 THEN call.pc ELSE "failed")
      BY <1>1, <2>3, Requests
    <3>2. call.try \in 1..2
      BY <1>1 DEF Spent
    <3>3. call.try < 2 => call.try + 1 <= 2
      BY <3>2
    <3> QED  BY <3>1, <3>3
  <2> QED  BY <2>1, <2>2, <2>3
<1>3. PICK try, pc : /\ Requested(call, call', try, pc)
                     /\ \/ pc = "waiting" /\ call.attempt < MaxAttempts
                        \/ pc = "failed"
                        \/ pc = call.pc /\ try = call.try + 1 /\ try <= 2
  BY <1>2
<1>4. call.pc \in {"extract", "final"} /\ call'.pc = pc
  BY <1>1, <1>3 DEF Asking, Requested
<1>5. Shown'
  <2>1. Citations' = Citations /\ Whole(material)' = Whole(material)
        /\ Fits(material)' = Fits(material)
    BY <1>1 DEF Citations, Ids, Whole, Fits
  <2> QED  BY <1>1, <1>3, <1>4, <2>1 DEF Shown, Asking
<1>6. Spent'
  BY <1>1, <1>3, <1>4, SpentRequest
<1> QED  BY <1>5, <1>6

\* The next chunk was shown.
LEMMA ShownFacts ==
    ASSUME Shown, Spent, NEW cites \in Citations, Facts(cites), call' \in Call
    PROVE  Shown' /\ Spent'
<1> DEFINE n == Len(facts)
           c == chunks[n + 1]
           first(k) == SubSeq(chunks, 1, k)
           pc == IF n + 1 = Len(chunks) THEN "final" ELSE "extract"
<1>1. /\ call \in Call /\ call.pc = "extract" /\ Asking
      /\ UNCHANGED <<material, chunks, result>>
      /\ facts' = Append(facts, cites)
      /\ shown' = shown \o CharactersOf(c)
      /\ Requested(call, call', 1, pc)
  BY Requests DEF Shown, Facts, Current, Asking
<1>2. /\ n \in Nat /\ Len(chunks) \in Nat /\ n < Len(chunks) /\ chunks \in Seq(Sendable)
  BY <1>1, ChunksTyped DEF Shown
<1>3. facts' \in Seq(Citations) /\ Len(facts') = n + 1
  BY <1>1, AppendProperties DEF Shown
<1>4. \A i \in 1..Len(chunks) : chunks[i] \in Seq(Stretch)
  <2>1. Small \subseteq Stretch
    BY DEF Small
  <2>2. \A i \in 1..Len(chunks) : chunks[i] \in Seq(Small)
    BY <1>2, ElementOfSeq DEF Sendable
  <2> QED  BY <2>1, <2>2, SeqMonotonic
<1>5. n + 1 \in 1..Len(chunks) /\ c \in Seq(Stretch)
  BY <1>2, <1>4
<1>6. shown' = CharactersOf(FlattenSeq(first(n + 1)))
  <2>1. first(n) \in Seq(Seq(Stretch)) /\ chunks \in Seq(Seq(Stretch))
    <3>1. \A i \in 1..n : chunks[i] \in Seq(Stretch)
      BY <1>2, <1>4
    <3>2. first(n) \in Seq(Seq(Stretch))
      BY <1>2, <3>1, SubSeqProperties
    <3>3. chunks \in Seq(Seq(Stretch))
      <4>1. chunks \in [1..Len(chunks) -> Seq(Stretch)]
        <5>1. chunks \in [1..Len(chunks) -> Sendable]
          BY <1>2, LenProperties
        <5> QED  BY <1>4, <5>1
      <4> QED  BY <1>2, <4>1, SeqDef
    <3> QED  BY <3>2, <3>3
  <2>2. first(n + 1) = Append(first(n), c)
    <3> DEFINE p == n + 1
    <3>1. p \in 1..Len(chunks) /\ 1 \in 1..Len(chunks) /\ p - 1 = n
      BY <1>2
    <3> HIDE DEF p
    <3>2. first(p) = first(p - 1) \o <<chunks[p]>>
      BY <2>1, <3>1, SubSeqRecursiveSecond
    <3>3. Append(first(n), chunks[p]) = first(n) \o <<chunks[p]>>
      <4>1. chunks[p] \in Seq(Stretch)
        BY <1>4, <3>1
      <4> QED  BY <2>1, <4>1, AppendIsConcat
    <3> QED  BY <3>1, <3>2, <3>3 DEF p
  <2>3. /\ FlattenSeq(Append(first(n), c)) = FlattenSeq(first(n)) \o c
        /\ FlattenSeq(first(n)) \in Seq(Stretch)
    BY <1>5, <2>1, FlattenAppend
  <2>4. CharactersOf(FlattenSeq(first(n)) \o c)
            = CharactersOf(FlattenSeq(first(n))) \o CharactersOf(c)
    BY <1>5, <2>3, CharactersConcat
  <2>5. shown = CharactersOf(FlattenSeq(first(n)))
    BY <1>1 DEF Shown
  <2> QED  BY <1>1, <2>2, <2>3, <2>4, <2>5
<1>7. Citations' = Citations /\ Whole(material)' = Whole(material)
      /\ Fits(material)' = Fits(material)
  BY <1>1 DEF Citations, Ids, Whole, Fits
<1>8. call'.pc = pc /\ pc \in {"extract", "final"} /\ call.pc # "idle"
  BY <1>1 DEF Requested
<1>9. Shown'
  <2>1. /\ call'.pc = "extract" => Len(facts') < Len(chunks')
        /\ call'.pc = "final" => Len(facts') = Len(chunks')
    BY <1>1, <1>2, <1>3, <1>8
  <2>2. shown' = CharactersOf(FlattenSeq(SubSeq(chunks', 1, Len(facts'))))
    BY <1>1, <1>3, <1>6
  <2>3. /\ material' \in Seq(Entry)
        /\ chunks' = IF Fits(material') THEN <<>> ELSE Chunks(material')
    BY <1>1, <1>8 DEF Shown
  <2> HIDE DEF pc
  <2> QED  BY <1>3, <1>7, <1>8, <2>1, <2>2, <2>3 DEF Shown, Asking
<1>10. Spent'
  <2> HIDE DEF pc
  <2> QED  BY <1>1, <1>3, <1>8, SpentRequest
<1> QED  BY <1>9, <1>10

\* The result was given.
LEMMA ShownResult ==
    ASSUME Shown, Spent, NEW cites \in Citations, Result(cites), call' \in Call
    PROVE  Shown' /\ Spent'
<1>1. /\ call \in Call /\ call.pc = "final" /\ Asking
      /\ UNCHANGED <<material, chunks, facts>>
      /\ shown' = IF chunks = <<>> THEN CharactersOf(Whole(material)) ELSE shown
      /\ Requested(call, call', call.try, "succeeded")
  BY Requests DEF Shown, Result, Asking
<1>2. Citations' = Citations /\ Whole(material)' = Whole(material)
      /\ Fits(material)' = Fits(material)
  BY <1>1 DEF Citations, Ids, Whole, Fits
<1>3. shown' = CharactersOf(Whole(material))
  <2>1. CASE chunks = <<>>
    BY <1>1, <2>1
  <2>2. CASE chunks # <<>>
    <3>1. shown = CharactersOf(FlattenSeq(SubSeq(chunks, 1, Len(chunks))))
      BY <1>1 DEF Shown
    <3>2. SubSeq(chunks, 1, Len(chunks)) = chunks
      BY ChunksTyped, SubSeqFull
    <3> QED  BY <1>1, <2>2, <3>1, <3>2, ChunksTyped
  <2> QED  BY <2>1, <2>2
<1>4. call'.pc = "succeeded"
  BY <1>1 DEF Requested
<1>5. Shown'
  BY <1>1, <1>2, <1>3, <1>4 DEF Shown, Asking
<1>6. Spent'
  BY <1>1, <1>4, SpentRequest
<1> QED  BY <1>5, <1>6

\* Every step keeps what was shown and spent.
LEMMA ShownNext ==
    ASSUME Shown, Spent, [ProviderNext]_providerVars, call' \in Call
    PROVE  Shown' /\ Spent'
<1>1. CASE UNCHANGED providerVars
  <2>1. UNCHANGED <<material, chunks, call, shown, facts, result>>
    BY <1>1 DEF providerVars
  <2>2. Citations' = Citations /\ Whole(material)' = Whole(material)
        /\ Fits(material)' = Fits(material)
    BY <2>1 DEF Citations, Ids, Whole, Fits
  <2> QED  BY <2>1, <2>2 DEF Shown, Spent, Asking, Share
<1> QED  BY <1>1, ShownAgain, ShownFruitless, ShownFacts, ShownResult DEF ProviderNext

\* What is sent was cut to fit.
LEMMA SentFits ==
    ASSUME Shown
    PROVE  EverythingShown
<1>1. call.pc = "succeeded" => shown = CharactersOf(Whole(material))
  BY DEF Shown
<1>2. Size(<<>>) <= MaxContext
  <2>1. [id |-> 0, from |-> 0, to |-> 0] \in Slice /\ <<>> \in Seq(Slice)
    BY EmptySeq DEF Slice
  <2>2. Size(<<>>) = 0
    BY <2>1, SizeAppend
  <2> QED  BY <2>2, ContextAssumption
<1>3. CASE call.pc = "extract"
  <2>1. Sent = chunks[Len(facts) + 1]
    BY <1>3 DEF Sent, Current
  <2>2. Len(facts) + 1 \in 1..Len(chunks)
    BY <1>3, ChunksTyped DEF Shown
  <2>3. chunks[Len(facts) + 1] \in Sendable
    BY <2>2, ChunksTyped, ElementOfSeq
  <2>4. Size(Sent) <= MaxContext
    BY <2>1, <2>3 DEF Sendable
  <2> QED  BY <1>1, <2>4 DEF EverythingShown
<1>4. CASE call.pc # "extract" /\ call.kind = "summarize"
  <2>1. CASE call.pc = "final" /\ chunks = <<>>
    <3>1. Sent = Whole(material)
      BY <2>1 DEF Sent
    <3>2. Fits(material)
      BY <2>1, ChunksTyped
    <3> QED  BY <1>1, <3>1, <3>2 DEF EverythingShown, Fits
  <2>2. CASE ~(call.pc = "final" /\ chunks = <<>>)
    <3>1. Sent = <<>>
      BY <1>4, <2>2 DEF Sent
    <3> QED  BY <1>1, <1>2, <3>1 DEF EverythingShown
  <2> QED  BY <2>1, <2>2
<1>5. CASE call.pc # "extract" /\ call.kind # "summarize"
  BY <1>1, <1>5 DEF EverythingShown
<1> QED  BY <1>3, <1>4, <1>5

\* The requests of all attempts.
LEMMA SpentBounded ==
    ASSUME Shown, Spent
    PROVE  RequestsBounded
<1> DEFINE l == Len(chunks)
           u == 2 * (l + 1)
           all == MaxAttempts * u
<1>1. l \in Nat /\ Len(facts) \in Nat /\ call.requests \in Int /\ MaxAttempts \in Nat
      /\ call.pc \in {"idle", "extract", "final", "waiting", "succeeded", "failed"}
  BY ChunksTyped, ContextAssumption DEF Shown, Spent, Call
<1>2. all \in Nat /\ all = MaxAttempts * 2 * (l + 1) /\ u = Share
  BY <1>1 DEF Share
<1>3. ASSUME NEW a \in 1..MaxAttempts
      PROVE  (a - 1) * u \in Nat /\ a * u = (a - 1) * u + 2 * l + 2 /\ a * u <= all
  <2> HIDE DEF l
  <2> QED  BY <1>1, SharesAdd
<1> HIDE DEF all, u
<1>4. call.requests <= all
  <2>1. CASE call.pc = "idle"
    BY <1>2, <2>1 DEF Spent
  <2>2. CASE call.pc \in {"extract", "final"}
    <3>1. /\ call.try \in 1..2 /\ call.attempt \in 1..MaxAttempts
          /\ call.requests <= (call.attempt - 1) * u + 2 * Len(facts) + call.try - 1
          /\ Len(facts) <= l
      BY <1>1, <1>2, <2>2 DEF Spent, Asking, Shown
    <3> DEFINE before == (call.attempt - 1) * u
               upto   == call.attempt * u
    <3>2. before \in Nat /\ upto = before + 2 * l + 2 /\ upto <= all
      BY <1>3, <3>1
    <3> HIDE DEF before, upto, l
    <3>3. call.requests <= before + 2 * Len(facts) + call.try - 1
      BY <3>1 DEF before
    <3> QED  BY <1>1, <1>2, <3>1, <3>2, <3>3
  <2>3. CASE call.pc = "waiting"
    <3>1. call.attempt \in 1..MaxAttempts /\ call.requests <= call.attempt * u
      BY <1>1, <1>2, <2>3 DEF Spent
    <3> DEFINE upto == call.attempt * u
    <3>2. upto \in Int /\ upto <= all /\ call.requests <= upto
      BY <1>1, <1>3, <3>1
    <3> HIDE DEF upto
    <3> QED  BY <1>1, <1>2, <3>2
  <2>4. CASE call.pc \in {"succeeded", "failed"}
    <3>1. call.requests <= MaxAttempts * Share
      BY <2>4 DEF Spent
    <3>2. all = MaxAttempts * Share
      BY <1>2 DEF all
    <3> QED  BY <3>1, <3>2
  <2> QED  BY <1>1, <2>1, <2>2, <2>3, <2>4
<1> QED  BY <1>2, <1>4 DEF RequestsBounded

-----------------------------------------------------------------------------
(* The theorems *)

\* One of the two parts moves, or the segments are handed on.
LEMMA Parted ==
    ASSUME [Next]_vars
    PROVE  /\ [SpeechNext]_speechVars
           /\ \/ [ProviderNext]_providerVars
              \/ \E kind \in {"classify", "summarize"} : \E segs : Ask(kind, segs)
  BY DEF Next, vars, Document

\* For all answers of the models and all lengths, clips of one speaker share no
\* moment, each lies in a segment of that speaker alone, and a speaker is ready
\* exactly with two of them.
THEOREM ClipsAlwaysUsable == Spec => []ClipsUsable
<1>1. Init => SpeechInv
  BY SpeechInitOk DEF Init
<1>2. SpeechInv /\ [Next]_vars => SpeechInv'
  BY SpeechNextOk, Parted
<1>3. SpeechInv => ClipsUsable
  BY ClipsAreUsable
<1> QED  BY <1>1, <1>2, <1>3, PTL DEF Spec

\* For all transcripts and limits, whatever is corrected, refused or tried
\* again: the facts of a chunk cite that chunk, all chunks have theirs before
\* the result is asked for, and the result cites the transcript.
THEOREM EvidenceAlwaysHolds == Spec => []EvidenceHolds
<1>1. Init => EvidenceInv
  BY EvidenceInitOk DEF Init
<1>2. EvidenceInv /\ [Next]_vars => EvidenceInv'
  BY ProviderNextOk, AskOk, Parted
<1>3. EvidenceInv => EvidenceHolds
  BY DEF EvidenceInv
<1> QED  BY <1>1, <1>2, <1>3, PTL DEF Spec

\* For all answers of the models the schema accepts what is made of them.
THEOREM SchemaAccepts == Spec => []SchemaHolds
<1>1. Init => SpeechInv /\ Attribution
  BY SpeechInitOk, AttributionInit DEF Init
<1>2. SpeechInv /\ Attribution /\ [Next]_vars => (SpeechInv /\ Attribution)'
  BY SpeechNextOk, AttributionNext, Parted
<1>3. Attribution => SchemaHolds
  BY DEF Attribution, SchemaHolds
<1> QED  BY <1>1, <1>2, <1>3, PTL DEF Spec

\* For all answers of the models, the speaker of a segment is one nobody talks
\* longer than in it, and the others are those who talk at a time.
THEOREM SpeakersByVoice == Spec => []AttributedByVoice
<1>1. Init => SpeechInv /\ Attribution
  BY SpeechInitOk, AttributionInit DEF Init
<1>2. SpeechInv /\ Attribution /\ [Next]_vars => (SpeechInv /\ Attribution)'
  BY SpeechNextOk, AttributionNext, Parted
<1>3. ASSUME SpeechInv, Attribution PROVE AttributedByVoice
  <2>1. ASSUME NEW i \in DOMAIN transcript PROVE Attributed(transcript[i])
    <3>1. PICK j \in DOMAIN aligned : transcript[i] = Segment(j)
      BY <1>3 DEF Attribution, Worded
    <3> QED  BY <1>3, <3>1, SegmentAttributed DEF Attribution, SpeechInv
  <2> QED  BY <2>1 DEF AttributedByVoice, Attributed
<1> QED  BY <1>1, <1>2, <1>3, PTL DEF Spec

ProviderInv == SpeechInv /\ Attribution /\ EvidenceInv /\ Shown /\ Spent

\* The invariant of the requests.
LEMMA ProviderInvHolds == Spec => []ProviderInv
<1>1. Init => ProviderInv
  BY SpeechInitOk, AttributionInit, EvidenceInitOk, ShownInit DEF Init, ProviderInv
<1>2. ASSUME ProviderInv, [Next]_vars PROVE ProviderInv'
  <2>1. SpeechInv' /\ Attribution' /\ EvidenceInv'
    <3>1. [SpeechNext]_speechVars
      BY <1>2, Parted
    <3>2. SpeechInv' /\ Attribution'
      BY <1>2, <3>1, SpeechNextOk, AttributionNext DEF ProviderInv
    <3>3. EvidenceInv'
      <4>1. EvidenceInv
        BY <1>2 DEF ProviderInv
      <4>2. \/ [ProviderNext]_providerVars
            \/ \E kind \in {"classify", "summarize"} : \E segs : Ask(kind, segs)
        BY <1>2, Parted
      <4> QED  BY <4>1, <4>2, ProviderNextOk, AskOk
    <3> QED  BY <3>2, <3>3
  <2>2. call' \in Call
    BY <2>1 DEF EvidenceInv, CallTyped
  <2>3. ASSUME [ProviderNext]_providerVars PROVE Shown' /\ Spent'
    <3>1. Shown /\ Spent
      BY <1>2 DEF ProviderInv
    <3> QED  BY <2>2, <2>3, <3>1, ShownNext
  <2>4. ASSUME NEW kind \in {"classify", "summarize"}, Document(kind) PROVE Shown' /\ Spent'
    <3>1. PICK segs \in Seq(Entry) : Ask(kind, segs)
      BY <1>2, <2>4, DocumentTyped DEF ProviderInv
    <3> QED  BY <3>1, ShownAsk
  <2>5. [ProviderNext]_providerVars \/ \E kind \in {"classify", "summarize"} : Document(kind)
    BY <1>2 DEF Next, vars
  <2> QED  BY <2>1, <2>3, <2>4, <2>5 DEF ProviderInv
<1> QED  BY <1>1, <1>2, PTL DEF Spec

\* For all transcripts and limits, whatever is corrected or tried again:
\* nothing of a transcript is lost, repeated or taken out of order before the
\* result, and no request but a classification's last one carries more than fits.
THEOREM NothingLost == Spec => []EverythingShown
<1>1. ProviderInv => EverythingShown
  BY SentFits DEF ProviderInv
<1> QED  BY <1>1, ProviderInvHolds, PTL

\* For all transcripts and limits a job asks twice for each chunk and for the
\* result at most, in each of its attempts.
THEOREM RequestsStayBounded == Spec => []RequestsBounded
<1>1. ProviderInv => RequestsBounded
  BY SpentBounded DEF ProviderInv
<1> QED  BY <1>1, ProviderInvHolds, PTL
=============================================================================
