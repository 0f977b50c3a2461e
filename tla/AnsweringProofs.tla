--------------------------- MODULE AnsweringProofs ---------------------------
(***************************************************************************)
(* Theorems about Answering, for any guides, passages, texts, claims and   *)
(* limits: what is read, what is shown, and what the judge saw of it.      *)
(***************************************************************************)
EXTENDS Answering, FiniteSetTheorems, SequenceTheorems, WellFoundedInduction, TLAPS

-----------------------------------------------------------------------------
(* Ranks: how a finite set is put in order.                                *)

LEMMA NatMin ==
  ASSUME NEW T \in SUBSET Nat, T # {}
  PROVE  \E n \in T : \A m \in T : n <= m
<1> DEFINE R == OpToRel(<, Nat)
<1>1. IsWellFoundedOn(R, Nat) BY NatLessThanWellFounded
<1>2. \A m, n \in Nat : m < n => <<m, n>> \in R BY DEF OpToRel
<1> HIDE DEF R
<1>3. PICK n \in T : \A m \in T : ~ (<<m, n>> \in R) BY <1>1, WFMin, Zenon
<1>4. \A m \in T : ~ (m < n) BY <1>2, <1>3
<1>5. QED BY <1>4, SMT

(* The elements of S above a; its rank is how many they are.               *)
Higher(S, v, a) == {b \in S : v[b] > v[a]}

LEMMA HigherFacts ==
  ASSUME NEW S, IsFiniteSet(S), NEW v \in [S -> Int], NEW a \in S
  PROVE  /\ IsFiniteSet(Higher(S, v, a)) /\ Cardinality(Higher(S, v, a)) \in Nat
         /\ Cardinality(Higher(S, v, a)) < Cardinality(S)
         /\ \A b \in S : v[a] >= v[b] =>
              Cardinality(Higher(S, v, a)) <= Cardinality(Higher(S, v, b))
         /\ \A b \in S : v[a] > v[b] =>
              Cardinality(Higher(S, v, a)) < Cardinality(Higher(S, v, b))
<1>1. \A b \in S : /\ IsFiniteSet(Higher(S, v, b)) /\ Cardinality(Higher(S, v, b)) \in Nat
  BY FS_Subset, FS_CardinalityType DEF Higher
<1>2. ~ (v[a] > v[a]) OBVIOUS
<1>3. /\ IsFiniteSet(Higher(S, v, a) \cup {a})
      /\ Cardinality(Higher(S, v, a) \cup {a}) = Cardinality(Higher(S, v, a)) + 1
  BY <1>1, <1>2, FS_AddElement DEF Higher
<1>4. Higher(S, v, a) \cup {a} \subseteq S BY DEF Higher
<1>5. Cardinality(Higher(S, v, a)) + 1 <= Cardinality(S) BY <1>3, <1>4, FS_Subset
<1>6. Cardinality(S) \in Nat BY FS_CardinalityType
<1>7. ASSUME NEW b \in S, v[a] >= v[b]
      PROVE  Cardinality(Higher(S, v, a)) <= Cardinality(Higher(S, v, b))
  <2>1. Higher(S, v, a) \subseteq Higher(S, v, b) BY <1>7 DEF Higher
  <2>2. QED BY <1>1, <2>1, FS_Subset
<1>8. ASSUME NEW b \in S, v[a] > v[b]
      PROVE  Cardinality(Higher(S, v, a)) < Cardinality(Higher(S, v, b))
  <2>1. Higher(S, v, a) \cup {a} \subseteq Higher(S, v, b) BY <1>8 DEF Higher
  <2>2. Cardinality(Higher(S, v, a)) + 1 <= Cardinality(Higher(S, v, b))
    BY <1>1, <1>3, <2>1, FS_Subset
  <2>3. QED BY <1>1, <2>2
<1>9. QED BY <1>1, <1>5, <1>6, <1>7, <1>8

Rank(S, v) == [a \in S |-> Cardinality(Higher(S, v, a)) + 1]

LEMMA Ranking ==
  ASSUME NEW S, IsFiniteSet(S), NEW v \in [S -> Int], \A a, b \in S : v[a] = v[b] => a = b
  PROVE  /\ Rank(S, v) \in Bijection(S, 1 .. Cardinality(S))
         /\ \A a, b \in S : v[a] > v[b] <=> Rank(S, v)[a] < Rank(S, v)[b]
<1>1. \A a \in S : Cardinality(Higher(S, v, a)) \in Nat /\ Cardinality(Higher(S, v, a)) < Cardinality(S)
  BY HigherFacts
<1>2. \A a, b \in S : v[a] > v[b] => Cardinality(Higher(S, v, a)) < Cardinality(Higher(S, v, b))
  BY HigherFacts
<1>3. Cardinality(S) \in Nat BY FS_CardinalityType
<1>4. Rank(S, v) \in [S -> 1 .. Cardinality(S)] BY <1>1, <1>3 DEF Rank
<1>5. \A a, b \in S : v[a] > v[b] => Rank(S, v)[a] < Rank(S, v)[b] BY <1>1, <1>2 DEF Rank
<1>6. \A a, b \in S : v[a] > v[b] \/ v[b] > v[a] \/ a = b OBVIOUS
<1>7. \A a, b \in S : v[a] > v[b] <=> Rank(S, v)[a] < Rank(S, v)[b] BY <1>4, <1>5, <1>6
<1>8. Rank(S, v) \in Injection(S, 1 .. Cardinality(S))
  BY <1>4, <1>5, <1>6 DEF Injection, IsInjective
<1>9. IsFiniteSet(1 .. Cardinality(S)) /\ Cardinality(1 .. Cardinality(S)) = Cardinality(S)
  BY <1>3, FS_Interval
<1>10. Rank(S, v) \in Surjection(S, 1 .. Cardinality(S)) BY <1>8, <1>9, FS_Injection
<1>11. QED BY <1>7, <1>8, <1>10 DEF Bijection

Best(S, v, n) == {a \in S : Cardinality(Higher(S, v, a)) < n}

(* The n best of a set are n, or all of it.                                *)
LEMMA BestOf ==
  ASSUME NEW S, IsFiniteSet(S), NEW v \in [S -> Int], \A a, b \in S : v[a] = v[b] => a = b,
         NEW n \in Nat
  PROVE  /\ IsFiniteSet(Best(S, v, n)) /\ Cardinality(Best(S, v, n)) <= n
         /\ n <= Cardinality(S) => Cardinality(Best(S, v, n)) = n
<1> DEFINE T == {a \in S : Cardinality(Higher(S, v, a)) < n}
           r == Rank(S, v)
           c == Cardinality(S)
           m == IF n <= c THEN n ELSE c
           f == [a \in T |-> r[a]]
<1>1. r \in Bijection(S, 1 .. c) BY Ranking
<1>2. \A a \in S : Cardinality(Higher(S, v, a)) \in Nat /\ r[a] = Cardinality(Higher(S, v, a)) + 1
  BY HigherFacts DEF Rank
<1>3. c \in Nat /\ m \in Nat /\ m <= n /\ m <= c BY FS_CardinalityType
<1> HIDE DEF r, c, m
<1>4. \A a \in S : r[a] \in 1 .. c BY <1>1 DEF Bijection, Surjection
<1>5. \A a \in S : a \in T <=> r[a] \in 1 .. m BY <1>2, <1>3, <1>4 DEF m
<1>6. f \in Bijection(T, 1 .. m)
  <2>1. f \in [T -> 1 .. m] BY <1>5
  <2>2. \A a, b \in T : f[a] = f[b] => a = b BY <1>1 DEF Bijection, Injection, IsInjective
  <2>3. ASSUME NEW k \in 1 .. m PROVE \E a \in T : f[a] = k
    <3>1. k \in 1 .. c BY <1>3
    <3>2. PICK a \in S : r[a] = k BY <1>1, <3>1 DEF Bijection, Surjection
    <3>3. QED BY <1>5, <3>2
  <2>4. QED BY <2>1, <2>2, <2>3 DEF Bijection, Injection, Surjection, IsInjective
<1>7. IsFiniteSet(T) BY FS_Subset
<1>8. Cardinality(T) = m
  <2>1. IsFiniteSet(1 .. m) /\ Cardinality(1 .. m) = m BY <1>3, FS_Interval
  <2>2. ExistsBijection(T, 1 .. m) BY <1>6 DEF ExistsBijection
  <2>3. QED BY <1>7, <2>1, <2>2, FS_Bijection
<1>9. QED BY <1>3, <1>7, <1>8 DEF c, m, Best

-----------------------------------------------------------------------------
(* Picks: the positions are enumerated in order.                           *)

Below(K, i) == {k \in K : k < i}

LEMMA Enumerated ==
  ASSUME NEW N \in Nat, NEW K \in SUBSET (1 .. N)
  PROVE  /\ IsFiniteSet(K) /\ Cardinality(K) \in Nat
         /\ \A n \in 1 .. Cardinality(K) :
              Nth(K, n) \in K /\ Cardinality(Below(K, Nth(K, n))) = n - 1
         /\ \A i \in K : \E n \in 1 .. Cardinality(K) : Nth(K, n) = i
         /\ \A m, n \in 1 .. Cardinality(K) : m < n <=> Nth(K, m) < Nth(K, n)
<1> DEFINE v == [i \in K |-> - i]
           r == Rank(K, v)
           c == Cardinality(K)
<1>1. IsFiniteSet(K)
  <2>1. IsFiniteSet(1 .. N) BY FS_Interval
  <2>2. QED BY <2>1, FS_Subset
<1>2. v \in [K -> Int] /\ \A a, b \in K : v[a] = v[b] => a = b OBVIOUS
<1>3. r \in Bijection(K, 1 .. c) /\ \A a, b \in K : v[a] > v[b] <=> r[a] < r[b]
  BY <1>1, <1>2, Ranking
<1>4. \A i \in K : Higher(K, v, i) = Below(K, i)
  <2>1. \A i, k \in K : v[k] > v[i] <=> k < i OBVIOUS
  <2>2. QED BY <2>1, Zenon DEF Higher, Below
<1>5. \A i \in K : Cardinality(Below(K, i)) \in Nat /\ r[i] = Cardinality(Below(K, i)) + 1
  BY <1>1, <1>2, <1>4, HigherFacts DEF Rank
<1>6. c \in Nat BY <1>1, FS_CardinalityType
<1>7. \A a, b \in K : a < b <=> r[a] < r[b] BY <1>3
<1> HIDE DEF r, v, c
<1>8. \A i \in K : r[i] \in 1 .. c BY <1>3 DEF Bijection, Surjection
<1>9. ASSUME NEW n \in 1 .. c
      PROVE  Nth(K, n) \in K /\ Cardinality(Below(K, Nth(K, n))) = n - 1 /\ r[Nth(K, n)] = n
  <2>1. PICK i \in K : r[i] = n BY <1>3 DEF Bijection, Surjection
  <2>2. Cardinality(Below(K, i)) = n - 1 BY <1>5, <2>1
  <2>3. Nth(K, n) \in K /\ Cardinality(Below(K, Nth(K, n))) = n - 1
    BY <2>2 DEF Nth, Below
  <2>4. PICK k \in K : k = Nth(K, n) BY <2>3
  <2>5. Cardinality(Below(K, k)) = n - 1 /\ r[k] = Cardinality(Below(K, k)) + 1 BY <1>5, <2>3, <2>4
  <2>6. r[k] = n BY <2>5
  <2>7. QED BY <2>3, <2>4, <2>6
<1>10. ASSUME NEW i \in K PROVE \E n \in 1 .. c : Nth(K, n) = i
  <2>1. r[i] \in 1 .. c BY <1>8
  <2>2. Nth(K, r[i]) \in K /\ r[Nth(K, r[i])] = r[i] BY <1>9, <2>1
  <2>3. Nth(K, r[i]) = i BY <1>3, <2>2 DEF Bijection, Injection, IsInjective
  <2>4. QED BY <2>1, <2>3
<1>11. ASSUME NEW m \in 1 .. c, NEW n \in 1 .. c PROVE m < n <=> Nth(K, m) < Nth(K, n)
  <2>1. PICK a \in K, b \in K : a = Nth(K, m) /\ r[a] = m /\ b = Nth(K, n) /\ r[b] = n BY <1>9
  <2>2. QED BY <1>7, <2>1
<1>12. QED BY <1>1, <1>6, <1>9, <1>10, <1>11 DEF c

(* A pick has the items of the positions, and no others.                   *)
LEMMA PickedIs ==
  ASSUME NEW N \in Nat, NEW K \in SUBSET (1 .. N), NEW s
  PROVE  /\ DOMAIN Picked(s, K) = 1 .. Cardinality(K)
         /\ \A n \in 1 .. Cardinality(K) : Picked(s, K)[n] = s[Nth(K, n)]
BY DEF Picked

ItemsAt(s, K) == {s[i] : i \in K}

LEMMA PickedItems ==
  ASSUME NEW N \in Nat, NEW K \in SUBSET (1 .. N), NEW s
  PROVE  ToSet(Picked(s, K)) = ItemsAt(s, K)
<1> DEFINE c == Cardinality(K)
           p == Picked(s, K)
<1>1. /\ c \in Nat
      /\ \A n \in 1 .. c : Nth(K, n) \in K
      /\ \A i \in K : \E n \in 1 .. c : Nth(K, n) = i
  BY Enumerated
<1> HIDE DEF c
<1>2. p = [n \in 1 .. c |-> s[Nth(K, n)]] BY DEF Picked, c
<1> HIDE DEF p
<1>3. ToSet(p) = ItemsAt(s, K) BY <1>1, <1>2 DEF ToSet, ItemsAt
<1>4. QED BY <1>3 DEF p

LEMMA PickedTyped ==
  ASSUME NEW S, NEW N \in Nat, NEW K \in SUBSET (1 .. N), NEW s, \A i \in K : s[i] \in S
  PROVE  Picked(s, K) \in Seq(S) /\ Len(Picked(s, K)) = Cardinality(K)
<1> DEFINE c == Cardinality(K)
<1>1. c \in Nat /\ \A n \in 1 .. c : Nth(K, n) \in K BY Enumerated
<1>2. Picked(s, K) = [n \in 1 .. c |-> s[Nth(K, n)]] BY DEF Picked
<1> HIDE DEF c
<1>3. Picked(s, K) \in [1 .. c -> S] BY <1>1, <1>2
<1>4. Picked(s, K) \in Seq(S) /\ Len(Picked(s, K)) = c BY <1>1, <1>3
<1>5. QED BY <1>4 DEF c

(* Picking every position changes nothing.                                 *)
LEMMA PickedAll ==
  ASSUME NEW S, NEW s \in Seq(S)
  PROVE  Picked(s, DOMAIN s) = s
<1> DEFINE N == Len(s)
<1>1. N \in Nat /\ DOMAIN s = 1 .. N OBVIOUS
<1>2. Cardinality(1 .. N) = N BY <1>1, FS_Interval
<1>3. ASSUME NEW n \in 1 .. N PROVE Nth(1 .. N, n) = n
  <2>1. PICK i \in 1 .. N : i = Nth(1 .. N, n) /\ Cardinality(Below(1 .. N, i)) = n - 1
    BY <1>1, <1>2, Enumerated
  <2>2. Below(1 .. N, i) = 1 .. i - 1 BY <1>1 DEF Below
  <2>3. Cardinality(1 .. i - 1) = i - 1 BY <1>1, FS_Interval
  <2>4. QED BY <1>1, <2>1, <2>2, <2>3
<1>4. Picked(s, 1 .. N) = [n \in 1 .. N |-> s[n]] BY <1>2, <1>3 DEF Picked
<1>5. QED BY <1>1, <1>4

-----------------------------------------------------------------------------
(* Texts.                                                                  *)

Distinct(s, S) == \A i, j \in DOMAIN s : s[i] \in S /\ s[i] = s[j] => i = j

LEMMA OnlyFacts ==
  ASSUME NEW A, NEW s \in Seq(A), NEW S
  PROVE  /\ Only(s, S) \in Seq(A \cap S) /\ ToSet(Only(s, S)) = ToSet(s) \cap S
         /\ Distinct(s, S) => IsInjective(Only(s, S))
<1> DEFINE N == Len(s)
           K == {i \in DOMAIN s : s[i] \in S}
<1>1. N \in Nat /\ DOMAIN s = 1 .. N /\ K \in SUBSET (1 .. N) /\ \A i \in K : s[i] \in A \cap S
  OBVIOUS
<1>2. Only(s, S) = Picked(s, K) BY DEF Only
<1>3. \A i \in 1 .. N : i \in K <=> s[i] \in S BY <1>1
<1> HIDE DEF N, K
<1>4. Picked(s, K) \in Seq(A \cap S) BY <1>1, PickedTyped
<1>5. /\ DOMAIN Picked(s, K) = 1 .. Cardinality(K) /\ Cardinality(K) \in Nat
      /\ \A n \in 1 .. Cardinality(K) : Nth(K, n) \in K /\ Picked(s, K)[n] = s[Nth(K, n)]
      /\ \A m, n \in 1 .. Cardinality(K) : m < n <=> Nth(K, m) < Nth(K, n)
      /\ ToSet(Picked(s, K)) = ItemsAt(s, K)
  <2>1. N \in Nat /\ K \in SUBSET (1 .. N) BY <1>1
  <2>2. /\ DOMAIN Picked(s, K) = 1 .. Cardinality(K)
        /\ \A n \in 1 .. Cardinality(K) : Picked(s, K)[n] = s[Nth(K, n)]
    BY <2>1, PickedIs, Zenon
  <2>3. ToSet(Picked(s, K)) = ItemsAt(s, K) BY <2>1, PickedItems, Zenon
  <2>4. QED BY <2>1, <2>2, <2>3, Enumerated
<1>6. ToSet(Picked(s, K)) = ToSet(s) \cap S BY <1>1, <1>3, <1>5 DEF ToSet, ItemsAt
<1>7. ASSUME Distinct(s, S) PROVE IsInjective(Picked(s, K))
  <2>1. SUFFICES ASSUME NEW m \in 1 .. Cardinality(K), NEW n \in 1 .. Cardinality(K),
                        Picked(s, K)[m] = Picked(s, K)[n]
                 PROVE  m = n
    BY <1>5 DEF IsInjective
  <2>2. Nth(K, m) = Nth(K, n) BY <1>1, <1>3, <1>5, <1>7, <2>1 DEF Distinct
  <2>3. PICK k \in K : k = Nth(K, m) BY <1>5
  <2>4. ~ (k < k) BY <1>1
  <2>5. ~ (m < n) /\ ~ (n < m) BY <1>5, <2>2, <2>3, <2>4
  <2>6. QED BY <1>5, <2>5
<1>8. QED BY <1>2, <1>5, <1>6, <1>7, <1>4

LEMMA WithoutFacts ==
  ASSUME NEW A, NEW s \in Seq(A), NEW S
  PROVE  /\ Without(s, S) \in Seq(A) /\ ToSet(Without(s, S)) = ToSet(s) \ S
         /\ ToSet(s) \cap S = {} => Without(s, S) = s
<1> DEFINE N == Len(s)
           K == {i \in DOMAIN s : s[i] \notin S}
<1>1. N \in Nat /\ DOMAIN s = 1 .. N /\ K \in SUBSET (1 .. N) /\ \A i \in K : s[i] \in A
  OBVIOUS
<1>2. Without(s, S) = Picked(s, K) BY DEF Without
<1>3. \A i \in 1 .. N : i \in K <=> s[i] \notin S BY <1>1
<1> HIDE DEF N, K
<1>4. Picked(s, K) \in Seq(A) BY <1>1, PickedTyped
<1>5. ToSet(Picked(s, K)) = ToSet(s) \ S
  <2>1. ToSet(Picked(s, K)) = ItemsAt(s, K)
    <3>1. N \in Nat /\ K \in SUBSET (1 .. N) BY <1>1
    <3>2. QED BY <3>1, PickedItems, Zenon
  <2>2. QED BY <1>1, <1>3, <2>1 DEF ToSet, ItemsAt
<1>6. ASSUME ToSet(s) \cap S = {} PROVE Picked(s, K) = s
  <2>1. K = DOMAIN s BY <1>1, <1>3, <1>6 DEF ToSet
  <2>2. QED BY <2>1, PickedAll
<1>7. QED BY <1>2, <1>4, <1>5, <1>6

(* Signing every image leaves the text as it is; a stripped one has none.  *)
LEMMA Presented ==
  ASSUME NEW text \in Seq(Tokens)
  PROVE  /\ PresignMarkers(text, ToSet(ImagesIn(text))) = text
         /\ Strip(text) \in Seq(Tokens) /\ Strip(Strip(text)) = Strip(text)
         /\ ToSet(Strip(text)) \subseteq ToSet(text)
         /\ Prose(text) # <<>> => Prose(Strip(text)) # <<>>
<1>1. ToSet(ImagesIn(text)) = ToSet(text) \cap Markers BY OnlyFacts DEF ImagesIn
<1>2. PresignMarkers(text, ToSet(ImagesIn(text))) = text BY <1>1, WithoutFacts DEF PresignMarkers
<1>3. Strip(text) \in Seq(Tokens) /\ ToSet(Strip(text)) = ToSet(text) \ Markers
  BY WithoutFacts DEF Strip
<1>4. Strip(Strip(text)) = Strip(text) BY <1>3, WithoutFacts DEF Strip
<1>5. ASSUME NEW t \in Seq(Tokens) PROVE Prose(t) # <<>> <=> ToSet(t) \cap Spans # {}
  <2>1. Prose(t) \in Seq(Tokens \cap Spans) /\ ToSet(Prose(t)) = ToSet(t) \cap Spans
    BY OnlyFacts DEF Prose
  <2>2. Prose(t) # <<>> <=> ToSet(Prose(t)) # {} BY <2>1 DEF ToSet
  <2>3. QED BY <2>1, <2>2
<1>6. Prose(text) # <<>> => Prose(Strip(text)) # <<>> BY <1>3, <1>5, ReplyConstants
<1>7. QED BY <1>2, <1>3, <1>4, <1>6

LEMMA FirstAtFacts ==
  ASSUME NEW A, NEW s \in Seq(A), NEW k \in ToSet(s)
  PROVE  /\ FirstAt(s, k) \in 1 .. Len(s) /\ s[FirstAt(s, k)] = k
         /\ \A j \in 1 .. FirstAt(s, k) - 1 : s[j] # k
<1> DEFINE T == {i \in 1 .. Len(s) : s[i] = k}
<1>1. T \in SUBSET Nat /\ T # {} BY DEF ToSet
<1>2. PICK i \in T : \A j \in T : i <= j BY <1>1, NatMin
<1>3. /\ i \in DOMAIN s /\ s[i] = k /\ \A j \in 1 .. i - 1 : s[j] # k
  BY <1>2
<1>4. FirstAt(s, k) \in DOMAIN s /\ s[FirstAt(s, k)] = k /\ \A j \in 1 .. FirstAt(s, k) - 1 : s[j] # k
  BY <1>3 DEF FirstAt
<1>5. QED BY <1>4

LEMMA ItemsAreFinite ==
  ASSUME NEW A, NEW s \in Seq(A)
  PROVE  IsFiniteSet(ToSet(s))
<1>1. Len(s) \in Nat /\ IsFiniteSet(1 .. Len(s)) BY FS_Interval
<1>2. s \in Surjection(1 .. Len(s), ToSet(s)) BY <1>1 DEF Surjection, ToSet
<1>3. QED BY <1>1, <1>2, FS_Surjection

(* At most MaxImages are kept, and only offered ones.                      *)
LEMMA KeptFacts ==
  ASSUME NEW text \in Seq(Tokens), NEW offered
  PROVE  /\ KeptImages(text, offered) \subseteq ToSet(text) \cap Markers
         /\ \A m \in KeptImages(text, offered) : FileOf[m] \in offered
         /\ IsFiniteSet(KeptImages(text, offered))
         /\ Cardinality(KeptImages(text, offered)) <= MaxImages
<1> DEFINE pool == {m \in ToSet(text) \cap Markers : FileOf[m] \in offered}
           L == Len(text)
           v == [m \in pool |-> IF m \in Screens THEN L - FirstAt(text, m)
                                ELSE - FirstAt(text, m)]
           kept == {m \in pool : Cardinality({n \in pool : Ahead(text, n, m)}) < MaxImages}
<1>1. KeptImages(text, offered) = kept BY DEF KeptImages
<1>2. IsFiniteSet(pool) BY ItemsAreFinite, FS_Subset
<1>3. \A m \in pool : FirstAt(text, m) \in 1 .. L /\ text[FirstAt(text, m)] = m BY FirstAtFacts
<1>4. L \in Nat OBVIOUS
<1>5. v \in [pool -> Int] BY <1>3, <1>4
<1>6. \A m, n \in pool : v[n] > v[m] <=> Ahead(text, n, m) BY <1>3, <1>4 DEF Ahead
<1>7. \A m, n \in pool : v[m] = v[n] => m = n
  <2>1. SUFFICES ASSUME NEW m \in pool, NEW n \in pool, v[m] = v[n] PROVE FirstAt(text, m) = FirstAt(text, n)
    BY <1>3
  <2>2. PICK i \in 1 .. L, j \in 1 .. L : i = FirstAt(text, m) /\ j = FirstAt(text, n) BY <1>3
  <2>3. i = j BY <1>4, <2>1, <2>2
  <2>4. QED BY <2>2, <2>3
<1>8. \A m \in pool : Higher(pool, v, m) = {n \in pool : Ahead(text, n, m)} BY <1>6 DEF Higher
<1>9. kept = Best(pool, v, MaxImages) BY <1>8 DEF Best
<1>10. kept \subseteq ToSet(text) \cap Markers /\ \A m \in kept : FileOf[m] \in offered OBVIOUS
<1> HIDE DEF pool, v, kept
<1>11. IsFiniteSet(kept) /\ Cardinality(kept) <= MaxImages
  BY <1>2, <1>5, <1>7, <1>9, BestOf, ReplyConstants
<1>12. QED BY <1>1, <1>10, <1>11

(* What select leaves: offered images, each once, and not too many.        *)
LEMMA Selected ==
  ASSUME NEW text \in Seq(Tokens), NEW offered
  PROVE  /\ SelectImages(text, offered) \in Seq(Tokens)
         /\ IsInjective(ImagesIn(SelectImages(text, offered)))
         /\ Len(ImagesIn(SelectImages(text, offered))) <= MaxImages
         /\ \A m \in ToSet(ImagesIn(SelectImages(text, offered))) : m \in Markers /\ FileOf[m] \in offered
<1> DEFINE kept == KeptImages(text, offered)
           N == Len(text)
           K == {i \in DOMAIN text :
                   text[i] \in Markers => text[i] \in kept /\ FirstAt(text, text[i]) = i}
           c == Cardinality(K)
           p == Picked(text, K)
<1>1. SelectImages(text, offered) = p BY DEF SelectImages
<1>2. N \in Nat /\ DOMAIN text = 1 .. N /\ K \in SUBSET (1 .. N) /\ \A i \in K : text[i] \in Tokens
  OBVIOUS
<1>3. \A i \in K : text[i] \in Markers => text[i] \in kept /\ FirstAt(text, text[i]) = i OBVIOUS
<1> HIDE DEF kept, N, K, p, c
<1>4. p \in Seq(Tokens) BY <1>2, PickedTyped DEF p
<1>5. /\ c \in Nat /\ DOMAIN p = 1 .. c
      /\ \A n \in 1 .. c : Nth(K, n) \in K /\ p[n] = text[Nth(K, n)]
      /\ \A m, n \in 1 .. c : m < n <=> Nth(K, m) < Nth(K, n)
      /\ ToSet(p) = ItemsAt(text, K)
  <2>1. N \in Nat /\ K \in SUBSET (1 .. N) BY <1>2
  <2>2. \A n \in 1 .. Cardinality(K) : Picked(text, K)[n] = text[Nth(K, n)]
    BY <2>1, PickedIs, Zenon
  <2>3. DOMAIN Picked(text, K) = 1 .. Cardinality(K) BY <2>1, PickedIs, Zenon
  <2>4. ToSet(Picked(text, K)) = ItemsAt(text, K) BY <2>1, PickedItems, Zenon
  <2>5. QED BY <2>1, <2>2, <2>3, <2>4, Enumerated DEF c, p
<1>6. Distinct(p, Markers)
  <2>1. SUFFICES ASSUME NEW m \in 1 .. c, NEW n \in 1 .. c, p[m] \in Markers, p[m] = p[n]
                 PROVE  m = n
    BY <1>5, Zenon DEF Distinct
  <2>2. Nth(K, m) = Nth(K, n) BY <1>3, <1>5, <2>1
  <2>3. PICK k \in K : k = Nth(K, m) BY <1>5
  <2>4. ~ (k < k) BY <1>2
  <2>5. ~ (m < n) /\ ~ (n < m) BY <1>5, <2>2, <2>3, <2>4
  <2>6. QED BY <1>5, <2>5
<1>7. /\ ImagesIn(p) \in Seq(Tokens \cap Markers) /\ ToSet(ImagesIn(p)) = ToSet(p) \cap Markers
      /\ IsInjective(ImagesIn(p))
  BY <1>5, <1>6, <1>4, OnlyFacts DEF ImagesIn
<1>8. ToSet(ImagesIn(p)) \subseteq kept BY <1>3, <1>5, <1>7 DEF ItemsAt
<1>9. /\ kept \subseteq Markers /\ IsFiniteSet(kept) /\ Cardinality(kept) <= MaxImages
      /\ \A m \in kept : FileOf[m] \in offered
  BY KeptFacts DEF kept
<1>10. Len(ImagesIn(p)) <= MaxImages
  <2> DEFINE q == ImagesIn(p)
  <2> HIDE DEF q
  <2>1. Len(q) \in Nat /\ DOMAIN q = 1 .. Len(q) BY <1>7 DEF q
  <2>2. q \in Injection(1 .. Len(q), kept) BY <1>7, <1>8, <2>1 DEF q, Injection, ToSet
  <2>3. Cardinality(1 .. Len(q)) = Len(q)
    <3>1. PICK k \in Nat : k = Len(q) BY <2>1
    <3>2. Cardinality(1 .. k) = k BY FS_Interval
    <3>3. QED BY <3>1, <3>2
  <2>4. Len(q) <= Cardinality(kept) BY <1>9, <2>2, <2>3, FS_Injection
  <2>5. Cardinality(kept) \in Nat BY <1>9, FS_CardinalityType
  <2>6. QED BY <1>9, <2>1, <2>4, <2>5, ReplyConstants DEF q
<1>11. QED BY <1>1, <1>4, <1>7, <1>8, <1>9, <1>10

-----------------------------------------------------------------------------
(* Sources: the rows shown are of declared guides, and no two are equal.   *)

Backs(read, citations) ==
  /\ IsInjective(citations)
  /\ \A i \in DOMAIN citations : \E c \in ToSet(read) :
       /\ DocOf[c] # NoDoc
       /\ AppOf[c] = citations[i].application
       /\ citations[i].section \in Headings[c] \cup {NoSection}

LEMMA CitationFacts ==
  ASSUME NEW cited, cited \in Seq(ToSet(cited)), NEW read \in Seq(Chunks), NEW withQA \in BOOLEAN
  PROVE  /\ Backs(read, SelectCitations(cited, read, withQA))
         /\ SelectCitations(cited, read, withQA) # <<>> => CitesAPassage(cited, read, withQA)
<1> DEFINE N == Len(cited)
           I == {i \in DOMAIN cited : Shown(cited[i], read, withQA)}
           row == [i \in I |-> RowOf(cited[i], read)]
           K == {i \in I : \A j \in I : j < i => row[j] # row[i]}
           rows == Picked(row, K)
           c == Cardinality(K)
<1>1. SelectCitations(cited, read, withQA) = rows BY DEF SelectCitations
<1>2. N \in Nat /\ DOMAIN cited = 1 .. N /\ K \in SUBSET (1 .. N) /\ K \subseteq I OBVIOUS
<1>3. \A i, j \in K : row[i] = row[j] => i = j
  <2>1. \A i, j \in K : ~ (i < j /\ row[i] = row[j]) BY <1>2
  <2>2. \A i, j \in K : i < j \/ j < i \/ i = j BY <1>2
  <2>3. QED BY <2>1, <2>2
<1>4. ASSUME NEW i \in I
      PROVE  /\ cited[i].id \in Catalog(read, withQA) \ {Process}
             /\ \E k \in ToSet(read) : /\ DocOf[k] # NoDoc
                                       /\ AppOf[k] = row[i].application
                                       /\ row[i].section \in Headings[k] \cup {NoSection}
  <2> DEFINE d == cited[i].id
             k == read[d]
  <2>1. d \in Catalog(read, withQA) /\ d \in DOMAIN read BY DEF Shown
  <2>2. d \in 1 .. Len(read) /\ Len(read) \in Nat BY <2>1
  <2>3. d # 0 /\ d # -1 BY <2>2
  <2>4. k \in ToSet(read) /\ DocOf[k] # NoDoc BY <2>1, <2>3 DEF Catalog, Process, QA, ToSet
  <2>5. row[i] = [section |-> MatchSection(cited[i].section, k), application |-> AppOf[k]]
    BY DEF RowOf
  <2>6. MatchSection(cited[i].section, k) \in Headings[k] \cup {NoSection} BY DEF MatchSection
  <2>7. QED BY <2>1, <2>3, <2>4, <2>5, <2>6 DEF Process
<1> HIDE DEF I, row, K, rows, c, N
<1>5. /\ DOMAIN rows = 1 .. c /\ c \in Nat
      /\ \A n \in 1 .. c : Nth(K, n) \in K /\ rows[n] = row[Nth(K, n)]
      /\ \A m, n \in 1 .. c : m < n <=> Nth(K, m) < Nth(K, n)
  <2>1. N \in Nat /\ K \in SUBSET (1 .. N) BY <1>2
  <2>2. \A n \in 1 .. Cardinality(K) : Picked(row, K)[n] = row[Nth(K, n)] BY <2>1, PickedIs, Zenon
  <2>3. DOMAIN Picked(row, K) = 1 .. Cardinality(K) BY <2>1, PickedIs, Zenon
  <2>4. QED BY <2>1, <2>2, <2>3, Enumerated DEF rows, c
<1>6. IsInjective(rows)
  <2>1. SUFFICES ASSUME NEW m \in 1 .. c, NEW n \in 1 .. c, rows[m] = rows[n] PROVE m = n
    BY <1>5, Zenon DEF IsInjective
  <2>2. Nth(K, m) = Nth(K, n) BY <1>3, <1>5, <2>1
  <2>3. PICK k \in K : k = Nth(K, m) BY <1>5
  <2>4. ~ (k < k) BY <1>2
  <2>5. ~ (m < n) /\ ~ (n < m) BY <1>5, <2>2, <2>3, <2>4
  <2>6. QED BY <1>5, <2>5
<1>7. ASSUME NEW n \in DOMAIN rows
      PROVE  \E k \in ToSet(read) : /\ DocOf[k] # NoDoc
                                    /\ AppOf[k] = rows[n].application
                                    /\ rows[n].section \in Headings[k] \cup {NoSection}
  <2>1. PICK i \in K : rows[n] = row[i] BY <1>5
  <2>2. QED BY <1>2, <1>4, <2>1
<1>8. rows # <<>> => CitesAPassage(cited, read, withQA)
  <2>1. SUFFICES ASSUME rows # <<>> PROVE \E i \in I : TRUE
    BY <1>2, <1>4 DEF CitesAPassage, I
  <2>2. c # 0
    <3>1. rows = [n \in 1 .. c |-> row[Nth(K, n)]] BY DEF rows, c, Picked
    <3>2. QED BY <2>1, <3>1
  <2>3. 1 \in 1 .. c BY <1>5, <2>2
  <2>4. QED BY <1>2, <1>5, <2>3
<1>9. Backs(read, rows) BY <1>6, <1>7 DEF Backs
<1>10. QED BY <1>1, <1>8, <1>9

-----------------------------------------------------------------------------
(* Edits: a named span is gone after its edit, and only a later edit can   *)
(* bring it back.                                                          *)

LEMMA EditFacts ==
  ASSUME NEW text \in Seq(Tokens), NEW claim, Editable(claim), FoundOnce(text, claim.span)
  PROVE  /\ Edit(text, claim) \in Seq(Tokens)
         /\ claim.span \notin ToSet(Edit(text, claim))
         /\ ToSet(Edit(text, claim)) \subseteq ToSet(text) \cup {claim.replacement}
<1> DEFINE span == claim.span
           N == Len(text)
           F == {i \in DOMAIN text : text[i] = span}
           i == FirstAt(text, span)
<1>1. N \in Nat /\ DOMAIN text = 1 .. N OBVIOUS
<1>2. IsFiniteSet(F)
  <2>1. IsFiniteSet(1 .. N) BY <1>1, FS_Interval
  <2>2. QED BY <1>1, <2>1, FS_Subset
<1>3. PICK f : F = {f}
  <2>1. Cardinality(F) = 1 BY DEF FoundOnce
  <2>2. QED BY <1>2, <2>1, FS_Singleton
<1>4. span \in ToSet(text)
  <2>1. f \in F BY <1>3
  <2>2. QED BY <2>1 DEF ToSet
<1>5. i \in 1 .. N /\ text[i] = span BY <1>4, FirstAtFacts
<1>6. \A j \in 1 .. N : text[j] = span => j = i
  <2>1. \A j \in 1 .. N : text[j] = span => j \in F BY <1>1
  <2>2. QED BY <1>3, <1>5, <2>1
<1> HIDE DEF i, F
<1>7. CASE claim.replacement = ""
  <2> DEFINE s == SubSeq(text, 1, i - 1)
             t == SubSeq(text, i + 1, N)
  <2>1. Edit(text, claim) = s \o t BY <1>7 DEF Edit, RemoveAt, i
  <2>2. i \in Int /\ 1 <= i /\ i <= N BY <1>1, <1>5
  <2>3. /\ s \in Seq(Tokens) /\ Len(s) = i - 1
        /\ \A j \in 1 .. i - 1 : s[j] = text[j]
    <3>1. \A j \in 1 .. i - 1 : text[j] \in Tokens BY <1>1, <2>2
    <3>2. QED BY <1>1, <2>2, <3>1, SubSeqProperties
  <2>4. /\ t \in Seq(Tokens) /\ Len(t) = N - i
        /\ \A j \in 1 .. N - i : t[j] = text[i + j]
    <3>1. \A j \in i + 1 .. N : text[j] \in Tokens BY <1>1, <2>2
    <3>2. /\ t \in Seq(Tokens) /\ Len(t) = IF i + 1 <= N THEN N - (i + 1) + 1 ELSE 0
          /\ \A j \in 1 .. N - (i + 1) + 1 : t[j] = text[i + 1 + j - 1]
      BY <1>1, <2>2, <3>1, SubSeqProperties
    <3> HIDE DEF t
    <3>3. Len(t) = N - i /\ N - (i + 1) + 1 = N - i
      <4>1. PICK a \in Int, b \in Nat : a = i /\ b = N /\ a <= b BY <1>1, <2>2
      <4>2. /\ IF a + 1 <= b THEN b - (a + 1) + 1 = b - a ELSE 0 = b - a
            /\ b - (a + 1) + 1 = b - a
        BY <4>1
      <4>3. Len(t) = IF a + 1 <= b THEN b - (a + 1) + 1 ELSE 0 BY <3>2, <4>1, Zenon
      <4>4. Len(t) = b - a BY <4>2, <4>3
      <4>5. QED BY <4>1, <4>2, <4>4
    <3>4. \A j \in 1 .. N - i : i + 1 + j - 1 = i + j BY <1>1, <2>2
    <3>5. \A j \in 1 .. N - i : t[j] = text[i + j] BY <3>2, <3>3, <3>4
    <3>6. QED BY <3>2, <3>3, <3>5
  <2> HIDE DEF s, t
  <2> DEFINE u == s \o t
  <2>5. /\ u \in Seq(Tokens) /\ Len(u) = N - 1
        /\ \A j \in 1 .. N - 1 : u[j] = IF j <= i - 1 THEN s[j] ELSE t[j - (i - 1)]
    <3>1. /\ u \in Seq(Tokens) /\ Len(u) = Len(s) + Len(t)
          /\ \A j \in 1 .. Len(s) + Len(t) : u[j] = IF j <= Len(s) THEN s[j] ELSE t[j - Len(s)]
      BY <2>3, <2>4, ConcatProperties
    <3>2. Len(s) = i - 1 /\ Len(s) + Len(t) = N - 1 BY <1>1, <2>2, <2>3, <2>4
    <3>3. QED BY <3>1, <3>2
  <2> HIDE DEF u
  <2>6. ASSUME NEW j \in 1 .. N - 1
        PROVE  \E k \in 1 .. N : k # i /\ u[j] = text[k]
    <3>1. CASE j <= i - 1
      <4>1. j \in 1 .. i - 1 /\ j \in 1 .. N /\ j # i BY <1>1, <2>2, <3>1
      <4>2. u[j] = text[j] BY <2>3, <2>5, <3>1, <4>1
      <4>3. QED BY <4>1, <4>2
    <3>2. CASE ~ (j <= i - 1)
      <4>1. j - (i - 1) \in 1 .. N - i /\ j + 1 \in 1 .. N /\ j + 1 # i /\ i + (j - (i - 1)) = j + 1
        BY <1>1, <2>2, <3>2
      <4>2. u[j] = text[i + (j - (i - 1))] BY <2>4, <2>5, <3>2, <4>1
      <4>3. QED BY <4>1, <4>2
    <3>3. QED BY <3>1, <3>2
  <2>7. ToSet(u) \subseteq ToSet(text) /\ span \notin ToSet(u)
    <3>1. DOMAIN u = 1 .. N - 1 BY <2>5
    <3>2. QED BY <1>1, <1>6, <2>6, <3>1 DEF ToSet
  <2>8. QED BY <2>1, <2>5, <2>7 DEF u
<1>8. CASE claim.replacement # ""
  <2>1. span \in Spans /\ claim.replacement = TrimOf[span] /\ claim.replacement # span
    BY <1>8 DEF Editable
  <2>2. claim.replacement \in Tokens BY <2>1, ReplyConstants DEF Tokens
  <2>3. Edit(text, claim) = [text EXCEPT ![i] = claim.replacement] BY <1>8 DEF Edit, ReplaceAt, i
  <2> DEFINE e == [text EXCEPT ![i] = claim.replacement]
  <2>4. e \in Seq(Tokens) /\ DOMAIN e = 1 .. N
        /\ \A j \in 1 .. N : e[j] = IF j = i THEN claim.replacement ELSE text[j]
    BY <1>1, <1>5, <2>2
  <2> HIDE DEF e
  <2>5. span \notin ToSet(e) BY <1>6, <2>1, <2>4 DEF ToSet
  <2>6. ToSet(e) \subseteq ToSet(text) \cup {claim.replacement} BY <1>1, <2>4 DEF ToSet
  <2>7. QED BY <2>3, <2>4, <2>5, <2>6 DEF e
<1>9. QED BY <1>7, <1>8

After(texts, claim) ==
  {Edit(text, claim) : text \in {x \in texts : Editable(claim) /\ FoundOnce(x, claim.span)}}

Edits(reply, claims, M, f) ==
  [n \in 0 .. M |-> IF n = 0 THEN {reply} ELSE After(f[n - 1], claims[n])]

(* The recursion of EditAll has a value.                                   *)
LEMMA EditsExist ==
  ASSUME NEW reply, NEW claims, NEW M \in Nat
  PROVE  \E f : f = Edits(reply, claims, M, f)
<1> DEFINE Fits(f, m) == f = [n \in 0 .. m |-> IF n = 0 THEN {reply} ELSE After(f[n - 1], claims[n])]
           T == {m \in Nat : ~ \E f : Fits(f, m)}
<1>1. SUFFICES ASSUME T # {} PROVE FALSE BY DEF Edits
<1>2. PICK m \in T : \A k \in T : m <= k
  <2>1. T \in SUBSET Nat /\ T # {} BY <1>1
  <2>2. QED BY <2>1, NatMin
<1>3. m # 0
  <2> DEFINE f == [n \in 0 .. 0 |-> {reply}]
  <2>1. [n \in 0 .. 0 |-> IF n = 0 THEN {reply} ELSE After(f[n - 1], claims[n])] = f OBVIOUS
  <2>2. Fits(f, 0) BY <2>1
  <2>3. QED BY <2>2
<1>4. m - 1 \in Nat /\ m - 1 \notin T
  <2>1. m \in Nat OBVIOUS
  <2> HIDE DEF T
  <2>2. QED BY <1>2, <1>3, <2>1
<1>5. PICK g : Fits(g, m - 1) BY <1>4
<1> DEFINE f == [n \in 0 .. m |-> IF n = 0 THEN {reply} ELSE After(g[n - 1], claims[n])]
<1>6. \A k \in 0 .. m - 1 : f[k] = g[k]
  <2>1. \A k \in 0 .. m - 1 : g[k] = IF k = 0 THEN {reply} ELSE After(g[k - 1], claims[k])
    BY <1>5
  <2>2. \A k \in 0 .. m - 1 : k \in 0 .. m BY <1>2
  <2>3. QED BY <2>1, <2>2
<1>7. \A n \in 0 .. m : n # 0 => n - 1 \in 0 .. m - 1 BY <1>2
<1>8. Fits(f, m)
  <2>1. \A n \in 0 .. m : f[n] = IF n = 0 THEN {reply} ELSE After(f[n - 1], claims[n])
    BY <1>6, <1>7
  <2>2. QED BY <2>1
<1>9. QED BY <1>2, <1>8

(* What the claims named and no later one brings back is gone.             *)
Undone(text, claims, n) ==
  \A i \in 1 .. n : claims[i].span \in ToSet(text) =>
    \E k \in 1 .. n : k > i /\ claims[k].replacement = claims[i].span

LEMMA EditedFacts ==
  ASSUME NEW reply \in Seq(Tokens), NEW claims, claims \in Seq(ToSet(claims)),
         NEW text \in EditAll(reply, claims)
  PROVE  text \in Seq(Tokens) /\ Undone(text, claims, Len(claims))
<1> DEFINE M == Len(claims)
           texts == CHOOSE f : f = Edits(reply, claims, M, f)
<1>1. EditAll(reply, claims) = texts[M] BY DEF EditAll, After, Edits
<1>2. M \in Nat OBVIOUS
<1>3. texts = [n \in 0 .. M |-> IF n = 0 THEN {reply} ELSE After(texts[n - 1], claims[n])]
  <2>1. \E f : f = Edits(reply, claims, M, f) BY <1>2, EditsExist
  <2>2. texts = Edits(reply, claims, M, texts) BY <2>1, Zenon
  <2>3. QED BY <2>2 DEF Edits
<1> HIDE DEF texts
<1>4. texts[0] = {reply} BY <1>2, <1>3
<1>5. ASSUME NEW n \in 1 .. M PROVE texts[n] = After(texts[n - 1], claims[n])
  <2>1. n \in 0 .. M /\ n # 0 BY <1>2
  <2>2. texts[n] = IF n = 0 THEN {reply} ELSE After(texts[n - 1], claims[n]) BY <1>3, <2>1, Zenon
  <2>3. QED BY <2>1, <2>2
<1> DEFINE Good(n) == \A t \in texts[n] : t \in Seq(Tokens) /\ Undone(t, claims, n)
           T == {n \in 0 .. M : ~ Good(n)}
<1>6. SUFFICES ASSUME T # {} PROVE FALSE BY <1>1, <1>2
<1>7. PICK n \in T : \A k \in T : n <= k
  <2>1. T \in SUBSET Nat /\ T # {} BY <1>2, <1>6
  <2>2. QED BY <2>1, NatMin
<1>8. n # 0 BY <1>4, <1>7 DEF Undone
<1>9. n \in 1 .. M /\ n - 1 \in 0 .. M /\ n - 1 \notin T BY <1>2, <1>7, <1>8
<1>10. PICK t \in texts[n] : ~ (t \in Seq(Tokens) /\ Undone(t, claims, n)) BY <1>7
<1>11. PICK s \in texts[n - 1] :
          Editable(claims[n]) /\ FoundOnce(s, claims[n].span) /\ t = Edit(s, claims[n])
  BY <1>5, <1>9, <1>10 DEF After
<1>12. s \in Seq(Tokens) /\ Undone(s, claims, n - 1) BY <1>9, <1>11
<1>13. /\ t \in Seq(Tokens) /\ claims[n].span \notin ToSet(t)
       /\ ToSet(t) \subseteq ToSet(s) \cup {claims[n].replacement}
  BY <1>11, <1>12, EditFacts
<1>14. Undone(t, claims, n)
  <2>1. SUFFICES ASSUME NEW i \in 1 .. n, claims[i].span \in ToSet(t)
                 PROVE  \E k \in 1 .. n : k > i /\ claims[k].replacement = claims[i].span
    BY DEF Undone
  <2>2. i # n BY <1>13, <2>1
  <2>3. i \in 1 .. n - 1 BY <1>9, <2>1, <2>2
  <2>4. CASE claims[i].span = claims[n].replacement BY <1>9, <2>3, <2>4
  <2>5. CASE claims[i].span \in ToSet(s)
    <3>1. PICK k \in 1 .. n - 1 : k > i /\ claims[k].replacement = claims[i].span
      BY <1>12, <2>3, <2>5 DEF Undone
    <3>2. k \in 1 .. n BY <1>9
    <3>3. QED BY <3>1, <3>2
  <2>6. QED BY <1>13, <2>1, <2>4, <2>5
<1>15. QED BY <1>10, <1>13, <1>14

-----------------------------------------------------------------------------
(* Passages: the best hits are read, but for the cap of a document.        *)

(* Distinct hits are as many as their positions.                           *)
LEMMA ItemsCount ==
  ASSUME NEW N \in Nat, NEW s, NEW A \in SUBSET (1 .. N),
         \A i, j \in A : s[i] = s[j] => i = j
  PROVE  IsFiniteSet(ItemsAt(s, A)) /\ Cardinality(ItemsAt(s, A)) = Cardinality(A)
<1> DEFINE f == [i \in A |-> s[i]]
<1>1. IsFiniteSet(A)
  <2>1. IsFiniteSet(1 .. N) BY FS_Interval
  <2>2. QED BY <2>1, FS_Subset
<1>2. f \in Bijection(A, ItemsAt(s, A))
  BY DEF Bijection, Injection, Surjection, IsInjective, ItemsAt
<1>3. ExistsBijection(A, ItemsAt(s, A)) BY <1>2 DEF ExistsBijection
<1>4. QED BY <1>1, <1>3, FS_Bijection

(* The first n positions of a set, each with fewer than n below it.        *)
Lowest(K, n) == {i \in K : Cardinality(Below(K, i)) < n}

LEMMA LowestFacts ==
  ASSUME NEW N \in Nat, NEW K \in SUBSET (1 .. N), NEW n \in Nat
  PROVE  /\ Lowest(K, n) \in SUBSET (1 .. N) /\ IsFiniteSet(Lowest(K, n))
         /\ Cardinality(Lowest(K, n)) \in Nat /\ Cardinality(Lowest(K, n)) <= n
         /\ \A i \in K : Cardinality(Below(K, i)) \in Nat
         /\ \A i \in 1 .. N : Cardinality(Below(K, i)) >= n =>
              /\ Cardinality(Lowest(K, n)) = n
              /\ \A k \in Lowest(K, n) : k < i
<1> DEFINE v == [i \in K |-> - i]
<1>1. IsFiniteSet(1 .. N) BY FS_Interval
<1>2. IsFiniteSet(K) /\ Cardinality(K) \in Nat BY <1>1, FS_Subset, FS_CardinalityType
<1>3. v \in [K -> Int] /\ \A a, b \in K : v[a] = v[b] => a = b OBVIOUS
<1>4. \A i \in K : Higher(K, v, i) = Below(K, i)
  <2>1. \A i, k \in K : v[k] > v[i] <=> k < i OBVIOUS
  <2>2. QED BY <2>1, Zenon DEF Higher, Below
<1> HIDE DEF v
<1>5. Lowest(K, n) = Best(K, v, n) BY <1>4 DEF Lowest, Best
<1>6. /\ IsFiniteSet(Lowest(K, n)) /\ Cardinality(Lowest(K, n)) <= n
      /\ n <= Cardinality(K) => Cardinality(Lowest(K, n)) = n
  <2>1. PICK S : S = K OBVIOUS
  <2>2. /\ IsFiniteSet(S) /\ v \in [S -> Int] /\ \A a, b \in S : v[a] = v[b] => a = b
    BY <1>2, <1>3, <2>1
  <2>3. /\ IsFiniteSet(Best(S, v, n)) /\ Cardinality(Best(S, v, n)) <= n
        /\ n <= Cardinality(S) => Cardinality(Best(S, v, n)) = n
    BY <2>2, BestOf
  <2>4. QED BY <1>5, <2>1, <2>3
<1>7. Cardinality(Lowest(K, n)) \in Nat BY <1>6, FS_CardinalityType
<1>8. \A i \in 1 .. N : /\ IsFiniteSet(Below(K, i)) /\ Cardinality(Below(K, i)) \in Nat
                        /\ Cardinality(Below(K, i)) <= Cardinality(K)
  <2>1. \A i \in 1 .. N : Below(K, i) \in SUBSET K BY DEF Below
  <2>2. QED BY <1>2, <2>1, FS_Subset, FS_CardinalityType
<1>9. ASSUME NEW i \in 1 .. N, Cardinality(Below(K, i)) >= n
      PROVE  /\ Cardinality(Lowest(K, n)) = n
             /\ \A k \in Lowest(K, n) : k < i
  <2>1. n <= Cardinality(K) BY <1>2, <1>8, <1>9
  <2>2. ASSUME NEW k \in Lowest(K, n), ~ (k < i) PROVE FALSE
    <3>1. k \in K /\ k \in 1 .. N /\ Cardinality(Below(K, k)) < n BY DEF Lowest
    <3>2. Below(K, i) \in SUBSET Below(K, k)
      <4>1. \A x \in Below(K, i) : x \in K /\ x < i BY DEF Below
      <4>2. \A x \in K : x < i => x < k BY <2>2, <3>1
      <4>3. QED BY <4>1, <4>2 DEF Below
    <3>3. Cardinality(Below(K, i)) <= Cardinality(Below(K, k)) BY <1>8, <3>1, <3>2, FS_Subset
    <3>4. QED BY <1>8, <1>9, <3>1, <3>3
  <2>3. QED BY <1>6, <2>1, <2>2
<1>10. Lowest(K, n) \in SUBSET (1 .. N) BY DEF Lowest
<1>11. QED BY <1>6, <1>7, <1>8, <1>9, <1>10

(* Cutting a pick leaves the lowest positions.                             *)
LEMMA FirstOfPicked ==
  ASSUME NEW N \in Nat, NEW K \in SUBSET (1 .. N), NEW s, NEW n \in Nat
  PROVE  /\ First(n, Picked(s, K)) \in Seq(ItemsAt(s, K))
         /\ ToSet(First(n, Picked(s, K))) = ItemsAt(s, Lowest(K, n))
<1> DEFINE S == ItemsAt(s, K)
           p == Picked(s, K)
           c == Cardinality(K)
           m == IF n < c THEN n ELSE c
           q == SubSeq(p, 1, m)
<1>1. N \in Nat /\ K \in SUBSET (1 .. N) OBVIOUS
<1>2. p \in Seq(S) /\ Len(p) = c
  <2>1. \A i \in K : s[i] \in S BY DEF ItemsAt
  <2>2. QED BY <2>1, PickedTyped
<1>3. \A k \in 1 .. c : p[k] = s[Nth(K, k)] BY <1>1, PickedIs, Zenon
<1>4. /\ c \in Nat
      /\ \A k \in 1 .. c : Nth(K, k) \in K /\ Cardinality(Below(K, Nth(K, k))) = k - 1
      /\ \A i \in K : \E k \in 1 .. c : Nth(K, k) = i
  BY Enumerated
<1> HIDE DEF S, p, c
<1>5. First(n, p) = q BY <1>2 DEF First
<1>6. m \in Nat /\ m <= c /\ \A k \in 1 .. c : k \in 1 .. m <=> k - 1 < n BY <1>4
<1> HIDE DEF m
<1>7. q \in Seq(S) /\ Len(q) = m /\ \A k \in 1 .. m : q[k] = p[k]
  <2>1. \A k \in 1 .. m : p[k] \in S BY <1>2, <1>6
  <2>2. /\ q \in Seq(S) /\ Len(q) = IF 1 <= m THEN m - 1 + 1 ELSE 0
        /\ \A k \in 1 .. m - 1 + 1 : q[k] = p[1 + k - 1]
    BY <1>6, <2>1, SubSeqProperties
  <2> HIDE DEF q
  <2>3. m - 1 + 1 = m /\ \A k \in 1 .. m : 1 + k - 1 = k BY <1>6
  <2>4. \A k \in 1 .. m : q[k] = p[k] BY <2>2, <2>3
  <2>5. IF 1 <= m THEN m - 1 + 1 = m ELSE 0 = m BY <1>6
  <2>6. Len(q) = m BY <2>2, <2>5
  <2>7. QED BY <2>2, <2>4, <2>6
<1> HIDE DEF q
<1>8. ToSet(q) = ItemsAt(s, Lowest(K, n))
  <2>1. ASSUME NEW k \in 1 .. m PROVE q[k] \in ItemsAt(s, Lowest(K, n))
    <3>1. k \in 1 .. c /\ k - 1 < n BY <1>4, <1>6
    <3>2. q[k] = s[Nth(K, k)] BY <1>3, <1>7, <3>1
    <3>3. Nth(K, k) \in Lowest(K, n) BY <1>4, <3>1 DEF Lowest
    <3>4. QED BY <3>2, <3>3 DEF ItemsAt
  <2>2. ASSUME NEW i \in Lowest(K, n) PROVE \E k \in 1 .. m : s[i] = q[k]
    <3>1. i \in K /\ Cardinality(Below(K, i)) < n BY DEF Lowest
    <3>2. PICK k \in 1 .. c : Nth(K, k) = i BY <1>4, <3>1
    <3>3. k - 1 < n BY <1>4, <3>1, <3>2
    <3>4. k \in 1 .. m BY <1>6, <3>3
    <3>5. QED BY <1>3, <1>7, <3>2, <3>4
  <2>3. DOMAIN q = 1 .. m BY <1>7
  <2>4. QED BY <2>1, <2>2, <2>3 DEF ToSet, ItemsAt
<1>9. QED BY <1>5, <1>7, <1>8 DEF S, p

(* The positions a search ranks: all of them, or those under the cap.      *)
Uncapped(response, scope) ==
  IF Collapses(scope)
  THEN {i \in DOMAIN response :
          Cardinality(Below(OfDoc(response, DocOf[response[i]]), i)) < PerDoc}
  ELSE DOMAIN response

LEMMA ResponseFacts ==
  ASSUME NEW scope, NEW response \in Responses(scope)
  PROVE  /\ response \in Seq(Chunks) /\ DOMAIN response = 1 .. Len(response)
         /\ Len(response) \in Nat
         /\ \A i, j \in 1 .. Len(response) : response[i] = response[j] => i = j
         /\ \A i \in 1 .. Len(response) : response[i] \in Chunks /\ InScope(response[i], scope)
<1> DEFINE S == {c \in Chunks : InScope(c, scope)}
<1>1. response \in SeqOf(S, TopK * Overfetch) /\ IsInjective(response) BY DEF Responses
<1>2. TopK * Overfetch \in Nat BY RetrievalConstants
<1>3. PICK m \in 0 .. TopK * Overfetch : response \in [1 .. m -> S] BY <1>1 DEF SeqOf
<1>4. m \in Nat BY <1>2
<1>5. \A i \in 1 .. m : response[i] \in Chunks /\ InScope(response[i], scope) BY <1>3
<1>6. response \in Seq(Chunks) /\ Len(response) = m /\ DOMAIN response = 1 .. m BY <1>3, <1>4, <1>5
<1>7. QED BY <1>1, <1>4, <1>5, <1>6 DEF IsInjective

LEMMA RankedFacts ==
  ASSUME NEW scope, NEW response \in Responses(scope)
  PROVE  /\ Ranked(response, scope) \in Seq(Chunks)
         /\ ToSet(Ranked(response, scope)) =
              ItemsAt(response, Lowest(Uncapped(response, scope), TopK))
         /\ Uncapped(response, scope) \in SUBSET (1 .. Len(response))
<1> DEFINE N == Len(response)
           K == Uncapped(response, scope)
<1>1. /\ response \in Seq(Chunks) /\ DOMAIN response = 1 .. N /\ N \in Nat
      /\ \A i \in 1 .. N : response[i] \in Chunks
  BY ResponseFacts
<1>2. K \in SUBSET (1 .. N) BY <1>1 DEF Uncapped
<1>3. (IF Collapses(scope) THEN Collapsed(response) ELSE response) = Picked(response, K)
  <2>1. CASE Collapses(scope)
    <3>1. \A i \in DOMAIN response : Below(OfDoc(response, DocOf[response[i]]), i)
                                       = {j \in OfDoc(response, DocOf[response[i]]) : j < i}
      BY DEF Below
    <3>2. K = {i \in DOMAIN response :
                 Cardinality({j \in OfDoc(response, DocOf[response[i]]) : j < i}) < PerDoc}
      BY <2>1, <3>1 DEF Uncapped
    <3>3. QED BY <2>1, <3>2 DEF Collapsed
  <2>2. CASE ~ Collapses(scope)
    <3>1. K = DOMAIN response BY <2>2 DEF Uncapped
    <3>2. QED BY <1>1, <2>2, <3>1, PickedAll
  <2>3. QED BY <2>1, <2>2
<1>4. Ranked(response, scope) = First(TopK, Picked(response, K)) BY <1>3 DEF Ranked
<1>5. TopK \in Nat BY RetrievalConstants
<1> HIDE DEF K, N
<1>6. \A i \in K : response[i] \in Chunks BY <1>1, <1>2
<1>7. /\ First(TopK, Picked(response, K)) \in Seq(Chunks)
      /\ ToSet(First(TopK, Picked(response, K))) = ItemsAt(response, Lowest(K, TopK))
  <2>1. PICK s : s = response OBVIOUS
  <2>2. \A i \in K : s[i] \in Chunks BY <1>6, <2>1
  <2>3. /\ First(TopK, Picked(s, K)) \in Seq(ItemsAt(s, K))
        /\ ToSet(First(TopK, Picked(s, K))) = ItemsAt(s, Lowest(K, TopK))
    BY <1>1, <1>2, <1>5, FirstOfPicked
  <2>4. ItemsAt(s, K) \subseteq Chunks BY <2>2 DEF ItemsAt
  <2>5. QED BY <2>1, <2>3, <2>4
<1>8. QED BY <1>2, <1>4, <1>7 DEF K, N

RankIn(response, c) == CHOOSE i \in DOMAIN response : response[i] = c

Better(response, read, c) == {d \in ToSet(read) : RankIn(response, d) < RankIn(response, c)}

FromDoc(read, doc) == {d \in ToSet(read) : DocOf[d] = doc}

WellRead(response, read, scope) ==
  /\ ToSet(read) \subseteq {c \in ToSet(response) : InScope(c, scope)}
  /\ \A c \in ToSet(response) \ ToSet(read) :
       \/ Cardinality(Better(response, read, c)) = TopK
       \/ /\ Collapses(scope)
          /\ Cardinality(Better(response, read, c) \cap FromDoc(read, DocOf[c])) = PerDoc
  /\ Collapses(scope) =>
       \A doc : Cardinality(FromDoc(read, doc)) <= PerDoc

(* What a search reads, of what it found.                                  *)
LEMMA ReadFacts ==
  ASSUME NEW scope, NEW response \in Responses(scope), NEW read, read = Ranked(response, scope)
  PROVE  /\ read \in Seq(Chunks)
         /\ WellRead(response, read, scope)
<1> DEFINE N == Len(response)
           K == Uncapped(response, scope)
           R == Lowest(K, TopK)
           D(doc) == OfDoc(response, doc)
<1>1. /\ response \in Seq(Chunks) /\ DOMAIN response = 1 .. N /\ N \in Nat
      /\ \A i, j \in 1 .. N : response[i] = response[j] => i = j
      /\ \A i \in 1 .. N : InScope(response[i], scope)
  BY ResponseFacts
<1>2. read \in Seq(Chunks) /\ ToSet(read) = ItemsAt(response, R) /\ K \in SUBSET (1 .. N)
  BY RankedFacts
<1>3. TopK \in Nat /\ PerDoc \in Nat BY RetrievalConstants
<1>4. \A doc : D(doc) \in SUBSET (1 .. N) /\ \A i \in 1 .. N : i \in D(doc) <=> DocOf[response[i]] = doc
  BY <1>1 DEF OfDoc
<1>5. Collapses(scope) => \A i \in 1 .. N :
        i \in K <=> Cardinality(Below(D(DocOf[response[i]]), i)) < PerDoc
  BY <1>1 DEF Uncapped
<1>6. ~ Collapses(scope) => K = 1 .. N BY <1>1 DEF Uncapped
<1> HIDE DEF N, K, D
<1>7. /\ R \in SUBSET (1 .. N) /\ R \in SUBSET K
      /\ \A i \in 1 .. N : Cardinality(Below(K, i)) \in Nat
      /\ \A i \in K : i \in R <=> Cardinality(Below(K, i)) < TopK
      /\ \A i \in 1 .. N : Cardinality(Below(K, i)) >= TopK =>
           Cardinality(R) = TopK /\ \A k \in R : k < i
  <2>1. \A i \in 1 .. N : Cardinality(Below(K, i)) \in Nat
    <3>1. SUFFICES ASSUME NEW i \in 1 .. N PROVE Cardinality(Below(K, i)) \in Nat OBVIOUS
    <3>2. IsFiniteSet(1 .. N) BY <1>1, FS_Interval
    <3>3. Below(K, i) \in SUBSET (1 .. N) BY <1>2 DEF Below
    <3>4. QED BY <3>2, <3>3, FS_Subset, FS_CardinalityType
  <2>2. R \in SUBSET K /\ \A i \in K : i \in R <=> Cardinality(Below(K, i)) < TopK BY DEF Lowest
  <2>3. QED BY <1>1, <1>2, <1>3, <2>1, <2>2, LowestFacts
<1> HIDE DEF R
<1>8. \A i \in 1 .. N : RankIn(response, response[i]) = i
  <2>1. SUFFICES ASSUME NEW i \in 1 .. N PROVE RankIn(response, response[i]) = i OBVIOUS
  <2>2. \E j \in DOMAIN response : response[j] = response[i] BY <1>1
  <2>3. /\ RankIn(response, response[i]) \in DOMAIN response
        /\ response[RankIn(response, response[i])] = response[i]
    BY <2>2 DEF RankIn
  <2>4. QED BY <1>1, <2>3
<1>9. \A A \in SUBSET (1 .. N) : Cardinality(ItemsAt(response, A)) = Cardinality(A)
  <2>1. SUFFICES ASSUME NEW A \in SUBSET (1 .. N)
                 PROVE  Cardinality(ItemsAt(response, A)) = Cardinality(A)
    OBVIOUS
  <2>2. PICK s : s = response OBVIOUS
  <2>3. \A i, j \in A : s[i] = s[j] => i = j BY <1>1, <2>2
  <2>4. Cardinality(ItemsAt(s, A)) = Cardinality(A) BY <1>1, <2>3, ItemsCount
  <2>5. QED BY <2>2, <2>4
<1>10. ToSet(read) \subseteq {c \in ToSet(response) : InScope(c, scope)}
  <2>1. \A i \in R : i \in DOMAIN response /\ InScope(response[i], scope) BY <1>1, <1>7
  <2>2. \A d \in ToSet(read) : \E i \in R : d = response[i] BY <1>2 DEF ItemsAt
  <2>3. \A i \in DOMAIN response : response[i] \in ToSet(response) BY DEF ToSet
  <2>4. QED BY <2>1, <2>2, <2>3
<1>11. \A doc : {d \in ToSet(read) : DocOf[d] = doc} = ItemsAt(response, R \cap D(doc))
  BY <1>2, <1>4, <1>7 DEF ItemsAt
<1>12. Collapses(scope) => \A doc : R \cap D(doc) \in SUBSET Lowest(D(doc), PerDoc)
  BY <1>4, <1>5, <1>7 DEF Lowest
<1>13. ASSUME Collapses(scope), NEW doc
       PROVE  Cardinality({d \in ToSet(read) : DocOf[d] = doc}) <= PerDoc
  <2>1. /\ IsFiniteSet(Lowest(D(doc), PerDoc)) /\ Cardinality(Lowest(D(doc), PerDoc)) \in Nat
        /\ Cardinality(Lowest(D(doc), PerDoc)) <= PerDoc
    BY <1>1, <1>3, <1>4, LowestFacts
  <2>2. /\ Cardinality(R \cap D(doc)) <= Cardinality(Lowest(D(doc), PerDoc))
        /\ Cardinality(R \cap D(doc)) \in Nat
    BY <1>12, <1>13, <2>1, FS_Subset, FS_CardinalityType
  <2>3. R \cap D(doc) \in SUBSET (1 .. N) BY <1>7
  <2>4. Cardinality({d \in ToSet(read) : DocOf[d] = doc}) = Cardinality(R \cap D(doc))
    BY <1>9, <1>11, <2>3
  <2>5. QED BY <1>3, <2>1, <2>2, <2>4
<1>14. ASSUME NEW i \in 1 .. N, NEW k \in 1 .. N, Cardinality(Below(K, k)) >= TopK, k <= i
       PROVE  Cardinality({d \in ToSet(read) : RankIn(response, d) < i}) = TopK
  <2>1. Cardinality(R) = TopK /\ \A j \in R : j < k BY <1>7, <1>14
  <2>2. \A d \in ToSet(read) : RankIn(response, d) < i
    BY <1>2, <1>7, <1>8, <1>14, <2>1 DEF ItemsAt
  <2>3. {d \in ToSet(read) : RankIn(response, d) < i} = ItemsAt(response, R) BY <1>2, <2>2
  <2>4. QED BY <1>7, <1>9, <2>1, <2>3
<1>15. ASSUME NEW i \in 1 .. N, i \notin R
       PROVE  \/ Cardinality({d \in ToSet(read) : RankIn(response, d) < i}) = TopK
              \/ /\ Collapses(scope)
                 /\ Cardinality({d \in ToSet(read) : RankIn(response, d) < i} \cap
                                {d \in ToSet(read) : DocOf[d] = DocOf[response[i]]}) = PerDoc
  <2>1. CASE i \in K
    <3>1. Cardinality(Below(K, i)) >= TopK BY <1>3, <1>7, <1>15, <2>1
    <3>2. i <= i OBVIOUS
    <3>3. QED BY <1>14, <3>1, <3>2
  <2>2. CASE i \notin K
    <3> DEFINE E == D(DocOf[response[i]])
               F == Lowest(E, PerDoc)
    <3>1. Collapses(scope) BY <1>6, <2>2
    <3>2. E \in SUBSET (1 .. N) BY <1>4
    <3>3. Cardinality(Below(E, i)) \in Nat
      <4>1. IsFiniteSet(1 .. N) BY <1>1, FS_Interval
      <4>2. Below(E, i) \in SUBSET (1 .. N) BY <3>2 DEF Below
      <4>3. QED BY <4>1, <4>2, FS_Subset, FS_CardinalityType
    <3>4. Cardinality(Below(E, i)) >= PerDoc BY <1>3, <1>5, <2>2, <3>1, <3>3
    <3>5. Cardinality(F) = PerDoc /\ F \in SUBSET (1 .. N) /\ \A k \in F : k < i
      BY <1>1, <1>3, <3>2, <3>4, LowestFacts
    <3>6. F \in SUBSET E /\ F \in SUBSET K
      <4>1. F \in SUBSET E BY DEF Lowest
      <4>2. \A k \in F : DocOf[response[k]] = DocOf[response[i]] BY <1>4, <3>5, <4>1
      <4>3. \A k \in F : Cardinality(Below(E, k)) < PerDoc BY DEF Lowest
      <4>4. QED BY <1>5, <3>1, <3>5, <4>1, <4>2, <4>3
    <3>7. R \cap E \in SUBSET F BY <1>12, <3>1
    <3> HIDE DEF F
    <3>8. CASE F \in SUBSET R
      <4>1. R \cap E = F BY <3>6, <3>7, <3>8
      <4>2. {d \in ToSet(read) : DocOf[d] = DocOf[response[i]]} = ItemsAt(response, F)
        BY <1>11, <4>1
      <4>3. \A d \in ItemsAt(response, F) : RankIn(response, d) < i BY <1>8, <3>5 DEF ItemsAt
      <4>4. {d \in ToSet(read) : RankIn(response, d) < i} \cap
              {d \in ToSet(read) : DocOf[d] = DocOf[response[i]]} = ItemsAt(response, F)
        BY <4>2, <4>3
      <4>5. QED BY <1>9, <3>1, <3>5, <4>4
    <3>9. CASE ~ (F \in SUBSET R)
      <4>1. PICK k \in F : k \notin R BY <3>9
      <4>2. k \in 1 .. N /\ k \in K /\ k <= i BY <3>5, <3>6
      <4>3. Cardinality(Below(K, k)) >= TopK BY <1>3, <1>7, <4>1, <4>2
      <4>4. QED BY <1>14, <4>2, <4>3
    <3>10. QED BY <3>8, <3>9
  <2>3. QED BY <2>1, <2>2
<1>16. ASSUME NEW c \in ToSet(response) \ ToSet(read)
       PROVE  \E i \in 1 .. N : c = response[i] /\ i \notin R /\ RankIn(response, c) = i
  <2>1. PICK i \in 1 .. N : c = response[i] BY <1>1 DEF ToSet
  <2>2. QED BY <1>2, <1>8, <2>1 DEF ItemsAt
<1>17. ASSUME NEW c \in ToSet(response) \ ToSet(read)
       PROVE  \/ Cardinality(Better(response, read, c)) = TopK
              \/ /\ Collapses(scope)
                 /\ Cardinality(Better(response, read, c) \cap FromDoc(read, DocOf[c])) = PerDoc
  <2>1. PICK i \in 1 .. N : c = response[i] /\ i \notin R /\ RankIn(response, c) = i BY <1>16
  <2>2. QED BY <1>15, <2>1 DEF Better, FromDoc
<1>18. Collapses(scope) => \A doc : Cardinality(FromDoc(read, doc)) <= PerDoc
  BY <1>13 DEF FromDoc
<1>19. QED BY <1>2, <1>10, <1>17, <1>18, Zenon DEF WellRead

-----------------------------------------------------------------------------
(* The inductive invariant.                                                *)

Unread    == {"contextualize", "search", "widen"}
Unwritten == Unread \cup {"images", "qa", "compose"}

(* What is known of a search before its passages are used.                 *)
ReadInv ==
  /\ passages \in Seq(Chunks)
  /\ stage \in Unread => widened = FALSE /\ noted = {}
  /\ stage \in Unread \cup {"images"} => files = {}
  /\ stage = "widen" => IsWider(scopes.primary, scopes.wider) /\ narrow = <<>>
  /\ BestInScopeIsRead

(* Nothing is written before the composer writes, and the images are those *)
(* of the guides it read.                                                  *)
ShowInv ==
  /\ qa \in BOOLEAN
  /\ stage \in Unwritten => result = NoResult
  /\ result.reply \in Seq(Tokens)
  /\ files \subseteq {f \in Files : AppOfFile[f] \in Slugs}
  /\ ShownIsBacked

(* The reply is the text the last verdict is about, or an edit of it.      *)
Settled ==
  \/ Passes(verdict) /\ verdict.of = result.reply
  \/ /\ ~Passes(verdict) /\ result.reply \in AppliedClaims(verdict.of, verdict.claims)
     /\ verdict.claims \in Seq(ToSet(verdict.claims))
     /\ Undone(result.reply, verdict.claims, Len(verdict.claims))
     /\ Prose(result.reply) # <<>>

Sourced == result.status \in {"answer", "handed_off"} /\ result.citations # <<>>

JudgedInv ==
  /\ stage \in {"present", "done"} /\ Sourced => Settled
  /\ stage = "done" /\ Sourced => shown \in {result.reply, Strip(result.reply)}

AnswerInv == ReadInv /\ ShowInv /\ JudgedInv

-----------------------------------------------------------------------------
(* What the models may give.                                               *)

LEMMA StructuredFacts ==
  ASSUME NEW objects, NEW given \in Structured(objects)
  PROVE  given = <<>> \/ \E o \in objects : given = <<o>>
BY DEF Structured, Completions

LEMMA WrittenFacts ==
  ASSUME NEW texts, NEW text \in Written(texts)
  PROVE  text = <<>> \/ text \in texts
BY DEF Written, Completions

LEMMA VerdictFacts ==
  ASSUME NEW text, NEW v \in Verdicts(text)
  PROVE  /\ v.of = text
         /\ v.claims \in Seq(ToSet(v.claims))
<1>1. PICK given \in Structured(Judgements) :
        v = IF given = <<>> THEN [of |-> text, outcome |-> "none", claims |-> <<>>]
            ELSE [of |-> text,
                  outcome |-> IF given[1].grounded THEN "grounded" ELSE "ungrounded",
                  claims |-> given[1].claims]
  BY DEF Verdicts
<1>2. given # <<>> => given[1].claims \in {<<>>} \cup ClaimLists
  <2>1. given # <<>> => \E o \in Judgements : given = <<o>> BY StructuredFacts
  <2>2. \A o \in Judgements : o.claims \in {<<>>} \cup ClaimLists BY DEF Judgements
  <2>3. QED BY <2>1, <2>2
<1>3. v.of = text /\ v.claims \in {<<>>} \cup ClaimLists BY <1>1, <1>2
<1>4. CASE v.claims = <<>>
  <2>1. <<>> \in Seq(ToSet(<<>>)) OBVIOUS
  <2>2. QED BY <1>3, <1>4, <2>1
<1>5. CASE v.claims \in ClaimLists
  <2>1. \A list \in ClaimLists : list \in Seq(ToSet(list)) BY AnsweringConstants, Zenon
  <2>2. QED BY <1>3, <1>5, <2>1
<1>6. QED BY <1>3, <1>4, <1>5

(* A reply is a text, also one that shows every image it was offered.      *)
LEMMA TextsTyped ==
  ASSUME passages \in Seq(Chunks)
  PROVE  Texts \subseteq Seq(Tokens)
<1>1. \A c \in ToSet(passages) : c \in Chunks BY DEF ToSet
<1>2. \A c \in ToSet(passages) : IsFiniteSet(Rewritten(c)) /\ Rewritten(c) \subseteq Markers
  BY <1>1, FilesAreScoped, FS_Subset DEF Rewritten
<1>3. IsFiniteSet(ToSet(passages)) BY ItemsAreFinite
<1>4. IsFiniteSet(Offered)
  <2> DEFINE f == [c \in ToSet(passages) |-> Rewritten(c)]
             T == {f[c] : c \in ToSet(passages)}
  <2>1. f \in Surjection(ToSet(passages), T) BY DEF Surjection
  <2>2. IsFiniteSet(T) BY <1>3, <2>1, FS_Surjection
  <2>3. \A A \in T : IsFiniteSet(A) BY <1>2
  <2>4. IsFiniteSet(UNION T) BY <2>2, <2>3, FS_UNION
  <2>5. Offered = UNION T BY DEF Offered
  <2>6. QED BY <2>4, <2>5
<1>5. Offered \subseteq Markers BY <1>2 DEF Offered
<1> DEFINE c == Cardinality(Offered)
<1>6. c \in Nat /\ \E f \in [1 .. c -> Offered] : IsInjective(f)
  <2>1. ExistsBijection(1 .. c, Offered) /\ c \in Nat BY <1>4, FS_CardinalityType
  <2>2. QED BY <2>1 DEF ExistsBijection, Bijection, Injection
<1>7. SetToSeq(Offered) \in [1 .. c -> Offered] BY <1>6 DEF SetToSeq
<1>8. SetToSeq(Offered) \in Seq(Tokens)
  <2>1. Offered \subseteq Tokens BY <1>5 DEF Tokens
  <2> HIDE DEF c
  <2>2. QED BY <1>6, <1>7, <2>1
<1>9. \A text \in Replies : text \in Seq(Tokens) BY AnsweringConstants
<1>10. \A text \in Replies : text \o SetToSeq(Offered) \in Seq(Tokens)
  BY <1>8, <1>9, ConcatProperties
<1>11. QED BY <1>9, <1>10, Zenon DEF Texts

LEMMA CompositionFacts ==
  ASSUME passages \in Seq(Chunks), NEW composed \in Compositions
  PROVE  /\ composed.status \in Statuses
         /\ composed.answer \in Seq(Tokens)
         /\ composed.cited \in Seq(ToSet(composed.cited))
<1>1. Texts \subseteq Seq(Tokens) BY TextsTyped
<1>2. PICK given \in Structured(ComposedAnswers) :
        composed \in IF given = <<>>
                     THEN {[status |-> ParsedStatus(text), answer |-> text, cited |-> <<>>] :
                             text \in Written(Texts)}
                     ELSE {given[1]}
  BY DEF Compositions
<1>3. CASE given = <<>>
  <2>1. PICK text \in Written(Texts) :
          composed = [status |-> ParsedStatus(text), answer |-> text, cited |-> <<>>]
    BY <1>2, <1>3
  <2>2. text \in Seq(Tokens)
    <3>1. text = <<>> \/ text \in Texts BY WrittenFacts
    <3>2. <<>> \in Seq(Tokens) OBVIOUS
    <3>3. QED BY <1>1, <3>1, <3>2
  <2>3. ParsedStatus(text) \in Statuses
    <3> DEFINE bug == Contains(text, "[[suspected_bug]]")
               ask == Contains(text, "[[clarify]]")
               none == Contains(text, "[[no_answer]]")
    <3>1. CASE bug BY <3>1 DEF ParsedStatus, Statuses
    <3>2. CASE ~ bug /\ ask BY <3>2 DEF ParsedStatus, Statuses
    <3>3. CASE ~ bug /\ ~ ask
      <4>1. ParsedStatus(text) = IF none /\ ~ IsLong(text) THEN "no_answer" ELSE "answer"
        BY <3>3 DEF ParsedStatus
      <4>2. QED BY <4>1 DEF Statuses
    <3>4. QED BY <3>1, <3>2, <3>3
  <2>4. <<>> \in Seq(ToSet(<<>>)) OBVIOUS
  <2>5. QED BY <2>1, <2>2, <2>3, <2>4
<1>4. CASE given # <<>>
  <2>1. PICK o \in ComposedAnswers : given = <<o>> BY <1>4, StructuredFacts
  <2>2. composed = o BY <1>2, <1>4, <2>1
  <2>3. o.status \in Statuses /\ o.answer \in Texts /\ o.cited \in Declarations
    BY DEF ComposedAnswers
  <2>4. QED BY <1>1, <2>2, <2>3, AnsweringConstants
<1>5. QED BY <1>3, <1>4

(* A reply is empty without sources, or thinned out with those selected.   *)
LEMMA ResultFacts ==
  ASSUME NEW composed, composed.status \in Statuses, NEW r, r = ResultOf(composed)
  PROVE  /\ r.status # "handed_off"
         /\ \/ r.reply = <<>> /\ r.citations = <<>>
            \/ /\ r.reply = SelectImages(Scrub(composed.answer), files)
               /\ r.citations = SelectCitations(composed.cited, passages, qa)
               /\ r.status = "answer" => r.judged = CitesAPassage(composed.cited, passages, qa)
<1> DEFINE clean == SelectImages(Scrub(composed.answer), files)
           status == ResolvedStatus(composed.status, Scrub(composed.answer))
           sourced(as) ==
             [status |-> as, reply |-> clean,
              citations |-> SelectCitations(composed.cited, passages, qa),
              judged |-> CitesAPassage(composed.cited, passages, qa)]
<1>1. status \in Statuses BY DEF ResolvedStatus, Statuses
<1>2. r = CASE status = "suspected_bug" -> sourced("suspected_bug")
            [] status = "clarify" /\ mayClarify -> [sourced("clarify") EXCEPT !.judged = FALSE]
            [] status = "clarify" /\ ~mayClarify -> sourced("answer")
            [] status = "answer" -> sourced("answer")
            [] status = "no_answer" /\ mayClarify -> Canned("clarify")
            [] status = "no_answer" /\ ~mayClarify -> Canned("no_answer")
  BY DEF ResultOf
<1> HIDE DEF status, clean
<1>3. CASE status = "suspected_bug" BY <1>2, <1>3 DEF clean
<1>4. CASE status = "clarify"
  <2>1. CASE mayClarify
    <3>1. r = [sourced("clarify") EXCEPT !.judged = FALSE] BY <1>2, <1>4, <2>1
    <3>2. QED BY <3>1 DEF clean
  <2>2. CASE ~ mayClarify BY <1>2, <1>4, <2>2 DEF clean
  <2>3. QED BY <2>1, <2>2
<1>5. CASE status = "answer" BY <1>2, <1>5 DEF clean
<1>6. CASE status = "no_answer" BY <1>2, <1>6 DEF Canned, NoResult
<1>7. QED BY <1>1, <1>3, <1>4, <1>5, <1>6 DEF Statuses

-----------------------------------------------------------------------------
(* What the search reads.                                                  *)

ReadsBest(wide, over, first, found, read, told) ==
  LET scope == IF wide THEN over.wider ELSE over.primary
  IN /\ ToSet(read) \subseteq {c \in ToSet(found) : InScope(c, scope)}
     /\ wide => over.primary # {} /\ scope # {} /\ first = <<>>
     /\ told \subseteq over.wider \ over.primary
     /\ \A c \in ToSet(found) \ ToSet(read) :
          \/ Cardinality(Better(found, read, c)) = TopK
          \/ /\ Collapses(scope)
             /\ Cardinality(Better(found, read, c) \cap FromDoc(read, DocOf[c])) = PerDoc
     /\ Collapses(scope) =>
          \A d \in {DocOf[c] : c \in Chunks} : Cardinality(FromDoc(read, d)) <= PerDoc

LEMMA BestIs ==
  /\ BestInScopeIsRead <=>
       (stage = "images" => ReadsBest(widened, scopes, narrow, hits, passages, noted))
  /\ BestInScopeIsRead' <=>
       (stage' = "images" => ReadsBest(widened', scopes', narrow', hits', passages', noted'))
BY Zenon DEF BestInScopeIsRead, ReadsBest, RankIn, Better, FromDoc

LEMMA BestRead ==
  ASSUME NEW wide, NEW over, NEW scope, NEW first, NEW found \in Responses(scope), NEW read,
         NEW told,
         read = Ranked(found, scope),
         scope = IF wide THEN over.wider ELSE over.primary,
         wide => over.primary # {} /\ scope # {} /\ first = <<>>,
         told \subseteq over.wider \ over.primary
  PROVE  ReadsBest(wide, over, first, found, read, told)
<1>1. WellRead(found, read, scope) BY ReadFacts, Zenon
<1>2. QED BY <1>1, Zenon DEF ReadsBest, WellRead

LEMMA SearchReads ==
  ASSUME NEW scope, NEW response \in Responses(scope)
  PROVE  /\ Ranked(response, scope) \in Seq(Chunks)
         /\ \A c \in ToSet(Ranked(response, scope)) : InScope(c, scope)
<1>1. PICK read : read = Ranked(response, scope) OBVIOUS
<1>2. /\ read \in Seq(Chunks)
      /\ ToSet(read) \subseteq {c \in ToSet(response) : InScope(c, scope)}
  BY <1>1, ReadFacts DEF WellRead
<1>3. QED BY <1>1, <1>2

(* Nothing is read only of an empty response.                              *)
LEMMA NothingRead ==
  ASSUME NEW scope, NEW response \in Responses(scope), Ranked(response, scope) = <<>>
  PROVE  response = <<>>
<1>1. PICK read : read = Ranked(response, scope) OBVIOUS
<1>2. WellRead(response, read, scope) /\ read = <<>> BY <1>1, ReadFacts
<1>3. ToSet(read) = {} BY <1>2 DEF ToSet
<1>4. ASSUME NEW c \in ToSet(response) PROVE FALSE
  <2>1. Better(response, read, c) = {} /\ FromDoc(read, DocOf[c]) = {}
    BY <1>3 DEF Better, FromDoc
  <2>2. Cardinality({}) = 0 BY FS_EmptySet
  <2>3. Better(response, read, c) \cap FromDoc(read, DocOf[c]) = {} BY <2>1
  <2>4. 0 = TopK \/ 0 = PerDoc BY <1>2, <1>3, <1>4, <2>1, <2>2, <2>3 DEF WellRead
  <2>5. QED BY <2>4, RetrievalConstants
<1>5. response \in Seq(Chunks) BY ResponseFacts
<1>6. DOMAIN response = {} BY <1>4 DEF ToSet
<1>7. QED BY <1>5, <1>6

LEMMA ReadStep == AnswerInv /\ [Next]_vars => ReadInv'
<1> SUFFICES ASSUME AnswerInv, [Next]_vars PROVE ReadInv' OBVIOUS
<1>1. ReadInv BY DEF AnswerInv
<1>2. ASSUME UNCHANGED <<passages, widened, noted, files, scopes, narrow, hits>>, stage' = stage
      PROVE  ReadInv'
  <2>1. BestInScopeIsRead' BY <1>1, <1>2, BestIs DEF ReadInv
  <2>2. QED BY <1>1, <1>2, <2>1 DEF ReadInv
<1>3. ASSUME UNCHANGED <<passages>>, stage' \notin Unread \cup {"images"} PROVE ReadInv'
  BY <1>1, <1>3 DEF ReadInv, BestInScopeIsRead, Unread
<1>4. CASE UNCHANGED vars BY <1>2, <1>4 DEF vars, retrieved
<1>5. CASE Contextualize
  BY <1>1, <1>5 DEF Contextualize, retrieved, ReadInv, BestInScopeIsRead, Unread
<1>6. CASE Search
  <2>1. PICK response \in Responses(scopes.primary) :
          narrow' = response /\ hits' = response /\ passages' = Ranked(response, scopes.primary)
    BY <1>6 DEF Search
  <2>2. /\ UNCHANGED <<scopes, widened, noted, files>> /\ stage = "search"
        /\ stage' = IF passages' = <<>> /\ IsWider(scopes.primary, scopes.wider)
                    THEN "widen" ELSE "images"
    BY <1>6 DEF Search
  <2>3. widened = FALSE /\ noted = {} /\ files = {} BY <1>1, <2>2 DEF ReadInv, Unread
  <2>4. passages' \in Seq(Chunks) BY <2>1, SearchReads
  <2>5. BestInScopeIsRead'
    <3>1. noted' \subseteq scopes'.wider \ scopes'.primary BY <2>2, <2>3
    <3>2. scopes.primary = IF widened' THEN scopes'.wider ELSE scopes'.primary BY <2>2, <2>3
    <3>3. ~ widened' BY <2>2, <2>3
    <3>4. ReadsBest(widened', scopes', narrow', response, passages', noted')
      BY <2>1, <3>1, <3>2, <3>3, BestRead
    <3>5. QED BY <2>1, <3>4, BestIs
  <2>6. stage' = "widen" => narrow' = <<>> BY <2>1, <2>2, NothingRead
  <2>7. QED BY <2>2, <2>3, <2>4, <2>5, <2>6 DEF ReadInv, Unread
<1>7. CASE Widen
  <2>1. PICK response \in Responses(scopes.wider) :
          hits' = response /\ passages' = Ranked(response, scopes.wider)
    BY <1>7 DEF Widen
  <2>2. /\ UNCHANGED <<scopes, narrow, files>> /\ stage = "widen" /\ widened' = TRUE /\ stage' = "images"
        /\ noted' = OtherApplications(passages', scopes.primary)
    BY <1>7 DEF Widen
  <2>3. files = {} /\ scopes.primary # {} /\ scopes.wider # {} /\ narrow' = <<>>
    BY <1>1, <2>2 DEF ReadInv, Unread, IsWider
  <2>4. passages' \in Seq(Chunks) /\ \A c \in ToSet(passages') : InScope(c, scopes.wider)
    BY <2>1, SearchReads
  <2>5. noted' \subseteq scopes.wider \ scopes.primary
    BY <2>2, <2>3, <2>4 DEF OtherApplications, InScope
  <2>6. BestInScopeIsRead'
    <3>1. noted' \subseteq scopes'.wider \ scopes'.primary BY <2>2, <2>5
    <3>2. scopes.wider = IF widened' THEN scopes'.wider ELSE scopes'.primary BY <2>2
    <3>3. scopes'.primary # {} /\ scopes.wider # {} BY <2>2, <2>3
    <3>4. ReadsBest(widened', scopes', narrow', response, passages', noted')
      BY <2>1, <2>3, <3>1, <3>2, <3>3, BestRead
    <3>5. QED BY <2>1, <3>4, BestIs
  <2>7. QED BY <2>2, <2>3, <2>4, <2>6 DEF ReadInv, Unread
<1>8. CASE FindImages BY <1>3, <1>8 DEF FindImages, Unread
<1>9. CASE SearchQA BY <1>3, <1>9 DEF SearchQA, Unread
<1>10. CASE Compose
  <2>1. UNCHANGED passages /\ stage' \in {"done", "judge", "present"} BY <1>10 DEF Compose, retrieved
  <2>2. QED BY <1>3, <2>1 DEF Unread
<1>11. CASE Judge
  <2>1. UNCHANGED passages /\ stage' \in {"repair", "present"} BY <1>11 DEF Judge, HandOff, retrieved
  <2>2. QED BY <1>3, <2>1 DEF Unread
<1>12. CASE Repair
  <2>1. UNCHANGED passages /\ stage' \in {"recheck", "present"} BY <1>12 DEF Repair, HandOff, retrieved
  <2>2. QED BY <1>3, <2>1 DEF Unread
<1>13. CASE Recheck
  <2>1. UNCHANGED passages /\ stage' = "present" BY <1>13 DEF Recheck, HandOff, retrieved
  <2>2. QED BY <1>3, <2>1 DEF Unread
<1>14. CASE Present BY <1>3, <1>14 DEF Present, retrieved, Unread
<1>15. CASE Raise BY <1>3, <1>15 DEF Raise, retrieved, Unread
<1>16. QED
  BY <1>4, <1>5, <1>6, <1>7, <1>8, <1>9, <1>10, <1>11, <1>12, <1>13, <1>14, <1>15 DEF Next

-----------------------------------------------------------------------------
(* What a result shows.                                                    *)

Shows(reply, available, slugs) ==
  /\ IsInjective(ImagesIn(reply)) /\ Len(ImagesIn(reply)) <= MaxImages
  /\ \A m \in ToSet(ImagesIn(reply)) : FileOf[m] \in available /\ AppOfFile[FileOf[m]] \in slugs

LEMMA BackedIs ==
  /\ ShownIsBacked <=>
       /\ Backs(passages, result.citations) /\ Shows(result.reply, files, Slugs)
       /\ \A m \in Offered : FileOf[m] \in files /\ AppOfFile[FileOf[m]] \in Slugs
  /\ ShownIsBacked' <=>
       /\ Backs(passages', result'.citations) /\ Shows(result'.reply, files', Slugs')
       /\ \A m \in Offered' : FileOf[m] \in files' /\ AppOfFile[FileOf[m]] \in Slugs'
BY Zenon DEF ShownIsBacked, Backs, Shows

LEMMA NothingShown ==
  ASSUME NEW available, NEW slugs, NEW read
  PROVE  /\ <<>> \in Seq(Tokens) /\ ImagesIn(<<>>) = <<>>
         /\ Shows(<<>>, available, slugs) /\ Backs(read, <<>>)
<1>1. <<>> \in Seq(Tokens) OBVIOUS
<1>2. ImagesIn(<<>>) = <<>>
  <2>1. ImagesIn(<<>>) \in Seq(Tokens \cap Markers)
    BY <1>1, OnlyFacts DEF ImagesIn
  <2>2. ToSet(ImagesIn(<<>>)) = ToSet(<<>>) \cap Markers BY <1>1, OnlyFacts DEF ImagesIn
  <2>3. PICK t : t = ImagesIn(<<>>) OBVIOUS
  <2>4. t \in Seq(Tokens \cap Markers) /\ \A i \in 1 .. Len(t) : FALSE
    BY <2>1, <2>2, <2>3 DEF ToSet
  <2>5. t = <<>> BY <2>4
  <2>6. QED BY <2>3, <2>5
<1>3. IsInjective(<<>>) /\ Len(<<>>) = 0 BY DEF IsInjective
<1>4. Shows(<<>>, available, slugs) BY <1>2, <1>3, ReplyConstants DEF Shows, ToSet
<1>5. Backs(read, <<>>) BY <1>3 DEF Backs
<1>6. QED BY <1>1, <1>2, <1>4, <1>5

LEMMA SelectionShown ==
  ASSUME NEW text \in Seq(Tokens), NEW allowed, NEW available, NEW slugs,
         allowed \subseteq available, \A f \in available : AppOfFile[f] \in slugs
  PROVE  /\ SelectImages(text, allowed) \in Seq(Tokens)
         /\ Shows(SelectImages(text, allowed), available, slugs)
<1>1. /\ SelectImages(text, allowed) \in Seq(Tokens)
      /\ IsInjective(ImagesIn(SelectImages(text, allowed)))
      /\ Len(ImagesIn(SelectImages(text, allowed))) <= MaxImages
      /\ \A m \in ToSet(ImagesIn(SelectImages(text, allowed))) : m \in Markers /\ FileOf[m] \in allowed
  BY Selected
<1>2. QED BY <1>1, Zenon DEF Shows

(* The images are those of the guides that were read, so a step has only   *)
(* to say what its result shows.                                           *)
LEMMA ShownAfter ==
  ASSUME qa' \in BOOLEAN, stage' \in Unwritten => result' = NoResult,
         result'.reply \in Seq(Tokens), files' \subseteq {f \in Files : AppOfFile[f] \in Slugs'},
         Backs(passages', result'.citations), Shows(result'.reply, files', Slugs')
  PROVE  ShowInv'
<1>1. \A m \in Offered' : FileOf[m] \in files' BY DEF Offered, Rewritten
<1>2. ShownIsBacked' BY <1>1, BackedIs
<1>3. QED BY <1>2 DEF ShowInv

LEMMA InitHolds == Init => AnswerInv
<1> SUFFICES ASSUME Init PROVE AnswerInv OBVIOUS
<1>1. /\ stage \in {"contextualize", "search"} /\ narrow = <<>> /\ hits = <<>> /\ passages = <<>>
      /\ widened = FALSE /\ noted = {} /\ files = {} /\ qa = FALSE /\ result = NoResult
  BY DEF Init
<1>2. ReadInv BY <1>1 DEF ReadInv, Unread, BestInScopeIsRead
<1>3. result.reply = <<>> /\ result.citations = <<>> BY <1>1 DEF NoResult
<1>4. Offered = {} BY <1>1 DEF Offered, ToSet
<1>5. ShownIsBacked BY <1>3, <1>4, NothingShown, BackedIs
<1>6. ShowInv BY <1>1, <1>3, <1>5, NothingShown DEF ShowInv
<1>7. JudgedInv BY <1>1 DEF JudgedInv
<1>8. QED BY <1>2, <1>6, <1>7 DEF AnswerInv

LEMMA ShowStep == AnswerInv /\ [Next]_vars => ShowInv'
<1> SUFFICES ASSUME AnswerInv, [Next]_vars PROVE ShowInv' OBVIOUS
<1>1. ReadInv /\ ShowInv BY DEF AnswerInv
<1>2. /\ passages \in Seq(Chunks) /\ qa \in BOOLEAN /\ result.reply \in Seq(Tokens)
      /\ files \subseteq {f \in Files : AppOfFile[f] \in Slugs}
      /\ Backs(passages, result.citations) /\ Shows(result.reply, files, Slugs)
  BY <1>1, BackedIs DEF ReadInv, ShowInv
<1>3. \A available, slugs, read :
        /\ NoResult.reply \in Seq(Tokens) /\ Shows(NoResult.reply, available, slugs)
        /\ Backs(read, NoResult.citations)
  BY NothingShown DEF NoResult
<1>4. ASSUME UNCHANGED <<passages, files>> PROVE Slugs' = Slugs /\ Offered' = Offered
  BY <1>4 DEF Slugs, Offered, Rewritten
\* The search and the images: nothing is written yet.
<1>5. ASSUME stage \in Unwritten, UNCHANGED result, qa' \in BOOLEAN,
             files' \subseteq {f \in Files : AppOfFile[f] \in Slugs'}
      PROVE  ShowInv'
  <2>1. result' = NoResult BY <1>1, <1>5 DEF ShowInv
  <2>2. /\ result'.reply \in Seq(Tokens) /\ Shows(result'.reply, files', Slugs')
        /\ Backs(passages', result'.citations)
    BY <1>3, <2>1
  <2>3. QED BY <1>5, <2>1, <2>2, ShownAfter
\* Once something is: what was read stays, and a step says what its result shows.
<1>6. ASSUME UNCHANGED <<passages, files, qa>>, stage' \notin Unwritten,
             result'.reply \in Seq(Tokens), Backs(passages, result'.citations),
             Shows(result'.reply, files, Slugs)
      PROVE  ShowInv'
  BY <1>2, <1>4, <1>6, ShownAfter
<1>7. ASSUME UNCHANGED <<passages, files, qa, result>>,
             stage' \notin Unwritten \/ stage \in Unwritten
      PROVE  ShowInv'
  BY <1>2, <1>4, <1>5, <1>6, <1>7
<1>8. ASSUME UNCHANGED <<passages, files, qa>>, HandOff PROVE ShowInv'
  <2>1. /\ stage' = "present" /\ result'.reply = NoResult.reply
        /\ result'.citations = NoResult.citations
    BY <1>8 DEF HandOff, NoResult
  <2>2. stage' \notin Unwritten BY <2>1 DEF Unwritten, Unread
  <2>3. QED BY <1>3, <1>6, <1>8, <2>1, <2>2
<1>9. CASE UNCHANGED vars
  BY <1>1, <1>9, <1>7, <1>2, <1>4, BackedIs DEF vars, retrieved, ShowInv
<1>10. CASE Contextualize
  BY <1>10, <1>7 DEF Contextualize, retrieved, Unwritten, Unread
<1>11. CASE Search
  <2>1. stage = "search" /\ UNCHANGED <<files, qa, result>> BY <1>11 DEF Search
  <2>2. files = {} BY <1>1, <2>1 DEF ReadInv, Unread
  <2>3. QED BY <1>2, <1>5, <2>1, <2>2 DEF Unwritten, Unread
<1>12. CASE Widen
  <2>1. stage = "widen" /\ UNCHANGED <<files, qa, result>> BY <1>12 DEF Widen
  <2>2. files = {} BY <1>1, <2>1 DEF ReadInv, Unread
  <2>3. QED BY <1>2, <1>5, <2>1, <2>2 DEF Unwritten, Unread
<1>13. CASE FindImages
  <2>1. /\ stage = "images" /\ UNCHANGED <<passages, qa, result>>
        /\ files' \in SUBSET {f \in Files : AppOfFile[f] \in Slugs}
    BY <1>13 DEF FindImages
  <2>2. Slugs' = Slugs BY <2>1 DEF Slugs
  <2>3. QED BY <1>2, <1>5, <2>1, <2>2 DEF Unwritten
<1>14. CASE SearchQA
  <2>1. stage = "qa" /\ UNCHANGED <<passages, files, result>> /\ qa' \in BOOLEAN
    BY <1>14 DEF SearchQA
  <2>2. QED BY <1>2, <1>4, <1>5, <2>1 DEF Unwritten
<1>15. CASE Compose
  <2>1. PICK composed \in Compositions : result' = ResultOf(composed) BY <1>15 DEF Compose
  <2>2. /\ composed.status \in Statuses /\ composed.answer \in Seq(Tokens)
        /\ composed.cited \in Seq(ToSet(composed.cited))
    BY <1>2, <2>1, CompositionFacts
  <2>3. \/ result'.reply = <<>> /\ result'.citations = <<>>
        \/ /\ result'.reply = SelectImages(Scrub(composed.answer), files)
           /\ result'.citations = SelectCitations(composed.cited, passages, qa)
    BY <2>1, <2>2, ResultFacts
  <2>4. UNCHANGED <<passages, files, qa>> /\ stage' \notin Unwritten
    BY <1>15 DEF Compose, retrieved, Unwritten, Unread
  <2>5. CASE result'.reply = <<>> /\ result'.citations = <<>>
    BY <1>6, <2>4, <2>5, NothingShown
  <2>6. CASE /\ result'.reply = SelectImages(Scrub(composed.answer), files)
             /\ result'.citations = SelectCitations(composed.cited, passages, qa)
    <3>1. Scrub(composed.answer) \in Seq(Tokens) BY <2>2, WithoutFacts DEF Scrub
    <3>2. result'.reply \in Seq(Tokens) /\ Shows(result'.reply, files, Slugs)
      BY <1>2, <2>6, <3>1, SelectionShown
    <3>3. PICK cited : cited = composed.cited OBVIOUS
    <3>4. Backs(passages, SelectCitations(cited, passages, qa))
      BY <1>2, <2>2, <3>3, CitationFacts
    <3>5. QED BY <1>6, <2>4, <2>6, <3>2, <3>3, <3>4
  <2>7. QED BY <2>3, <2>5, <2>6
<1>16. CASE Judge
  <2>1. UNCHANGED <<passages, files, qa>> /\ stage' \in {"repair", "present"}
    BY <1>16 DEF Judge, HandOff, retrieved
  <2>2. stage' \notin Unwritten BY <2>1 DEF Unwritten, Unread
  <2>3. CASE UNCHANGED result BY <1>7, <2>1, <2>2, <2>3
  <2>4. CASE HandOff BY <1>8, <2>1, <2>4
  <2>5. ASSUME NEW text \in AppliedClaims(result.reply, verdict'.claims),
               result' = [result EXCEPT !.reply = text]
        PROVE  ShowInv'
    <3>1. verdict' \in Verdicts(result.reply) BY <1>16 DEF Judge
    <3>2. verdict'.claims \in Seq(ToSet(verdict'.claims)) BY <3>1, VerdictFacts
    <3>3. text \in EditAll(result.reply, verdict'.claims) /\ ImagesIn(text) = ImagesIn(result.reply)
      BY DEF AppliedClaims
    <3>4. PICK claims : claims = verdict'.claims OBVIOUS
    <3>5. text \in Seq(Tokens) BY <1>2, <3>2, <3>3, <3>4, EditedFacts
    <3>6. Shows(text, files, Slugs) BY <1>2, <3>3 DEF Shows
    <3>7. result'.reply = text /\ result'.citations = result.citations BY <2>5
    <3>8. QED BY <1>2, <1>6, <2>1, <2>2, <3>5, <3>6, <3>7
  <2>6. QED BY <1>16, <2>3, <2>4, <2>5 DEF Judge
<1>17. CASE Repair
  <2>1. UNCHANGED <<passages, files, qa>> /\ stage' \in {"recheck", "present"}
    BY <1>17 DEF Repair, HandOff, retrieved
  <2>2. stage' \notin Unwritten BY <2>1 DEF Unwritten, Unread
  <2>3. CASE HandOff BY <1>8, <2>1, <2>3
  <2>4. ASSUME NEW text \in Written(Replies), result' = [result EXCEPT !.reply = RepairOf(text)]
        PROVE  ShowInv'
    <3>1. text \in Seq(Tokens)
      <4>1. text = <<>> \/ text \in Replies BY WrittenFacts
      <4>2. <<>> \in Seq(Tokens) OBVIOUS
      <4>3. QED BY <4>1, <4>2, AnsweringConstants
    <3>2. {FileOf[m] : m \in ToSet(ImagesIn(result.reply))} \subseteq files BY <1>2 DEF Shows
    <3>3. RepairOf(text) \in Seq(Tokens) /\ Shows(RepairOf(text), files, Slugs)
      BY <1>2, <3>1, <3>2, SelectionShown DEF RepairOf
    <3>4. result'.reply = RepairOf(text) /\ result'.citations = result.citations BY <2>4
    <3>5. QED BY <1>2, <1>6, <2>1, <2>2, <3>3, <3>4
  <2>5. QED BY <1>17, <2>3, <2>4 DEF Repair
<1>18. CASE Recheck
  <2>1. UNCHANGED <<passages, files, qa>> /\ stage' = "present"
    BY <1>18 DEF Recheck, HandOff, retrieved
  <2>2. stage' \notin Unwritten BY <2>1 DEF Unwritten, Unread
  <2>3. CASE UNCHANGED result BY <1>7, <2>1, <2>2, <2>3
  <2>4. CASE HandOff BY <1>8, <2>1, <2>4
  <2>5. QED BY <1>18, <2>3, <2>4 DEF Recheck
<1>19. CASE Present BY <1>19, <1>7 DEF Present, retrieved, Unwritten, Unread
<1>20. CASE Raise BY <1>20, <1>7 DEF Raise, retrieved, Unwritten, Unread
<1>21. QED
  BY <1>9, <1>10, <1>11, <1>12, <1>13, <1>14, <1>15, <1>16, <1>17, <1>18, <1>19, <1>20 DEF Next

-----------------------------------------------------------------------------
(* What the judge has seen.                                                *)

LEMMA HandedOff ==
  ASSUME HandOff
  PROVE  stage' = "present" /\ ~ Sourced'
BY DEF HandOff, Sourced, NoResult

LEMMA JudgedStep == AnswerInv /\ [Next]_vars => JudgedInv'
<1> SUFFICES ASSUME AnswerInv, [Next]_vars PROVE JudgedInv' OBVIOUS
<1>1. JudgedInv /\ result.reply \in Seq(Tokens) /\ passages \in Seq(Chunks) /\ qa \in BOOLEAN
  BY DEF AnswerInv, ShowInv, ReadInv
<1>2. ASSUME stage' = "present", Sourced' => Settled' PROVE JudgedInv'
  BY <1>2 DEF JudgedInv
<1>3. ASSUME HandOff PROVE JudgedInv' BY <1>2, <1>3, HandedOff
<1>4. ASSUME stage' \notin {"present", "done"} PROVE JudgedInv' BY <1>4 DEF JudgedInv
<1>5. CASE UNCHANGED vars BY <1>1, <1>5 DEF vars, JudgedInv, Sourced, Settled, Passes
<1>6. CASE Contextualize BY <1>4, <1>6 DEF Contextualize
<1>7. CASE Search BY <1>4, <1>7 DEF Search
<1>8. CASE Widen BY <1>4, <1>8 DEF Widen
<1>9. CASE FindImages BY <1>4, <1>9 DEF FindImages
<1>10. CASE SearchQA BY <1>4, <1>10 DEF SearchQA
<1>11. CASE Compose
  <2>1. PICK composed \in Compositions : result' = ResultOf(composed) BY <1>11 DEF Compose
  <2>2. composed.status \in Statuses /\ composed.cited \in Seq(ToSet(composed.cited))
    BY <1>1, <2>1, CompositionFacts
  <2>3. PICK cited : cited = composed.cited OBVIOUS
  <2>4. SelectCitations(cited, passages, qa) # <<>> => CitesAPassage(cited, passages, qa)
    BY <1>1, <2>2, <2>3, CitationFacts
  <2>5. /\ result'.status # "handed_off"
        /\ \/ result'.citations = <<>>
           \/ /\ result'.citations = SelectCitations(cited, passages, qa)
              /\ result'.status = "answer" => result'.judged = CitesAPassage(cited, passages, qa)
    BY <2>1, <2>2, <2>3, ResultFacts
  <2>6. Sourced' => result'.status = "answer" /\ result'.judged BY <2>4, <2>5 DEF Sourced
  <2>7. stage' = IF result'.status = "suspected_bug" THEN "done"
                 ELSE IF result'.judged THEN "judge" ELSE "present"
    BY <1>11 DEF Compose
  <2>8. QED BY <2>6, <2>7 DEF JudgedInv
<1>12. CASE Judge
  <2>1. verdict' \in Verdicts(result.reply) BY <1>12 DEF Judge
  <2>2. verdict'.of = result.reply /\ verdict'.claims \in Seq(ToSet(verdict'.claims))
    BY <2>1, VerdictFacts
  <2>3. CASE Passes(verdict') /\ stage' = "present" /\ UNCHANGED result
    BY <1>2, <2>2, <2>3 DEF Settled, Passes
  <2>4. CASE HandOff BY <1>3, <2>4
  <2>5. CASE stage' = "repair" BY <1>4, <2>5
  <2>6. ASSUME ~ Passes(verdict'), stage' = "present",
               NEW text \in AppliedClaims(result.reply, verdict'.claims),
               result' = [result EXCEPT !.reply = text]
        PROVE  JudgedInv'
    <3>1. text \in EditAll(result.reply, verdict'.claims) /\ Prose(text) # <<>>
      BY DEF AppliedClaims
    <3>2. PICK claims : claims = verdict'.claims OBVIOUS
    <3>3. Undone(text, claims, Len(claims)) BY <1>1, <2>2, <3>1, <3>2, EditedFacts
    <3>4. CASE Sourced'
      <4>1. result'.reply = text BY <2>6
      <4>2. (~ Passes(verdict))' BY <2>6 DEF Passes
      <4>3. Settled' BY <2>2, <3>1, <3>2, <3>3, <4>1, <4>2 DEF Settled
      <4>4. QED BY <1>2, <2>6, <4>3
    <3>5. QED BY <1>2, <2>6, <3>4
  <2>7. QED BY <1>12, <2>3, <2>4, <2>5, <2>6 DEF Judge
<1>13. CASE Repair
  <2>1. HandOff \/ stage' = "recheck" BY <1>13 DEF Repair
  <2>2. QED BY <1>3, <1>4, <2>1
<1>14. CASE Recheck
  <2>1. verdict' \in Verdicts(result.reply) BY <1>14 DEF Recheck
  <2>2. verdict'.of = result.reply BY <2>1, VerdictFacts
  <2>3. CASE HandOff BY <1>3, <2>3
  <2>4. CASE Passes(verdict') /\ stage' = "present" /\ UNCHANGED result
    BY <1>2, <2>2, <2>4 DEF Settled, Passes
  <2>5. QED BY <1>14, <2>3, <2>4 DEF Recheck
<1>15. CASE Present
  <2>1. /\ stage = "present" /\ stage' = "done" /\ UNCHANGED <<result, verdict>>
        /\ shown' \in {PresignMarkers(result.reply, ToSet(ImagesIn(result.reply))),
                       Strip(result.reply)}
    BY <1>15 DEF Present
  <2>2. shown' \in {result.reply, Strip(result.reply)} BY <1>1, <2>1, Presented
  <2>3. Sourced' => Settled' BY <1>1, <2>1 DEF JudgedInv, Sourced, Settled, Passes
  <2>4. QED BY <2>1, <2>2, <2>3 DEF JudgedInv
<1>16. CASE Raise BY <1>4, <1>16 DEF Raise
<1>17. QED
  BY <1>5, <1>6, <1>7, <1>8, <1>9, <1>10, <1>11, <1>12, <1>13, <1>14, <1>15, <1>16 DEF Next

LEMMA SettledIsJudged == AnswerInv => SourcedAnswersAreJudged
<1> SUFFICES ASSUME AnswerInv, stage = "done", Sourced
             PROVE  /\ Strip(shown) = Strip(result.reply)
                    /\ \/ Passes(verdict) /\ verdict.of = result.reply
                       \/ /\ ~Passes(verdict)
                          /\ \E text \in AppliedClaims(verdict.of, verdict.claims) :
                               Strip(text) = Strip(shown)
                          /\ \A i \in DOMAIN verdict.claims :
                               Contains(shown, verdict.claims[i].span) =>
                                 \E k \in DOMAIN verdict.claims :
                                   k > i /\ verdict.claims[k].replacement = verdict.claims[i].span
                          /\ Prose(shown) # <<>>
  BY DEF SourcedAnswersAreJudged, Sourced
<1>1. /\ result.reply \in Seq(Tokens) /\ shown \in {result.reply, Strip(result.reply)} /\ Settled
  BY DEF AnswerInv, ShowInv, JudgedInv
<1>2. PICK reply \in Seq(Tokens) : reply = result.reply BY <1>1
<1>3. /\ Strip(reply) \in Seq(Tokens) /\ Strip(Strip(reply)) = Strip(reply)
      /\ ToSet(Strip(reply)) \subseteq ToSet(reply)
      /\ Prose(reply) # <<>> => Prose(Strip(reply)) # <<>>
  BY Presented
<1>4. Strip(shown) = Strip(reply) /\ shown \in Seq(Tokens) /\ ToSet(shown) \subseteq ToSet(reply)
  BY <1>1, <1>2, <1>3
<1>5. CASE Passes(verdict) /\ verdict.of = result.reply BY <1>2, <1>4, <1>5
<1>6. CASE /\ ~Passes(verdict) /\ result.reply \in AppliedClaims(verdict.of, verdict.claims)
           /\ verdict.claims \in Seq(ToSet(verdict.claims))
           /\ Undone(result.reply, verdict.claims, Len(verdict.claims))
           /\ Prose(result.reply) # <<>>
  <2>1. Prose(shown) # <<>> BY <1>1, <1>2, <1>3, <1>6
  <2>2. DOMAIN verdict.claims = 1 .. Len(verdict.claims) BY <1>6
  <2>3. \A span : Contains(shown, span) => span \in ToSet(reply)
    BY <1>4 DEF Contains, ToSet
  <2>4. \A i \in DOMAIN verdict.claims : Contains(shown, verdict.claims[i].span) =>
          \E k \in DOMAIN verdict.claims :
            k > i /\ verdict.claims[k].replacement = verdict.claims[i].span
    BY <1>2, <1>6, <2>2, <2>3 DEF Undone
  <2>5. QED BY <1>2, <1>4, <1>6, <2>1, <2>4
<1>7. QED BY <1>1, <1>5, <1>6 DEF Settled

-----------------------------------------------------------------------------
(* The theorems.                                                           *)

LEMMA AnswerAlways == Spec => []AnswerInv
<1>1. AnswerInv /\ [Next]_vars => AnswerInv'
  BY ReadStep, ShowStep, JudgedStep DEF AnswerInv
<1>2. QED BY InitHolds, <1>1, PTL DEF Spec

\* However many chunks, documents and applications there are, and whatever the index
\* answers with: a hit is passed over only for TopK better ones, or for PerDoc better ones
\* of its own document; nothing out of scope is read, and the wider scope only when the
\* search in the narrow one found nothing (_query and search_with_fallback, rag_client.py).
THEOREM BestAlwaysRead == Spec => []BestInScopeIsRead
<1>1. AnswerInv => BestInScopeIsRead BY DEF AnswerInv, ReadInv
<1>2. QED BY AnswerAlways, <1>1, PTL

\* Whatever the composer, the judge and the repair write: the sources shown are guides
\* that were read, none twice, under one of their own headings, and the images are files
\* of those guides, none twice and not too many (citations.py, doc_images.py).
THEOREM ShownAlwaysBacked == Spec => []ShownIsBacked
<1>1. AnswerInv => ShownIsBacked BY DEF AnswerInv, ShowInv
<1>2. QED BY AnswerAlways, <1>1, PTL

\* An answer that reaches the user with a source is, but for its images, the text the
\* last verdict passed, or what the claims it named make of that text, with none of what
\* they name but what a later one put back, whatever is written and judged (check_output
\* and _repair_or_escalate, agents/coordinator.py).  Replies that ask back are not judged.
THEOREM SourcedAlwaysJudged == Spec => []SourcedAnswersAreJudged
<1>1. QED BY AnswerAlways, SettledIsJudged, PTL
=============================================================================
