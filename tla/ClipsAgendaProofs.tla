------------------------- MODULE ClipsAgendaProofs -------------------------
(***************************************************************************)
(* Proofs about ClipsAgenda for any rules, matches, modules and saliences: *)
(* placing an activation keeps an agenda ordered and its salience groups   *)
(* exact, so does removing one, and every operation of the engine is made  *)
(* of these two.                                                           *)
(***************************************************************************)
EXTENDS ClipsAgenda, FiniteSetTheorems, SequenceTheorems, TLAPS

-----------------------------------------------------------------------------
(* Numbers and sequences. *)

\* Every nonempty set of naturals has a least element.
LEMMA NatMin ==
  ASSUME NEW S \in SUBSET Nat, S # {}
  PROVE  \E x \in S : \A y \in S : x <= y
<1>1. PICK x \in S : \A y \in S : <<y, x>> \notin OpToRel(<, Nat)
  BY NatLessThanWellFounded, WFMin
<1>2. \A y \in S : ~(y < x)
  BY <1>1 DEF OpToRel
<1>3. QED
  BY <1>2

\* Induction up to k, for membership in a set.
LEMMA Induction ==
  ASSUME NEW k \in Nat, NEW S, 0 \in S, \A i \in 0..k - 1 : i \in S => i + 1 \in S
  PROVE  0..k \subseteq S
<1>1. SUFFICES ASSUME 0..k \ S # {} PROVE FALSE
  OBVIOUS
<1>2. PICK x \in (0..k \ S) : \A y \in (0..k \ S) : x <= y
  <2>1. 0..k \ S \in SUBSET Nat
    OBVIOUS
  <2>2. QED
    BY <1>1, <2>1, NatMin
<1>3. x # 0 /\ x - 1 \in 0..k - 1 /\ x - 1 \in S
  BY <1>2
<1>4. (x - 1) + 1 \in S
  BY <1>3
<1>5. QED
  BY <1>2, <1>4

\* Min picks the least element.
LEMMA MinOK ==
  ASSUME NEW S \in SUBSET Nat, S # {}
  PROVE  Min(S) \in S /\ \A y \in S : Min(S) <= y
BY NatMin DEF Min

\* Max picks the greatest element of a bounded set.
LEMMA MaxOK ==
  ASSUME NEW S \in SUBSET Nat, S # {}, NEW b \in Nat, \A y \in S : y <= b
  PROVE  Max(S) \in S /\ \A y \in S : y <= Max(S)
<1>1. PICK x \in {u \in Nat : \A y \in S : y <= u} :
         \A z \in {u \in Nat : \A y \in S : y <= u} : x <= z
  <2>1. b \in {u \in Nat : \A y \in S : y <= u}
    OBVIOUS
  <2>2. QED
    BY <2>1, NatMin
<1>2. x \in S
  <2>1. SUFFICES ASSUME x \notin S PROVE FALSE
    OBVIOUS
  <2>2. \A y \in S : y <= x /\ y # x
    BY <1>1, <2>1
  <2>3. x \in Nat /\ x # 0
    <3>1. PICK y \in S : TRUE
      OBVIOUS
    <3>2. QED
      BY <1>1, <2>2, <3>1
  <2>4. x - 1 \in Nat /\ \A y \in S : y <= x - 1
    BY <2>2, <2>3
  <2>5. x <= x - 1
    BY <1>1, <2>4
  <2>6. QED
    BY <2>3, <2>5
<1>3. \E v \in S : \A y \in S : v >= y
  BY <1>1, <1>2
<1>4. QED
  BY <1>3 DEF Max

\* A least element is the minimum, a greatest one the maximum.
LEMMA MinIs ==
  ASSUME NEW S \in SUBSET Nat, NEW x \in S, \A y \in S : x <= y
  PROVE  Min(S) = x
<1>1. Min(S) \in S /\ \A y \in S : Min(S) <= y
  BY MinOK
<1>2. PICK z \in Nat : z = Min(S)
  BY <1>1
<1>3. z <= x /\ x <= z /\ x \in Nat
  BY <1>1, <1>2
<1>4. QED
  BY <1>2, <1>3

LEMMA MaxIs ==
  ASSUME NEW S \in SUBSET Nat, NEW x \in S, \A y \in S : y <= x
  PROVE  Max(S) = x
<1>1. Max(S) \in S /\ \A y \in S : y <= Max(S)
  BY MaxOK
<1>2. PICK z \in Nat : z = Max(S)
  BY <1>1
<1>3. z <= x /\ x <= z /\ x \in Nat
  BY <1>1, <1>2
<1>4. QED
  BY <1>2, <1>3

\* The element at k once e is inserted at i, and what InsertAt returns.
Inserted(s, i, e, k) == IF k < i THEN s[k] ELSE IF k = i THEN e ELSE s[k - 1]

LEMMA InsertOK ==
  ASSUME NEW S, NEW s \in Seq(S), NEW i \in 1..Len(s) + 1, NEW e \in S
  PROVE  /\ InsertAt(s, i, e) \in Seq(S)
         /\ Len(InsertAt(s, i, e)) = Len(s) + 1
         /\ \A k \in 1..Len(s) + 1 : InsertAt(s, i, e)[k] = Inserted(s, i, e, k)
<1> DEFINE b  == SubSeq(s, 1, i - 1)
           c  == SubSeq(s, i, Len(s))
           be == b \o <<e>>
<1>1. b \in Seq(S) /\ Len(b) = i - 1 /\ \A k \in 1..i - 1 : b[k] = s[k]
  BY SubSeqProperties
<1>2. c \in Seq(S) /\ Len(c) = Len(s) + 1 - i /\ \A k \in 1..Len(s) + 1 - i : c[k] = s[i + k - 1]
  BY SubSeqProperties
<1>3. <<e>> \in Seq(S) /\ Len(<<e>>) = 1 /\ <<e>>[1] = e
  OBVIOUS
<1>4. InsertAt(s, i, e) = be \o c
  BY DEF InsertAt
<1> HIDE DEF b, c
<1>5. be \in Seq(S) /\ Len(be) = i /\ \A k \in 1..i : be[k] = IF k < i THEN s[k] ELSE e
  BY <1>1, <1>3, ConcatProperties
<1> HIDE DEF be
<1>6. /\ be \o c \in Seq(S)
      /\ Len(be \o c) = Len(be) + Len(c)
      /\ \A k \in 1..Len(be) + Len(c) :
           (be \o c)[k] = IF k <= Len(be) THEN be[k] ELSE c[k - Len(be)]
  BY <1>2, <1>5, ConcatProperties
<1>7. Len(be) = i /\ Len(be) + Len(c) = Len(s) + 1
  BY <1>2, <1>5
<1>8. QED
  BY <1>2, <1>4, <1>5, <1>6, <1>7 DEF Inserted

\* What RemoveAt returns.
LEMMA RemoveOK ==
  ASSUME NEW S, NEW s \in Seq(S), NEW i \in 1..Len(s)
  PROVE  /\ RemoveAt(s, i) \in Seq(S)
         /\ Len(RemoveAt(s, i)) = Len(s) - 1
         /\ \A k \in 1..Len(s) - 1 : RemoveAt(s, i)[k] = IF k < i THEN s[k] ELSE s[k + 1]
<1> DEFINE b == SubSeq(s, 1, i - 1)
           c == SubSeq(s, i + 1, Len(s))
<1>1. b \in Seq(S) /\ Len(b) = i - 1 /\ \A k \in 1..i - 1 : b[k] = s[k]
  BY SubSeqProperties
<1>2. c \in Seq(S) /\ Len(c) = Len(s) - i /\ \A k \in 1..Len(s) - i : c[k] = s[i + k]
  BY SubSeqProperties
<1>3. RemoveAt(s, i) = b \o c
  BY DEF RemoveAt
<1> HIDE DEF b, c
<1>4. /\ b \o c \in Seq(S)
      /\ Len(b \o c) = Len(b) + Len(c)
      /\ \A k \in 1..Len(b) + Len(c) :
           (b \o c)[k] = IF k <= Len(b) THEN b[k] ELSE c[k - Len(b)]
  BY <1>1, <1>2, ConcatProperties
<1>5. Len(b) = i - 1 /\ Len(b) + Len(c) = Len(s) - 1
  BY <1>1, <1>2
<1>6. \A k \in 1..Len(s) - 1 :
         ~(k < i) => k - (i - 1) \in 1..Len(s) - i /\ i + (k - (i - 1)) = k + 1
  OBVIOUS
<1>7. QED
  BY <1>1, <1>2, <1>3, <1>4, <1>5, <1>6

-----------------------------------------------------------------------------
(* Conflict resolution is a strict total order. *)

\* Any finite family of numbers can be sorted.
LEMMA SortExists ==
  ASSUME NEW k \in Nat
  PROVE  \A b \in [1..k -> Nat] : \E q \in [1..k -> 1..k] :
           \A i, j \in 1..k : i < j => q[i] # q[j] /\ b[q[i]] >= b[q[j]]
<1> DEFINE P(n) == \A b \in [1..n -> Nat] : \E q \in [1..n -> 1..n] :
                     \A i, j \in 1..n : i < j => q[i] # q[j] /\ b[q[i]] >= b[q[j]]
           S == {n \in Nat : P(n)}
<1>1. 0 \in S
  OBVIOUS
<1> HIDE DEF S
<1>2. ASSUME NEW n \in 0..k - 1, n \in S PROVE n + 1 \in S
  <2> SUFFICES ASSUME NEW b \in [1..n + 1 -> Nat]
               PROVE  \E q \in [1..n + 1 -> 1..n + 1] : \A i, j \in 1..n + 1 :
                        i < j => q[i] # q[j] /\ b[q[i]] >= b[q[j]]
    <3>1. n + 1 \in Nat
      OBVIOUS
    <3>2. QED
      BY <3>1 DEF S
  <2>0. n \in Nat /\ P(n)
    BY <1>2 DEF S
  <2>1. PICK c \in 1..n + 1 : \A i \in 1..n + 1 : b[c] <= b[i]
    <3>1. {b[i] : i \in 1..n + 1} \in SUBSET Nat /\ b[1] \in {b[i] : i \in 1..n + 1}
      OBVIOUS
    <3>2. PICK x \in {b[i] : i \in 1..n + 1} : \A y \in {b[i] : i \in 1..n + 1} : x <= y
      BY <3>1, NatMin
    <3>3. QED
      BY <3>2
  <2> DEFINE d == [i \in 1..n |-> IF i = c THEN b[n + 1] ELSE b[i]]
  <2>2. d \in [1..n -> Nat]
    OBVIOUS
  <2>3. PICK p \in [1..n -> 1..n] :
          \A i, j \in 1..n : i < j => p[i] # p[j] /\ d[p[i]] >= d[p[j]]
    BY <2>0, <2>2
  <2> DEFINE q == [i \in 1..n + 1 |-> IF i = n + 1 THEN c
                                      ELSE IF p[i] = c THEN n + 1 ELSE p[i]]
  <2>4. q \in [1..n + 1 -> 1..n + 1]
    <3> SUFFICES ASSUME NEW i \in 1..n + 1 PROVE q[i] \in 1..n + 1
      OBVIOUS
    <3>1. CASE i = n + 1
      BY <2>0, <3>1
    <3>2. CASE i \in 1..n
      <4>1. p[i] \in 1..n
        BY <2>3, <3>2
      <4>2. q[i] = IF p[i] = c THEN n + 1 ELSE p[i]
        BY <2>0, <3>2
      <4> HIDE DEF q
      <4>3. n \in 0..n + 1 /\ 1..n \subseteq 1..n + 1 /\ n + 1 \in 1..n + 1
        BY <2>0
      <4>4. QED
        BY <4>1, <4>2, <4>3
    <3>3. QED
      BY <2>0, <3>1, <3>2
  <2>5. ASSUME NEW i \in 1..n
        PROVE  p[i] \in 1..n /\ b[q[i]] = d[p[i]] /\ q[i] # c
    <3>1. p[i] \in 1..n /\ i \in 1..n + 1 /\ i # n + 1
      <4>1. p[i] \in 1..n
        BY ONLY <2>5, p \in [1..n -> 1..n]
      <4>2. i \in 1..n + 1 /\ i # n + 1
        BY ONLY <2>0, <2>5
      <4>3. QED
        BY ONLY <4>1, <4>2
    <3>2. q[i] = IF p[i] = c THEN n + 1 ELSE p[i]
      BY <3>1
    <3>3. d[p[i]] = IF p[i] = c THEN b[n + 1] ELSE b[p[i]]
      BY <3>1
    <3> HIDE DEF q, d
    <3>4. CASE p[i] = c
      BY <2>0, <3>1, <3>2, <3>3, <3>4
    <3>5. CASE p[i] # c
      BY <2>0, <3>1, <3>2, <3>3, <3>5
    <3>6. QED
      BY <3>4, <3>5
  <2>6. ASSUME NEW i \in 1..n + 1, NEW j \in 1..n + 1, i < j
        PROVE  q[i] # q[j] /\ b[q[i]] >= b[q[j]]
    <3>1. i \in 1..n /\ q[n + 1] = c
      BY <2>0, <2>6
    <3> HIDE DEF q, d
    <3>2. CASE j = n + 1
      BY <2>1, <2>4, <2>5, <3>1, <3>2
    <3>3. CASE j \in 1..n
      <4>1. p[i] # p[j] /\ d[p[i]] >= d[p[j]]
        BY <2>3, <2>6, <3>1, <3>3
      <4>2. p[i] \in 1..n /\ p[j] \in 1..n /\ q[i] # q[j]
        BY <2>0, <2>5, <3>1, <3>3, <4>1 DEF q
      <4>3. QED
        BY <2>5, <3>1, <3>3, <4>1, <4>2
    <3>4. QED
      BY <2>0, <3>2, <3>3
  <2>7. QED
    <3> HIDE DEF q
    <3>1. QED
      BY <2>4, <2>6
<1>3. 0..k \subseteq S
  BY <1>1, <1>2, Induction
<1>4. k \in S
  BY <1>3
<1>5. QED
  BY <1>4 DEF S

\* SortPartialMatch returns numbers.
LEMMA SortType ==
  ASSUME NEW m \in Match
  PROVE  SortPartialMatch(m) \in Seq(Nat)
<1> DEFINE b == Basis[m]
           good(q) == \A i, j \in DOMAIN b : i < j => b[q[i]] >= b[q[j]]
           p == CHOOSE q \in SetToSeqs(DOMAIN b) : good(q)
<1>1. b \in Seq(Nat) /\ Len(b) \in Nat /\ DOMAIN b = 1..Len(b) /\ b \in [1..Len(b) -> Nat]
  BY AgendaAssumption
<1>2. SetToSeqs(DOMAIN b) = {f \in [1..Len(b) -> 1..Len(b)] :
                               \A i, j \in 1..Len(b) : i # j => f[i] # f[j]}
  <2>1. Cardinality(DOMAIN b) = Len(b)
    BY <1>1, FS_Interval
  <2>2. QED
    BY <1>1, <2>1 DEF SetToSeqs
<1> HIDE DEF b
<1>3. \E q \in SetToSeqs(DOMAIN b) : good(q)
  <2>1. PICK q \in [1..Len(b) -> 1..Len(b)] :
          \A i, j \in 1..Len(b) : i < j => q[i] # q[j] /\ b[q[i]] >= b[q[j]]
    BY <1>1, SortExists
  <2>2. \A i, j \in 1..Len(b) : i # j => q[i] # q[j]
    BY <1>1, <2>1
  <2>3. QED
    BY <1>1, <1>2, <2>1, <2>2
<1>4. p \in SetToSeqs(DOMAIN b)
  <2> HIDE DEF good
  <2>1. QED
    BY <1>3
<1>5. p \in [1..Len(b) -> 1..Len(b)]
  BY <1>2, <1>4
<1>6. SortPartialMatch(m) = [i \in DOMAIN b |-> b[p[i]]]
  BY DEF SortPartialMatch, b
<1> HIDE DEF p
<1>7. QED
  BY <1>1, <1>5, <1>6

\* The comparison of two sorted matches of lengths a and b, without the
\* complexity: t is greater at the first difference, or longer.
Differ(s, a, t, b, i) ==
  i \in 1..a /\ i <= b /\ s[i] < t[i] /\ \A k \in 1..i - 1 : s[k] = t[k]

Prefix(s, a, t, b) == a < b /\ \A k \in 1..a : s[k] = t[k]

Lex(s, a, t, b) == (\E i \in Nat : Differ(s, a, t, b, i)) \/ Prefix(s, a, t, b)

LEMMA LexIrreflexive ==
  ASSUME NEW s, NEW a \in Nat, \A k \in 1..a : s[k] \in Nat
  PROVE  ~Lex(s, a, s, a)
BY DEF Lex, Differ, Prefix

LEMMA LexTotal ==
  ASSUME NEW s, NEW a \in Nat, \A k \in 1..a : s[k] \in Nat,
         NEW t, NEW b \in Nat, \A k \in 1..b : t[k] \in Nat
  PROVE  \/ a = b /\ \A k \in 1..a : s[k] = t[k]
         \/ Lex(s, a, t, b) \/ Lex(t, b, s, a)
<1> DEFINE D == {i \in 1..a : i <= b /\ s[i] # t[i]}
<1>1. CASE D = {}
  BY <1>1 DEF Lex, Prefix
<1>2. CASE D # {}
  <2>1. D \in SUBSET Nat
    OBVIOUS
  <2>2. PICK i \in D : \A k \in D : i <= k
    <3> HIDE DEF D
    <3>1. QED
      BY <1>2, <2>1, NatMin
  <2>3. i \in 1..a /\ i \in 1..b /\ s[i] # t[i]
    BY <2>2
  <2>4. \A k \in 1..i - 1 : s[k] = t[k]
    BY <2>2, <2>3
  <2>5. CASE s[i] < t[i]
    BY <2>3, <2>4, <2>5 DEF Lex, Differ
  <2>6. CASE t[i] < s[i]
    BY <2>3, <2>4, <2>6 DEF Lex, Differ
  <2>7. QED
    BY <2>3, <2>5, <2>6
<1>3. QED
  BY <1>1, <1>2

LEMMA LexTransitive ==
  ASSUME NEW s, NEW a \in Nat, \A k \in 1..a : s[k] \in Nat,
         NEW t, NEW b \in Nat, \A k \in 1..b : t[k] \in Nat,
         NEW u, NEW c \in Nat, \A k \in 1..c : u[k] \in Nat,
         Lex(s, a, t, b), Lex(t, b, u, c)
  PROVE  Lex(s, a, u, c)
<1>1. ASSUME NEW i \in Nat, Differ(s, a, t, b, i) PROVE Lex(s, a, u, c)
  <2>1. ASSUME NEW j \in Nat, Differ(t, b, u, c, j) PROVE Lex(s, a, u, c)
    <3>1. CASE i <= j
      <4>1. Differ(s, a, u, c, i)
        BY <1>1, <2>1, <3>1 DEF Differ
      <4>2. QED
        BY <4>1 DEF Lex
    <3>2. CASE j < i
      <4>1. Differ(s, a, u, c, j)
        BY <1>1, <2>1, <3>2 DEF Differ
      <4>2. QED
        BY <4>1 DEF Lex
    <3>3. QED
      BY <3>1, <3>2
  <2>2. CASE Prefix(t, b, u, c)
    <3>1. Differ(s, a, u, c, i)
      BY <1>1, <2>2 DEF Differ, Prefix
    <3>2. QED
      BY <3>1 DEF Lex
  <2>3. QED
    BY <2>1, <2>2 DEF Lex
<1>2. CASE Prefix(s, a, t, b)
  <2>1. ASSUME NEW j \in Nat, Differ(t, b, u, c, j) PROVE Lex(s, a, u, c)
    <3>1. CASE j <= a
      <4>1. Differ(s, a, u, c, j)
        BY <1>2, <2>1, <3>1 DEF Differ, Prefix
      <4>2. QED
        BY <4>1 DEF Lex
    <3>2. CASE a < j
      <4>1. Prefix(s, a, u, c)
        BY <1>2, <2>1, <3>2 DEF Differ, Prefix
      <4>2. QED
        BY <4>1 DEF Lex
    <3>3. QED
      BY <3>1, <3>2
  <2>2. CASE Prefix(t, b, u, c)
    BY <1>2, <2>2 DEF Lex, Prefix
  <2>3. QED
    BY <2>1, <2>2 DEF Lex
<1>3. QED
  BY <1>1, <1>2 DEF Lex

\* LessRecent is a strict weak order.
LEMMA LessRecentOrder ==
  ASSUME NEW x \in Match, NEW y \in Match, NEW z \in Match
  PROVE  /\ ~LessRecent(x, x)
         /\ ~(LessRecent(x, y) /\ LessRecent(y, x))
         /\ LessRecent(x, y) /\ LessRecent(y, z) => LessRecent(x, z)
         /\ ~LessRecent(x, y) /\ ~LessRecent(y, z) => ~LessRecent(x, z)
<1> DEFINE s(m) == SortPartialMatch(m)
           a(m) == Len(s(m))
           c(m) == Complexity[RuleOf[m]]
           lex(u, v) == Lex(s(u), a(u), s(v), a(v))
<1>1. \A m \in Match : /\ s(m) \in Seq(Nat) /\ a(m) \in Nat /\ c(m) \in Nat
                        /\ DOMAIN s(m) = 1..a(m) /\ \A k \in 1..a(m) : s(m)[k] \in Nat
  <2> TAKE m \in Match
  <2>1. s(m) \in Seq(Nat)
    BY SortType
  <2>2. c(m) \in Nat
    BY AgendaAssumption
  <2> HIDE DEF s
  <2>3. QED
    BY <2>1, <2>2
<1>2. ASSUME NEW u \in Match, NEW v \in Match
      PROVE  LessRecent(u, v) <=> lex(u, v) \/ (s(u) = s(v) /\ c(u) < c(v))
  <2>1. LessRecent(u, v) <=>
          \/ \E i \in DOMAIN s(u) \cap DOMAIN s(v) :
               s(u)[i] < s(v)[i] /\ \A k \in 1..i - 1 : s(u)[k] = s(v)[k]
          \/ Len(s(u)) < Len(s(v)) /\ \A k \in DOMAIN s(u) : s(u)[k] = s(v)[k]
          \/ s(u) = s(v) /\ c(u) < c(v)
    BY DEF LessRecent
  <2> HIDE DEF s, c
  <2>2. (\E i \in DOMAIN s(u) \cap DOMAIN s(v) :
          s(u)[i] < s(v)[i] /\ \A k \in 1..i - 1 : s(u)[k] = s(v)[k])
          <=> \E i \in Nat : Differ(s(u), a(u), s(v), a(v), i)
    <3>1. \A i \in Nat : i \in DOMAIN s(u) \cap DOMAIN s(v) <=> i \in 1..a(u) /\ i <= a(v)
      <4>1. DOMAIN s(u) = 1..a(u) /\ DOMAIN s(v) = 1..a(v) /\ a(u) \in Nat /\ a(v) \in Nat
        BY <1>1
      <4> HIDE DEF a
      <4>2. QED
        BY ONLY <4>1
    <3>2. \A i \in DOMAIN s(u) \cap DOMAIN s(v) : i \in Nat
      <4>1. DOMAIN s(u) = 1..a(u) /\ a(u) \in Nat
        BY <1>1
      <4> HIDE DEF a
      <4>2. QED
        BY ONLY <4>1
    <3>3. QED
      BY <3>1, <3>2 DEF Differ
  <2>3. (Len(s(u)) < Len(s(v)) /\ \A k \in DOMAIN s(u) : s(u)[k] = s(v)[k])
          <=> Prefix(s(u), a(u), s(v), a(v))
    BY <1>1 DEF Prefix
  <2>4. QED
    BY <2>1, <2>2, <2>3 DEF Lex
<1>3. \A u, v, w \in Match :
         /\ ~lex(u, u)
         /\ s(u) = s(v) \/ lex(u, v) \/ lex(v, u)
         /\ lex(u, v) /\ lex(v, w) => lex(u, w)
         /\ s(u) = s(v) => (lex(u, w) <=> lex(v, w)) /\ (lex(w, u) <=> lex(w, v))
  <2> TAKE u, v, w \in Match
  <2> HIDE DEF s, c
  <2>1. ~lex(u, u)
    BY <1>1, LexIrreflexive
  <2>2. lex(u, v) /\ lex(v, w) => lex(u, w)
    BY <1>1, LexTransitive
  <2>3. s(u) = s(v) \/ lex(u, v) \/ lex(v, u)
    <3>1. \/ a(u) = a(v) /\ \A k \in 1..a(u) : s(u)[k] = s(v)[k]
          \/ lex(u, v) \/ lex(v, u)
      BY <1>1, LexTotal
    <3>2. CASE a(u) = a(v) /\ \A k \in 1..a(u) : s(u)[k] = s(v)[k]
      BY <1>1, <3>2, SeqEqual
    <3>3. QED
      BY <3>1, <3>2
  <2>4. QED
    BY <2>1, <2>2, <2>3
<1> HIDE DEF s, a, c, lex
<1>4. /\ ~LessRecent(x, x)
      /\ ~(LessRecent(x, y) /\ LessRecent(y, x))
  BY <1>1, <1>2, <1>3
<1>5. LessRecent(x, y) /\ LessRecent(y, z) => LessRecent(x, z)
  <2>1. c(x) \in Nat /\ c(y) \in Nat /\ c(z) \in Nat
    BY <1>1
  <2>2. s(x) = s(y) /\ c(x) < c(y) /\ s(y) = s(z) /\ c(y) < c(z) => s(x) = s(z) /\ c(x) < c(z)
    BY <2>1
  <2>3. /\ lex(x, y) /\ s(y) = s(z) => lex(x, z)
        /\ s(x) = s(y) /\ lex(y, z) => lex(x, z)
    BY DEF lex, a
  <2>4. lex(x, y) /\ lex(y, z) => lex(x, z)
    BY <1>3
  <2>5. QED
    BY <1>2, <2>2, <2>3, <2>4
<1>6. ~LessRecent(x, y) /\ ~LessRecent(y, z) => ~LessRecent(x, z)
  <2>1. c(x) \in Nat /\ c(y) \in Nat /\ c(z) \in Nat
    BY <1>1
  <2>2. /\ s(x) = s(y) \/ lex(x, y) \/ lex(y, x)
        /\ s(y) = s(z) \/ lex(y, z) \/ lex(z, y)
        /\ lex(z, y) /\ lex(y, x) => lex(z, x)
        /\ lex(x, z) /\ lex(z, x) => lex(x, x)
        /\ ~lex(x, x)
    BY <1>3
  <2>3. /\ s(x) = s(y) => (lex(x, z) <=> lex(y, z)) /\ (lex(z, x) <=> lex(z, y))
        /\ s(y) = s(z) => (lex(y, x) <=> lex(z, x)) /\ (lex(x, y) <=> lex(x, z))
        /\ s(x) = s(z) => (lex(z, x) <=> lex(x, x))
    BY <1>3
  <2>4. /\ LessRecent(x, y) <=> lex(x, y) \/ (s(x) = s(y) /\ c(x) < c(y))
        /\ LessRecent(y, z) <=> lex(y, z) \/ (s(y) = s(z) /\ c(y) < c(z))
        /\ LessRecent(x, z) <=> lex(x, z) \/ (s(x) = s(z) /\ c(x) < c(z))
    BY <1>2
  <2>5. QED
    BY ONLY <2>1, <2>2, <2>3, <2>4
<1>7. QED
  BY <1>4, <1>5, <1>6

Act == [tag : Nat, salience : Int, random : Nat]

\* The activations of E have the data the strategies compare, and time tags
\* that tell them apart.
Ranked(n, E) ==
  /\ E \subseteq Match /\ n.strategy \in Strategy
  /\ \A x \in E : n.act[x] \in Act
  /\ \A x, y \in E : n.act[x].tag = n.act[y].tag => x = y

Salient(n, x) == n.act[x].salience

LEMMA AheadBeats ==
  ASSUME NEW n, NEW x, NEW y
  PROVE  Ahead(n, x, y) <=> \/ Salient(n, x) > Salient(n, y)
                            \/ Salient(n, x) = Salient(n, y) /\ Beats(n, x, y)
BY DEF Ahead, Salient

LEMMA BeatsOrder ==
  ASSUME NEW n, NEW E, Ranked(n, E), NEW x \in E, NEW y \in E, NEW z \in E
  PROVE  /\ ~Beats(n, x, x)
         /\ x = y \/ Beats(n, x, y) \/ Beats(n, y, x)
         /\ Beats(n, x, y) /\ Beats(n, y, z) => Beats(n, x, z)
<1>1. /\ x \in Match /\ y \in Match /\ z \in Match
      /\ n.act[x].tag \in Nat /\ n.act[y].tag \in Nat /\ n.act[z].tag \in Nat
      /\ n.act[x].random \in Nat /\ n.act[y].random \in Nat /\ n.act[z].random \in Nat
      /\ n.act[x].tag = n.act[y].tag => x = y
  BY DEF Ranked, Act
<1>2. \A u \in Match : Complexity[RuleOf[u]] \in Nat /\ Basis[u][1] \in Nat
  BY AgendaAssumption
<1>3. \A u, v, w \in {x, y, z} :
        /\ ~LessRecent(u, u)
        /\ ~(LessRecent(u, v) /\ LessRecent(v, u))
        /\ LessRecent(u, v) /\ LessRecent(v, w) => LessRecent(u, w)
        /\ ~LessRecent(u, v) /\ ~LessRecent(v, w) => ~LessRecent(u, w)
  BY <1>1, LessRecentOrder
<1>4. CASE n.strategy = "depth"
  BY <1>1, <1>4 DEF Beats
<1>5. CASE n.strategy = "breadth"
  BY <1>1, <1>5 DEF Beats
<1>6. CASE n.strategy = "lex"
  BY <1>1, <1>3, <1>6 DEF Beats
<1>7. CASE n.strategy = "mea"
  BY <1>1, <1>2, <1>3, <1>7 DEF Beats
<1>8. CASE n.strategy = "complexity"
  BY <1>1, <1>2, <1>8 DEF Beats
<1>9. CASE n.strategy = "simplicity"
  BY <1>1, <1>2, <1>9 DEF Beats
<1>10. CASE n.strategy = "random"
  BY <1>1, <1>10 DEF Beats
<1>11. QED
  BY <1>4, <1>5, <1>6, <1>7, <1>8, <1>9, <1>10, AgendaAssumption DEF Ranked

\* Ahead orders the activations of an agenda totally, by salience first.
LEMMA AheadOrder ==
  ASSUME NEW n, NEW E, Ranked(n, E)
  PROVE  /\ \A x \in E : Salient(n, x) \in Int /\ ~Ahead(n, x, x)
         /\ \A x, y \in E : x = y \/ Ahead(n, x, y) \/ Ahead(n, y, x)
         /\ \A x, y \in E : Ahead(n, x, y) => Salient(n, x) >= Salient(n, y)
         /\ \A x, y \in E : Salient(n, x) > Salient(n, y) => Ahead(n, x, y)
         /\ \A x, y, z \in E : Ahead(n, x, y) /\ Ahead(n, y, z) => Ahead(n, x, z)
<1>1. \A x \in E : Salient(n, x) \in Int
  BY DEF Ranked, Act, Salient
<1>2. QED
  BY <1>1, BeatsOrder, AheadBeats

\* The search of each strategy moves past exactly the better activations.
LEMMA AfterAhead ==
  ASSUME NEW n, NEW E, Ranked(n, E), NEW new \in E, NEW old \in E, new # old,
         Salient(n, new) = Salient(n, old)
  PROVE  After(n, new, old) <=> Ahead(n, old, new)
<1>1. /\ new \in Match /\ old \in Match
      /\ n.act[new].tag \in Nat /\ n.act[old].tag \in Nat
      /\ n.act[new].random \in Nat /\ n.act[old].random \in Nat
      /\ n.act[new].tag # n.act[old].tag
  BY DEF Ranked, Act
<1>2. \A u \in Match : Complexity[RuleOf[u]] \in Nat /\ Basis[u][1] \in Nat
  BY AgendaAssumption
<1>3. After(n, new, old) <=> Beats(n, old, new)
  <2>1. CASE n.strategy = "depth"
    BY <1>1, <2>1 DEF Beats, After, DepthAfter, Newer
  <2>2. CASE n.strategy = "breadth"
    BY <1>1, <2>2 DEF Beats, After, BreadthAfter, Newer
  <2>3. CASE n.strategy = "lex"
    BY <1>1, <2>3 DEF Beats, After, LEXAfter, Newer
  <2>4. CASE n.strategy = "mea"
    BY <1>1, <1>2, <2>4 DEF Beats, After, MEAAfter, LEXAfter, Newer
  <2>5. CASE n.strategy = "complexity"
    BY <1>1, <1>2, <2>5 DEF Beats, After, ComplexityAfter, Newer
  <2>6. CASE n.strategy = "simplicity"
    BY <1>1, <1>2, <2>6 DEF Beats, After, SimplicityAfter, Newer
  <2>7. CASE n.strategy = "random"
    BY <1>1, <2>7 DEF Beats, After, RandomAfter, Newer
  <2>8. QED
    BY <2>1, <2>2, <2>3, <2>4, <2>5, <2>6, <2>7, AgendaAssumption DEF Ranked
<1>4. Salient(n, new) \in Int
  BY DEF Ranked, Act, Salient
<1>5. QED
  BY <1>3, <1>4, AheadBeats

-----------------------------------------------------------------------------
(* One agenda. *)

Sorted(n, list) == \A i, j \in DOMAIN list : i < j => Ahead(n, list[i], list[j])

\* A salience group names the best and the worst activation of its salience.
GroupOK(n, E, g) ==
  /\ g.first \in E /\ Salient(n, g.first) = g.salience
  /\ g.last  \in E /\ Salient(n, g.last)  = g.salience
  /\ \A y \in E : Salient(n, y) = g.salience =>
       (y = g.first \/ Ahead(n, g.first, y)) /\ (y = g.last \/ Ahead(n, y, g.last))

GroupsOK(n, E, groups) ==
  /\ groups \in Seq(Group)
  /\ \A g, h \in DOMAIN groups : g < h => groups[g].salience > groups[h].salience
  /\ \A g \in DOMAIN groups : GroupOK(n, E, groups[g])
  /\ \A y \in E : \E g \in DOMAIN groups : groups[g].salience = Salient(n, y)

\* The agenda a holds the activations E in order, with the groups they make.
AgendaOK(n, a, E) ==
  /\ a \in [list : Seq(Match), groups : Seq(Group)]
  /\ ToSet(a.list) = E
  /\ Sorted(n, a.list)
  /\ GroupsOK(n, E, a.groups)

\* An empty agenda is in order.
LEMMA EmptyOK ==
  ASSUME NEW n
  PROVE  AgendaOK(n, EmptyAgenda, {})
BY DEF AgendaOK, EmptyAgenda, ToSet, Sorted, GroupsOK

\* Nothing but the activations of the agenda and the strategy matters.
LEMMA AgendaFrame ==
  ASSUME NEW n, NEW k, NEW a, NEW E, AgendaOK(n, a, E),
         n.strategy = k.strategy, \A x \in E : n.act[x] = k.act[x]
  PROVE  AgendaOK(k, a, E)
<1>1. \A x, y \in E : /\ Ahead(n, x, y) <=> Ahead(k, x, y)
                      /\ Salient(n, x) = Salient(k, x)
  <2> TAKE x, y \in E
  <2>1. n.act[x] = k.act[x] /\ n.act[y] = k.act[y]
    OBVIOUS
  <2>2. Beats(n, x, y) <=> Beats(k, x, y)
    BY <2>1, Zenon DEF Beats
  <2>3. QED
    BY <2>1, <2>2 DEF Ahead, Salient
<1>2. \A i \in DOMAIN a.list : a.list[i] \in E
  BY DEF AgendaOK, ToSet
<1>3. Sorted(k, a.list)
  BY <1>1, <1>2 DEF AgendaOK, Sorted
<1>4. GroupsOK(k, E, a.groups)
  BY <1>1 DEF AgendaOK, GroupsOK, GroupOK
<1>5. QED
  BY <1>3, <1>4 DEF AgendaOK

\* Pos finds an activation.
LEMMA PosOK ==
  ASSUME NEW list, NEW x \in ToSet(list)
  PROVE  Pos(list, x) \in DOMAIN list /\ list[Pos(list, x)] = x
BY DEF Pos, ToSet

\* In a sorted list positions and Ahead agree.
LEMMA SortedOrder ==
  ASSUME NEW n, NEW list \in Seq(Match), Ranked(n, ToSet(list)), Sorted(n, list),
         NEW i \in DOMAIN list, NEW j \in DOMAIN list
  PROVE  /\ list[i] = list[j] => i = j
         /\ Ahead(n, list[i], list[j]) <=> i < j
<1>1. list[i] \in ToSet(list) /\ list[j] \in ToSet(list)
  BY DEF ToSet
<1>2. i \in Nat /\ j \in Nat
  OBVIOUS
<1>3. QED
  BY <1>1, <1>2, AheadOrder DEF Sorted

\* FindSalienceGroup stops at the group of the salience, or where it belongs.
LEMMA GroupIndexOK ==
  ASSUME NEW groups \in Seq(Group), NEW s \in Int,
         \A g, h \in DOMAIN groups : g < h => groups[g].salience > groups[h].salience
  PROVE  LET i == GroupIndex(groups, s)
         IN /\ i \in 1..Len(groups) + 1
            /\ \A g \in DOMAIN groups : groups[g].salience > s <=> g < i
            /\ \A g \in DOMAIN groups : groups[g].salience = s => g = i
            /\ HasGroup(groups, s) <=> i \in DOMAIN groups /\ groups[i].salience = s
<1> DEFINE S == {g \in DOMAIN groups : groups[g].salience <= s} \cup {Len(groups) + 1}
           i == GroupIndex(groups, s)
<1>1. i = Min(S)
  BY DEF GroupIndex
<1>2. S \in SUBSET Nat /\ S # {} /\ S \subseteq 1..Len(groups) + 1
  OBVIOUS
<1>3. i \in S /\ \A y \in S : i <= y
  <2> HIDE DEF S
  <2>1. QED
    BY <1>1, <1>2, MinOK
<1> HIDE DEF i
<1>4. \A g \in DOMAIN groups : groups[g].salience \in Int /\ g \in Nat
  <2>1. \A g \in DOMAIN groups : groups[g] \in Group /\ g \in Nat
    OBVIOUS
  <2>2. QED
    BY <2>1 DEF Group
<1>5. \A g \in DOMAIN groups : groups[g].salience > s <=> g < i
  <2> TAKE g \in DOMAIN groups
  <2>1. CASE groups[g].salience > s
    <3>1. CASE i = Len(groups) + 1
      BY <3>1, <2>1
    <3>2. CASE i \in DOMAIN groups /\ groups[i].salience <= s
      BY <1>4, <2>1, <3>2
    <3>3. QED
      BY <1>3, <3>1, <3>2
  <2>2. CASE ~(groups[g].salience > s)
    BY <1>3, <1>4, <2>2
  <2>3. QED
    BY <2>1, <2>2
<1>6. \A g \in DOMAIN groups : groups[g].salience = s => g = i
  <2> TAKE g \in DOMAIN groups
  <2> HAVE groups[g].salience = s
  <2>1. i <= g
    BY <1>3, <1>4
  <2>2. i \in DOMAIN groups /\ groups[i].salience <= s
    BY <1>2, <1>3, <2>1
  <2>3. QED
    BY <1>4, <2>1, <2>2
<1>7. HasGroup(groups, s) <=> i \in DOMAIN groups /\ groups[i].salience = s
  BY DEF HasGroup, i
<1>8. QED
  BY <1>2, <1>3, <1>5, <1>6, <1>7 DEF i

\* before is the last activation of higher salience than s.
BeforeOK(n, E, s, before) ==
  \/ before = None /\ \A y \in E : Salient(n, y) <= s
  \/ /\ before \in E /\ Salient(n, before) > s
     /\ \A y \in E : Salient(n, y) > s => y = before \/ Ahead(n, y, before)

\* after is the one new follows in the order of E.
AfterOK(n, E, new, after) ==
  \/ after = None /\ \A y \in E : Ahead(n, new, y)
  \/ /\ after \in E /\ Ahead(n, after, new)
     /\ \A y \in E : y = after \/ Ahead(n, y, after) \/ Ahead(n, new, y)

\* Where the better activations of a group end, new goes.
LEMMA SplitOK ==
  ASSUME NEW n, NEW list \in Seq(Match), NEW new \in Match, new \notin ToSet(list),
         Ranked(n, ToSet(list) \cup {new}), Sorted(n, list),
         NEW i \in DOMAIN list, NEW j \in DOMAIN list,
         \A k \in DOMAIN list : k \in i..j <=> Salient(n, list[k]) = Salient(n, new),
         i <= j,
         NEW before, BeforeOK(n, ToSet(list), Salient(n, new), before),
         NEW p \in i - 1..j,
         \A k \in i..p : Ahead(n, list[k], new),
         \A k \in p + 1..j : ~Ahead(n, list[k], new)
  PROVE  AfterOK(n, ToSet(list), new, IF p = i - 1 THEN before ELSE list[p])
<1> DEFINE E == ToSet(list)
           F == E \cup {new}
           s == Salient(n, new)
<1>1. /\ \A k \in DOMAIN list : list[k] \in E /\ k \in 1..Len(list)
      /\ \A y \in E : \E k \in DOMAIN list : y = list[k]
      /\ DOMAIN list = 1..Len(list) /\ Len(list) \in Nat
  BY DEF ToSet
<1>2. /\ new \in F /\ E \subseteq F /\ Ranked(n, F) /\ new \notin E
  OBVIOUS
<1>3. BeforeOK(n, E, s, before)
  OBVIOUS
<1>4. \A k \in p + 1..j : k \in DOMAIN list /\ Ahead(n, new, list[k])
  <2> TAKE k \in p + 1..j
  <2>1. k \in DOMAIN list /\ list[k] # new /\ list[k] \in F
    BY <1>1, <1>2
  <2>2. QED
    BY <1>2, <2>1, AheadOrder
<1> HIDE DEF E, F, s
<1>5. CASE p = i - 1
  <2>1. \A y \in E : Salient(n, y) <= s => Ahead(n, new, y)
    <3> TAKE y \in E
    <3> HAVE Salient(n, y) <= s
    <3>1. Salient(n, y) \in Int /\ s \in Int /\ (Salient(n, y) < s => Ahead(n, new, y))
      BY <1>2, AheadOrder DEF s
    <3>2. CASE Salient(n, y) = s
      <4>1. PICK k \in DOMAIN list : y = list[k]
        BY <1>1
      <4>2. k \in i..j
        BY <3>2, <4>1 DEF s
      <4>3. QED
        BY <1>1, <1>4, <1>5, <4>1, <4>2
    <3>3. QED
      BY <3>1, <3>2
  <2>2. CASE before = None /\ \A y \in E : Salient(n, y) <= s
    BY <1>5, <2>1, <2>2 DEF AfterOK, E
  <2>3. CASE /\ before \in E /\ Salient(n, before) > s
             /\ \A y \in E : Salient(n, y) > s => y = before \/ Ahead(n, y, before)
    <3>1. Ahead(n, before, new)
      BY <1>2, <2>3, AheadOrder DEF s
    <3>2. \A y \in E : Salient(n, y) \in Int /\ s \in Int
      BY <1>2, AheadOrder DEF s
    <3>3. \A y \in E : y = before \/ Ahead(n, y, before) \/ Ahead(n, new, y)
      BY <2>1, <2>3, <3>2
    <3>4. QED
      BY <1>5, <2>3, <3>1, <3>3 DEF AfterOK, E
  <2>4. QED
    BY <1>3, <2>2, <2>3 DEF BeforeOK
<1>6. CASE p \in i..j
  <2>1. p \in DOMAIN list /\ list[p] \in E /\ Ahead(n, list[p], new)
    BY <1>1, <1>6
  <2>2. ASSUME NEW y \in E
        PROVE  y = list[p] \/ Ahead(n, y, list[p]) \/ Ahead(n, new, y)
    <3>1. PICK k \in DOMAIN list : y = list[k]
      BY <1>1
    <3>2. CASE k <= p
      <4>1. k = p \/ k < p
        BY <1>1, <2>1, <3>2
      <4>2. QED
        BY <2>1, <3>1, <4>1 DEF Sorted
    <3>3. CASE k \in p + 1..j
      BY <1>4, <3>1, <3>3
    <3>4. CASE k > j
      <4>1. Ahead(n, list[j], list[k]) /\ Salient(n, list[j]) = s /\ Salient(n, list[k]) # s
        BY <1>1, <3>4 DEF Sorted, s
      <4>2. list[j] \in F /\ list[k] \in F
        BY <1>1, <1>2
      <4>3. s > Salient(n, list[k])
        BY <1>2, <4>1, <4>2, AheadOrder DEF s
      <4>4. QED
        BY <1>2, <3>1, <4>2, <4>3, AheadOrder DEF s
    <3>5. QED
      BY <1>1, <2>1, <3>2, <3>3, <3>4
  <2>3. QED
    BY <1>1, <1>6, <2>1, <2>2 DEF AfterOK, E
<1>7. QED
  BY <1>1, <1>5, <1>6

\* The searches of the seven strategies find the place.
LEMMA PlaceAfterOK ==
  ASSUME NEW n, NEW list \in Seq(Match), NEW new \in Match, new \notin ToSet(list),
         Ranked(n, ToSet(list) \cup {new}), Sorted(n, list),
         NEW group, GroupOK(n, ToSet(list), group), group.salience = Salient(n, new),
         NEW before, BeforeOK(n, ToSet(list), Salient(n, new), before)
  PROVE  AfterOK(n, ToSet(list), new, PlaceAfter(n, list, group, before, new))
<1> DEFINE E == ToSet(list)
           F == E \cup {new}
           s == Salient(n, new)
           i == Pos(list, group.first)
           j == Pos(list, group.last)
           past == {k \in i..j : After(n, new, list[k])}
           stop == (i..j) \ past
<1>1. /\ \A k \in DOMAIN list : list[k] \in E /\ k \in 1..Len(list)
      /\ \A y \in E : \E k \in DOMAIN list : y = list[k]
      /\ DOMAIN list = 1..Len(list) /\ Len(list) \in Nat
  BY DEF ToSet
<1>2. /\ new \in F /\ E \subseteq F /\ Ranked(n, F) /\ Ranked(n, E) /\ new \notin E /\ E \subseteq Match
  BY DEF Ranked
<1>3. /\ i \in DOMAIN list /\ list[i] = group.first
      /\ j \in DOMAIN list /\ list[j] = group.last
  BY PosOK DEF GroupOK
<1>4. group.first # None
  BY <1>2, AgendaAssumption DEF GroupOK
<1>5. PlaceAfter(n, list, group, before, new) =
        CASE n.strategy = "breadth" -> IF past = {} THEN before ELSE list[Max(past)]
          [] n.strategy \in {"lex", "mea"} /\ j \in past -> list[j]
          [] OTHER -> IF stop = {} THEN list[j]
                      ELSE IF Min(stop) = i THEN before
                      ELSE list[Min(stop) - 1]
  BY <1>4 DEF PlaceAfter, Search
<1> HIDE DEF i, j
<1>6. i <= j
  BY <1>1, <1>2, <1>3, SortedOrder, AheadOrder DEF GroupOK
<1>7. ASSUME NEW k \in DOMAIN list
      PROVE  k \in i..j <=> Salient(n, list[k]) = s
  <2>1. CASE Salient(n, list[k]) = s
    <3>1. /\ list[k] = list[i] \/ Ahead(n, list[i], list[k])
          /\ list[k] = list[j] \/ Ahead(n, list[k], list[j])
      BY <1>1, <1>3, <2>1 DEF GroupOK
    <3>2. (k = i \/ i < k) /\ (k = j \/ k < j)
      BY <1>2, <1>3, <3>1, SortedOrder
    <3>3. QED
      BY <1>1, <1>3, <2>1, <3>2
  <2>2. CASE k \in i..j
    <3>1. (k = i \/ i < k) /\ (k = j \/ k < j)
      BY <1>1, <1>3, <2>2
    <3>2. /\ k = i \/ Ahead(n, list[i], list[k])
          /\ k = j \/ Ahead(n, list[k], list[j])
      BY <1>3, <3>1 DEF Sorted
    <3>3. Salient(n, list[i]) = s /\ Salient(n, list[j]) = s
      BY <1>3 DEF GroupOK
    <3>4. list[i] \in E /\ list[j] \in E /\ list[k] \in E
      BY <1>1, <1>3
    <3>5. /\ s >= Salient(n, list[k]) /\ Salient(n, list[k]) >= s
          /\ Salient(n, list[k]) \in Int /\ s \in Int
      <4> HIDE DEF E, F, s
      <4>1. \A x \in E : Salient(n, x) \in Int
        BY <1>2, AheadOrder
      <4>2. /\ k = i \/ Salient(n, list[i]) >= Salient(n, list[k])
            /\ k = j \/ Salient(n, list[k]) >= Salient(n, list[j])
        BY <1>2, <3>2, <3>4, AheadOrder
      <4>3. QED
        BY <3>3, <3>4, <4>1, <4>2
    <3>6. QED
      BY <2>2, <3>5
  <2>3. QED
    BY <2>1, <2>2
<1>8. \A k \in i..j : k \in DOMAIN list /\ (k \in past <=> Ahead(n, list[k], new))
  <2> TAKE k \in i..j
  <2>1. k \in DOMAIN list
    BY <1>1, <1>3
  <2>2. list[k] \in F /\ list[k] # new /\ Salient(n, list[k]) = s
    BY <1>1, <1>7, <2>1
  <2>3. After(n, new, list[k]) <=> Ahead(n, list[k], new)
    BY <1>2, <2>2, AfterAhead
  <2>4. QED
    BY <2>1, <2>3
<1>9. past \subseteq i..j /\ stop = (i..j) \ past /\ i..j \subseteq Nat
  BY <1>1, <1>3
<1> HIDE DEF past, stop, E, F, s
<1>10. \A k, l \in i..j : k <= l /\ l \in past => k \in past
  <2> TAKE k, l \in i..j
  <2> HAVE k <= l /\ l \in past
  <2>1. k = l \/ k < l
    BY <1>9
  <2>2. k = l \/ Ahead(n, list[k], list[l])
    BY <1>8, <2>1 DEF Sorted
  <2>3. list[k] \in F /\ list[l] \in F
    BY <1>1, <1>2, <1>8
  <2>4. QED
    BY <1>2, <1>8, <2>2, <2>3, AheadOrder
<1>11. ASSUME NEW p \in i - 1..j, \A k \in i..p : k \in past, \A k \in p + 1..j : k \notin past
       PROVE  AfterOK(n, E, new, IF p = i - 1 THEN before ELSE list[p])
  <2>1. \A k \in i..p : Ahead(n, list[k], new)
    BY <1>8, <1>9, <1>11
  <2>2. \A k \in p + 1..j : ~Ahead(n, list[k], new)
    <3> TAKE k \in p + 1..j
    <3>1. k \in i..j
      BY <1>1, <1>3
    <3>2. QED
      BY <1>8, <1>11, <3>1
  <2>3. QED
    BY <1>3, <1>6, <1>7, <2>1, <2>2, SplitOK DEF E, s
<1>12. i \in Nat /\ j \in Nat
  BY <1>1, <1>3
<1>13. CASE past = {}
  <2>1. AfterOK(n, E, new, before)
    <3>1. i - 1 \in i - 1..j /\ \A k \in i..i - 1 : k \in past
      BY <1>6, <1>12
    <3>2. QED
      BY <1>11, <1>13, <3>1
  <2>2. stop # {} /\ i \in stop /\ j \notin past
    BY <1>6, <1>9, <1>12, <1>13
  <2>3. Min(stop) = i
    <3>1. stop \in SUBSET Nat
      BY <1>9
    <3>2. Min(stop) \in stop /\ Min(stop) <= i
      BY <2>2, <3>1, MinOK
    <3>3. QED
      BY <1>9, <1>12, <3>2
  <2>4. PlaceAfter(n, list, group, before, new) = before
    BY <1>5, <1>13, <2>2, <2>3
  <2>5. QED
    BY <2>1, <2>4 DEF E
<1>14. CASE j \in past
  <2>1. AfterOK(n, E, new, list[j])
    <3>1. j \in i - 1..j /\ j # i - 1 /\ \A k \in i..j : k \in past
      BY <1>6, <1>10, <1>12, <1>14
    <3>2. \A k \in j + 1..j : k \notin past
      BY <1>12
    <3>3. QED
      BY <1>11, <3>1, <3>2
  <2>2. stop = {} /\ past # {}
    BY <1>6, <1>9, <1>10, <1>12, <1>14
  <2>3. Max(past) = j
    <3>1. past \in SUBSET Nat /\ \A y \in past : y <= j
      BY <1>9, <1>12
    <3>2. QED
      BY <1>14, <3>1, MaxIs
  <2>4. PlaceAfter(n, list, group, before, new) = list[j]
    BY <1>3, <1>5, <1>14, <2>2, <2>3
  <2>5. QED
    BY <2>1, <2>4 DEF E
<1>15. CASE past # {} /\ j \notin past
  <2>1. PICK p \in past : \A y \in past : y <= p
    <3>1. past \in SUBSET Nat /\ \A y \in past : y <= j
      BY <1>9, <1>12
    <3>2. QED
      BY <1>12, <1>15, <3>1, MaxOK
  <2>2. Max(past) = p
    <3>1. past \in SUBSET Nat /\ \A y \in past : y <= j
      BY <1>9, <1>12
    <3>2. QED
      BY <2>1, <3>1, MaxIs
  <2>3. p \in i..j /\ p \in Nat
    BY <1>9, <2>1
  <2>4. AfterOK(n, E, new, list[p])
    <3>1. p \in i - 1..j /\ p # i - 1 /\ \A k \in i..p : k \in past
      BY <1>10, <1>12, <2>1, <2>3
    <3>2. \A k \in p + 1..j : k \notin past
      BY <1>12, <2>1, <2>3
    <3>3. QED
      BY <1>11, <3>1, <3>2
  <2>5. stop # {} /\ p + 1 \in stop /\ \A y \in stop : y > p
    <3>1. p # j /\ p + 1 \in i..j /\ p + 1 \notin past
      BY <1>12, <1>15, <2>1, <2>3
    <3>2. \A y \in stop : y > p
      BY <1>9, <1>10, <1>12, <2>1, <2>3
    <3>3. QED
      BY <1>9, <3>1, <3>2
  <2>6. Min(stop) = p + 1
    <3>1. stop \in SUBSET Nat
      BY <1>9
    <3>2. \A y \in stop : p + 1 <= y
      BY <2>3, <2>5, <3>1
    <3>3. QED
      BY <2>5, <3>1, <3>2, MinIs
  <2>7. p + 1 # i /\ (p + 1) - 1 = p
    BY <1>12, <2>3
  <2>8. PlaceAfter(n, list, group, before, new) = list[p]
    BY <1>5, <1>15, <2>2, <2>5, <2>6, <2>7
  <2>9. QED
    BY <2>4, <2>8 DEF E
<1>16. QED
  BY <1>13, <1>14, <1>15

\* A group that may still be empty.
Group0 == [salience : Int, first : Match \cup {None}, last : Match \cup {None}]

Decreasing(groups) ==
  \A g, h \in DOMAIN groups : g < h => groups[g].salience > groups[h].salience

\* r has the groups and, at g, the group of s, which may be new.
Reused(groups, s, g, r) ==
  /\ r \in Seq(Group0) /\ g \in DOMAIN r /\ r[g].salience = s
  /\ Decreasing(r)
  /\ \A k \in DOMAIN r : k # g =>
       \E h \in DOMAIN groups : r[k] = groups[h] /\ groups[h].salience # s
  /\ \A h \in DOMAIN groups : groups[h].salience # s =>
       \E k \in DOMAIN r : k # g /\ r[k] = groups[h]
  /\ HasGroup(groups, s) => g \in DOMAIN groups /\ r[g] = groups[g]
  /\ ~HasGroup(groups, s) =>
       /\ r[g].first = None /\ r[g].last = None
       /\ \A h \in DOMAIN groups : groups[h].salience # s
  /\ g # 1 => g - 1 \in DOMAIN groups /\ r[g - 1] = groups[g - 1]

\* ReuseOrCreateSalienceGroup leaves the other groups as they were.
LEMMA ReuseOK ==
  ASSUME NEW groups \in Seq(Group), NEW s \in Int, Decreasing(groups)
  PROVE  Reused(groups, s, GroupIndex(groups, s), ReuseOrCreateSalienceGroup(groups, s))
<1> DEFINE g == GroupIndex(groups, s)
           r == ReuseOrCreateSalienceGroup(groups, s)
           new == [salience |-> s, first |-> None, last |-> None]
<1>1. /\ g \in 1..Len(groups) + 1 /\ Len(groups) \in Nat
      /\ \A h \in DOMAIN groups : groups[h].salience > s <=> h < g
      /\ \A h \in DOMAIN groups : groups[h].salience = s => h = g
      /\ HasGroup(groups, s) <=> g \in DOMAIN groups /\ groups[g].salience = s
  BY GroupIndexOK DEF Decreasing
<1>2. /\ \A h \in DOMAIN groups : groups[h] \in Group0 /\ groups[h].salience \in Int /\ h \in Nat
      /\ groups \in Seq(Group0) /\ DOMAIN groups = 1..Len(groups)
  <2>1. Group \subseteq Group0 /\ \A x \in Group : x.salience \in Int
    BY DEF Group, Group0
  <2>2. \A h \in 1..Len(groups) : groups[h] \in Group0
    BY <2>1
  <2>3. QED
    BY <2>1, <2>2
<1>3. new \in Group0 /\ new.salience = s /\ new.first = None /\ new.last = None
  BY DEF Group0
<1>4. r = IF HasGroup(groups, s) THEN groups ELSE InsertAt(groups, g, new)
  BY DEF ReuseOrCreateSalienceGroup
<1> HIDE DEF g, new, r
<1>5. CASE HasGroup(groups, s)
  <2>1. r = groups /\ g \in DOMAIN groups /\ groups[g].salience = s
    BY <1>1, <1>4, <1>5
  <2>2. g # 1 => g - 1 \in DOMAIN groups
    BY <1>1, <1>2, <2>1
  <2>3. QED
    BY <1>1, <1>2, <1>5, <2>1, <2>2 DEF g, r, Reused
<1>6. CASE ~HasGroup(groups, s)
  <2>1. \A h \in DOMAIN groups : groups[h].salience # s
    BY <1>1, <1>6
  <2>2. /\ r \in Seq(Group0) /\ DOMAIN r = 1..Len(groups) + 1
        /\ \A k \in 1..Len(groups) + 1 :
             r[k] = IF k < g THEN groups[k] ELSE IF k = g THEN new ELSE groups[k - 1]
    <3>1. /\ r \in Seq(Group0) /\ Len(r) = Len(groups) + 1
          /\ \A k \in 1..Len(groups) + 1 :
               r[k] = IF k < g THEN groups[k] ELSE IF k = g THEN new ELSE groups[k - 1]
      <4>1. r = InsertAt(groups, g, new)
        BY <1>4, <1>6
      <4> HIDE DEF Group0
      <4>2. groups \in Seq(Group0) /\ g \in 1..Len(groups) + 1 /\ new \in Group0
        BY <1>1, <1>2, <1>3
      <4>3. /\ r \in Seq(Group0) /\ Len(r) = Len(groups) + 1
            /\ \A k \in 1..Len(groups) + 1 : r[k] = Inserted(groups, g, new, k)
        BY ONLY <4>1, <4>2, InsertOK, Zenon
      <4>4. QED
        BY ONLY <4>3 DEF Inserted
    <3>2. QED
      BY <3>1
  <2>3. /\ \A k \in 1..Len(groups) + 1 : k < g => k \in DOMAIN groups /\ r[k] = groups[k]
        /\ \A k \in 1..Len(groups) + 1 : k > g => k - 1 \in DOMAIN groups /\ r[k] = groups[k - 1]
        /\ r[g] = new
    <3>1. \A k \in 1..Len(groups) + 1 : k < g => k \in DOMAIN groups
      BY <1>1, <1>2
    <3>2. \A k \in 1..Len(groups) + 1 : k > g => k - 1 \in DOMAIN groups /\ ~(k < g) /\ k # g
      BY <1>1, <1>2
    <3>3. ~(g < g)
      BY <1>1
    <3>4. QED
      BY <1>1, <2>2, <3>1, <3>2, <3>3
  <2>4. ASSUME NEW k \in DOMAIN r, k # g
        PROVE  \E h \in DOMAIN groups : r[k] = groups[h] /\ groups[h].salience # s
    <3>1. CASE k < g
      BY <2>1, <2>2, <2>3, <3>1
    <3>2. CASE k > g
      BY <2>1, <2>2, <2>3, <3>2
    <3>3. QED
      BY <1>1, <2>2, <2>4, <3>1, <3>2
  <2>5. ASSUME NEW h \in DOMAIN groups PROVE \E k \in DOMAIN r : k # g /\ r[k] = groups[h]
    <3>1. CASE h < g
      BY <1>1, <1>2, <2>2, <2>3, <3>1
    <3>2. CASE ~(h < g)
      <4>1. h + 1 \in DOMAIN r /\ h + 1 > g /\ (h + 1) - 1 = h
        BY <1>1, <1>2, <2>2, <3>2
      <4>2. h + 1 # g /\ r[h + 1] = groups[h]
        BY <1>1, <2>2, <2>3, <4>1
      <4>3. QED
        BY <4>1, <4>2
    <3>3. QED
      BY <3>1, <3>2
  <2>6. ASSUME NEW k \in DOMAIN r, NEW l \in DOMAIN r, k < l
        PROVE  r[k].salience > r[l].salience
    <3>1. k \in 1..Len(groups) + 1 /\ l \in 1..Len(groups) + 1
      BY <2>2
    <3>2. CASE l < g
      BY <1>1, <2>3, <2>6, <3>1, <3>2 DEF Decreasing
    <3>3. CASE l = g
      BY <1>1, <1>3, <2>3, <2>6, <3>1, <3>3
    <3>4. CASE l > g /\ k < g
      <4>1. k \in DOMAIN groups /\ l - 1 \in DOMAIN groups /\ k < l - 1
        BY <1>1, <2>3, <3>1, <3>4
      <4>2. QED
        BY <2>3, <3>1, <3>4, <4>1 DEF Decreasing
    <3>5. CASE l > g /\ k = g
      <4>1. l - 1 \in DOMAIN groups /\ ~(l - 1 < g)
        BY <1>1, <2>3, <3>1, <3>5
      <4>2. groups[l - 1].salience < s
        BY <1>1, <1>2, <2>1, <4>1
      <4>3. QED
        BY <1>2, <1>3, <2>3, <3>1, <3>5, <4>1, <4>2
    <3>6. CASE k > g
      <4>1. k - 1 \in DOMAIN groups /\ l - 1 \in DOMAIN groups /\ k - 1 < l - 1 /\ l > g
        BY <1>1, <2>3, <2>6, <3>1, <3>6
      <4>2. QED
        BY <2>3, <3>1, <3>6, <4>1 DEF Decreasing
    <3>7. QED
      BY <1>1, <2>6, <3>1, <3>2, <3>3, <3>4, <3>5, <3>6
  <2>7. g # 1 => g - 1 \in DOMAIN groups /\ r[g - 1] = groups[g - 1]
    <3> HAVE g # 1
    <3>1. g - 1 \in 1..Len(groups) + 1 /\ g - 1 < g
      BY <1>1
    <3>2. QED
      BY <2>3, <3>1
  <2>8. g \in DOMAIN r
    BY <1>1, <2>2
  <2>9. QED
    <3>1. Decreasing(r)
      BY <2>6 DEF Decreasing
    <3>2. QED
      BY <1>3, <1>6, <2>1, <2>2, <2>3, <2>4, <2>5, <2>7, <2>8, <3>1 DEF g, r, Reused
<1>7. QED
  BY <1>5, <1>6

\* PlaceActivation's update of a group: new is its first where nothing of the
\* group is before it, its last where nothing is after it.
LEMMA JoinGroupOK ==
  ASSUME NEW n, NEW E, NEW new, new \notin E, Ranked(n, E \cup {new}), None \notin E,
         NEW before, BeforeOK(n, E, Salient(n, new), before),
         NEW after, AfterOK(n, E, new, after),
         NEW G, G.salience = Salient(n, new),
         \/ GroupOK(n, E, G)
         \/ /\ G.first = None /\ G.last = None /\ after = before
            /\ \A y \in E : Salient(n, y) # Salient(n, new),
         NEW K, K.salience = G.salience,
         K.first = IF after = before THEN new ELSE G.first,
         K.last  = IF G.last = None \/ G.last = after THEN new ELSE G.last
  PROVE  GroupOK(n, E \cup {new}, K)
<1> DEFINE F == E \cup {new}
           s == Salient(n, new)
<1>1. /\ \A x \in F : Salient(n, x) \in Int /\ ~Ahead(n, x, x)
      /\ \A x, y \in F : x = y \/ Ahead(n, x, y) \/ Ahead(n, y, x)
      /\ \A x, y \in F : Ahead(n, x, y) => Salient(n, x) >= Salient(n, y)
      /\ \A x, y \in F : Salient(n, x) > Salient(n, y) => Ahead(n, x, y)
      /\ \A x, y, z \in F : Ahead(n, x, y) /\ Ahead(n, y, z) => Ahead(n, x, z)
  BY AheadOrder
<1>2. new \in F /\ E \subseteq F /\ F = E \cup {new} /\ s \in Int
  BY <1>1
<1> HIDE DEF F, s
<1>3. CASE GroupOK(n, E, G)
  <2>1. /\ G.first \in E /\ Salient(n, G.first) = s /\ G.last \in E /\ Salient(n, G.last) = s
        /\ G.last # None
        /\ \A y \in E : Salient(n, y) = s =>
             (y = G.first \/ Ahead(n, G.first, y)) /\ (y = G.last \/ Ahead(n, y, G.last))
    BY <1>3 DEF GroupOK, s
  <2>2. CASE after = before
    <3>1. \A y \in E : Salient(n, y) = s => Ahead(n, new, y)
      <4> TAKE y \in E
      <4> HAVE Salient(n, y) = s
      <4>1. CASE after = None
        BY <4>1 DEF AfterOK
      <4>2. CASE after \in E
        <5>1. Salient(n, after) > s
          BY <2>2, <4>2 DEF BeforeOK, s
        <5>2. y # after /\ ~Ahead(n, y, after)
          BY <1>1, <1>2, <4>2, <5>1
        <5>3. QED
          BY <4>2, <5>2 DEF AfterOK
      <4>3. QED
        BY <4>1, <4>2 DEF AfterOK
    <3>2. G.last # after
      <4>1. CASE after \in E
        <5>1. Salient(n, after) > s
          BY <2>2, <4>1 DEF BeforeOK, s
        <5>2. QED
          BY <1>2, <2>1, <5>1
      <4>2. QED
        BY <2>1, <4>1 DEF AfterOK
    <3>3. K.first = new /\ K.last = G.last
      BY <2>1, <2>2, <3>2
    <3>4. Ahead(n, new, G.last)
      BY <2>1, <3>1
    <3>5. QED
      BY <1>2, <2>1, <3>1, <3>3, <3>4 DEF GroupOK, F, s
  <2>3. CASE after # before
    <3>1. after \in E /\ Ahead(n, after, new) /\ Salient(n, after) = s
      <4>1. after # None
        <5>1. SUFFICES ASSUME after = None PROVE FALSE
          OBVIOUS
        <5>2. before \in E /\ Salient(n, before) > s
          BY <2>3, <5>1 DEF BeforeOK, s
        <5>3. Ahead(n, new, before) /\ Ahead(n, before, new)
          BY <1>1, <1>2, <5>1, <5>2 DEF AfterOK, s
        <5>4. QED
          BY <1>1, <1>2, <5>2, <5>3
      <4>2. after \in E /\ Ahead(n, after, new)
        BY <4>1 DEF AfterOK
      <4>3. Salient(n, after) >= s
        BY <1>1, <1>2, <4>2 DEF s
      <4>4. ~(Salient(n, after) > s)
        <5>1. SUFFICES ASSUME Salient(n, after) > s PROVE FALSE
          OBVIOUS
        <5>2. before \in E /\ Ahead(n, after, before) /\ Salient(n, before) > s
          BY <1>1, <1>2, <2>3, <4>2, <5>1 DEF BeforeOK, s
        <5>3. Ahead(n, before, new)
          BY <1>1, <1>2, <5>2 DEF s
        <5>4. Ahead(n, before, after) \/ Ahead(n, new, before)
          BY <2>3, <4>1, <5>2 DEF AfterOK
        <5>5. QED
          BY <1>1, <1>2, <4>2, <5>2, <5>3, <5>4
      <4>5. QED
        BY <1>1, <1>2, <4>2, <4>3, <4>4
    <3>2. Ahead(n, G.first, new)
      BY <1>1, <1>2, <2>1, <3>1
    <3>3. CASE G.last = after
      <4>1. K.first = G.first /\ K.last = new
        BY <2>3, <3>3
      <4>2. \A y \in E : Salient(n, y) = s => Ahead(n, y, new)
        BY <1>1, <1>2, <2>1, <3>1, <3>3
      <4>3. QED
        BY <1>2, <2>1, <3>2, <4>1, <4>2 DEF GroupOK, F, s
    <3>4. CASE G.last # after
      <4>1. K.first = G.first /\ K.last = G.last
        BY <2>1, <2>3, <3>4
      <4>2. Ahead(n, after, G.last)
        BY <2>1, <3>1, <3>4
      <4>3. ~Ahead(n, G.last, after)
        BY <1>1, <1>2, <2>1, <3>1, <4>2
      <4>4. Ahead(n, new, G.last)
        BY <2>1, <3>1, <3>4, <4>3, AgendaAssumption DEF AfterOK
      <4>5. QED
        BY <1>2, <2>1, <3>2, <4>1, <4>4 DEF GroupOK, F, s
    <3>5. QED
      BY <3>3, <3>4
  <2>4. QED
    BY <2>2, <2>3
<1>4. CASE /\ G.first = None /\ G.last = None /\ after = before
           /\ \A y \in E : Salient(n, y) # Salient(n, new)
  <2>1. K.first = new /\ K.last = new /\ K.salience = s
    BY <1>4 DEF s
  <2>2. QED
    BY <1>2, <1>4, <2>1 DEF GroupOK, F, s
<1>5. QED
  BY <1>3, <1>4

\* The last of the group before is the last activation of higher salience.
LEMMA LastBefore ==
  ASSUME NEW n, NEW E, Ranked(n, E), NEW groups, GroupsOK(n, E, groups), NEW s \in Int,
         NEW before,
         LET g == GroupIndex(groups, s)
         IN before = IF g = 1 THEN None ELSE groups[g - 1].last
  PROVE  BeforeOK(n, E, s, before)
<1> DEFINE g == GroupIndex(groups, s)
<1>1. /\ groups \in Seq(Group) /\ Decreasing(groups) /\ DOMAIN groups = 1..Len(groups)
      /\ Len(groups) \in Nat
      /\ \A h \in DOMAIN groups : GroupOK(n, E, groups[h])
      /\ \A y \in E : \E h \in DOMAIN groups : groups[h].salience = Salient(n, y)
  BY DEF GroupsOK, Decreasing
<1>2. /\ g \in 1..Len(groups) + 1
      /\ \A h \in DOMAIN groups : groups[h].salience > s <=> h < g
  BY <1>1, GroupIndexOK DEF Decreasing
<1>3. before = IF g = 1 THEN None ELSE groups[g - 1].last
  OBVIOUS
<1> HIDE DEF g
<1>4. /\ \A x \in E : Salient(n, x) \in Int
      /\ \A x, y \in E : Salient(n, x) > Salient(n, y) => Ahead(n, x, y)
  BY AheadOrder
<1>5. CASE g = 1
  <2>1. \A h \in DOMAIN groups : ~(groups[h].salience > s)
    BY <1>1, <1>2, <1>5
  <2>2. \A y \in E : Salient(n, y) <= s
    BY <1>1, <1>4, <2>1
  <2>3. QED
    BY <1>3, <1>5, <2>2 DEF BeforeOK
<1>6. CASE g # 1
  <2>1. g - 1 \in DOMAIN groups /\ g - 1 < g /\ groups[g - 1].salience > s
    BY <1>1, <1>2, <1>6
  <2>2. GroupOK(n, E, groups[g - 1])
    BY <1>1, <2>1
  <2>3. before \in E /\ Salient(n, before) = groups[g - 1].salience
    BY <1>3, <1>6, <2>2 DEF GroupOK
  <2>4. ASSUME NEW y \in E, Salient(n, y) > s PROVE y = before \/ Ahead(n, y, before)
    <3>1. PICK h \in DOMAIN groups : groups[h].salience = Salient(n, y)
      BY <1>1
    <3>2. h < g
      BY <1>2, <2>4, <3>1
    <3>3. CASE h = g - 1
      BY <1>3, <1>6, <2>2, <3>1, <3>3 DEF GroupOK
    <3>4. CASE h < g - 1
      <4>1. groups[h].salience > groups[g - 1].salience
        BY <1>1, <2>1, <3>1, <3>4 DEF Decreasing
      <4>2. QED
        BY <1>4, <2>3, <3>1, <4>1
    <3>5. QED
      BY <1>1, <1>2, <3>1, <3>2, <3>3, <3>4
  <2>5. QED
    BY <2>1, <2>3, <2>4 DEF BeforeOK
<1>7. QED
  BY <1>5, <1>6

\* Inserted after the one it follows, new keeps the list sorted.
LEMMA InsertSorted ==
  ASSUME NEW n, NEW list \in Seq(Match), NEW new \in Match, new \notin ToSet(list),
         Ranked(n, ToSet(list) \cup {new}), Sorted(n, list),
         NEW after, AfterOK(n, ToSet(list), new, after),
         NEW l, l = InsertAt(list, IF after = None THEN 1 ELSE Pos(list, after) + 1, new)
  PROVE  l \in Seq(Match) /\ ToSet(l) = ToSet(list) \cup {new} /\ Sorted(n, l)
<1> DEFINE E == ToSet(list)
           F == E \cup {new}
           p == IF after = None THEN 0 ELSE Pos(list, after)
<1>1. /\ \A k \in DOMAIN list : list[k] \in E /\ k \in 1..Len(list)
      /\ \A y \in E : \E k \in DOMAIN list : y = list[k]
      /\ DOMAIN list = 1..Len(list) /\ Len(list) \in Nat /\ E \subseteq Match
  BY DEF ToSet
<1>2. new \in F /\ E \subseteq F /\ Ranked(n, F) /\ Ranked(n, E) /\ F = E \cup {new}
  BY DEF Ranked
<1>3. None \notin E
  BY <1>1, AgendaAssumption
<1>4. /\ p \in 0..Len(list)
      /\ \A k \in DOMAIN list : IF k <= p THEN Ahead(n, list[k], new) ELSE Ahead(n, new, list[k])
  <2>1. CASE after = None
    BY <1>1, <1>3, <2>1 DEF AfterOK
  <2>2. CASE after # None
    <3>1. after \in E /\ Ahead(n, after, new) /\ p = Pos(list, after)
      BY <2>2 DEF AfterOK
    <3>2. p \in DOMAIN list /\ list[p] = after
      BY <3>1, PosOK
    <3> HIDE DEF p
    <3>3. ASSUME NEW k \in DOMAIN list
          PROVE  IF k <= p THEN Ahead(n, list[k], new) ELSE Ahead(n, new, list[k])
      <4>1. list[k] \in F /\ after \in F /\ new \in F
        BY <1>1, <3>1
      <4>2. CASE k <= p
        <5>1. k = p \/ k < p
          BY <1>1, <3>2, <4>2
        <5>2. list[k] = after \/ Ahead(n, list[k], after)
          BY <3>2, <5>1 DEF Sorted
        <5>3. QED
          BY <1>2, <3>1, <4>1, <4>2, <5>2, AheadOrder
      <4>3. CASE ~(k <= p)
        <5>1. Ahead(n, after, list[k])
          BY <1>1, <3>2, <4>3 DEF Sorted
        <5>2. list[k] # after /\ ~Ahead(n, list[k], after)
          BY <1>2, <4>1, <5>1, AheadOrder
        <5>3. QED
          BY <1>1, <2>2, <4>3, <5>2 DEF AfterOK
      <4>4. QED
        BY <4>2, <4>3
    <3>4. QED
      BY <1>1, <3>2, <3>3
  <2>3. QED
    BY <2>1, <2>2
<1>5. l = InsertAt(list, p + 1, new)
  BY DEF p
<1> HIDE DEF p
<1>6. p + 1 \in 1..Len(list) + 1
  BY <1>1, <1>4
<1>7. /\ l \in Seq(Match) /\ DOMAIN l = 1..Len(list) + 1
      /\ \A k \in 1..Len(list) + 1 :
           l[k] = IF k < p + 1 THEN list[k] ELSE IF k = p + 1 THEN new ELSE list[k - 1]
  <2>1. PICK q : q = p + 1
    OBVIOUS
  <2>2. q \in 1..Len(list) + 1 /\ l = InsertAt(list, q, new)
    BY <1>5, <1>6, <2>1
  <2>3. list \in Seq(Match) /\ new \in Match
    OBVIOUS
  <2>4. /\ l \in Seq(Match) /\ Len(l) = Len(list) + 1
        /\ \A k \in 1..Len(list) + 1 : l[k] = Inserted(list, q, new, k)
    BY ONLY <2>2, <2>3, InsertOK, Zenon
  <2>5. QED
    BY <2>1, <2>4 DEF Inserted
<1>8. /\ \A k \in DOMAIN l : k < p + 1 => k \in DOMAIN list /\ k <= p /\ l[k] = list[k]
      /\ \A k \in DOMAIN l : k > p + 1 => k - 1 \in DOMAIN list /\ ~(k - 1 <= p) /\ l[k] = list[k - 1]
      /\ l[p + 1] = new /\ p + 1 \in DOMAIN l
      /\ \A k \in DOMAIN l : k \in Nat
  <2>1. \A k \in DOMAIN l : k < p + 1 => k \in DOMAIN list /\ k <= p
    BY <1>1, <1>4, <1>7
  <2>2. \A k \in DOMAIN l : k > p + 1 => k - 1 \in DOMAIN list /\ ~(k - 1 <= p)
                                         /\ ~(k < p + 1) /\ k # p + 1
    BY <1>1, <1>4, <1>7
  <2>3. ~(p + 1 < p + 1) /\ p + 1 \in DOMAIN l /\ \A k \in DOMAIN l : k \in Nat
    BY <1>1, <1>4, <1>7
  <2>4. QED
    BY <1>7, <2>1, <2>2, <2>3
<1>9. ToSet(l) = F
  <2>1. ASSUME NEW k \in DOMAIN l PROVE l[k] \in F
    BY <1>1, <1>2, <1>4, <1>8
  <2>2. ASSUME NEW y \in E PROVE \E k \in DOMAIN l : l[k] = y
    <3>1. PICK k \in DOMAIN list : y = list[k]
      BY <1>1
    <3>2. CASE k <= p
      BY <1>1, <1>4, <1>7, <3>1, <3>2
    <3>3. CASE k > p
      <4>1. k + 1 \in DOMAIN l /\ k + 1 > p + 1 /\ (k + 1) - 1 = k
        BY <1>1, <1>4, <1>7, <3>3
      <4>2. QED
        BY <1>8, <3>1, <4>1
    <3>4. QED
      BY <1>1, <1>4, <3>2, <3>3
  <2>3. QED
    <3> HIDE DEF F, E
    <3>1. \A k \in DOMAIN l : l[k] \in ToSet(l)
      BY DEF ToSet
    <3>2. new \in ToSet(l) /\ E \subseteq ToSet(l)
      BY <1>8, <2>2, <3>1
    <3>3. ToSet(l) \subseteq F
      BY <2>1 DEF ToSet
    <3>4. QED
      BY <1>2, <3>2, <3>3
<1>10. Sorted(n, l)
  <2> SUFFICES ASSUME NEW k \in DOMAIN l, NEW m \in DOMAIN l, k < m
               PROVE  Ahead(n, l[k], l[m])
    BY DEF Sorted
  <2>1. CASE m < p + 1
    BY <1>4, <1>8, <2>1 DEF Sorted
  <2>2. CASE m = p + 1
    BY <1>4, <1>8, <2>2
  <2>3. CASE m > p + 1 /\ k < p + 1
    <3>1. k \in DOMAIN list /\ m - 1 \in DOMAIN list /\ k < m - 1
      BY <1>4, <1>8, <2>3
    <3>2. QED
      BY <1>8, <2>3, <3>1 DEF Sorted
  <2>4. CASE m > p + 1 /\ k = p + 1
    BY <1>4, <1>8, <2>4
  <2>5. CASE k > p + 1
    <3>1. k - 1 \in DOMAIN list /\ m - 1 \in DOMAIN list /\ k - 1 < m - 1 /\ m > p + 1
      BY <1>4, <1>8, <2>5
    <3>2. QED
      BY <1>8, <2>5, <3>1 DEF Sorted
  <2>6. QED
    BY <1>4, <1>8, <2>1, <2>2, <2>3, <2>4, <2>5
<1>11. QED
  BY <1>7, <1>9, <1>10

\* PlaceActivation keeps an agenda in order.
LEMMA PlaceOK ==
  ASSUME NEW n, NEW a, NEW E, AgendaOK(n, a, E), NEW new \in Match, new \notin E,
         Ranked(n, E \cup {new})
  PROVE  AgendaOK(n, PlaceActivation(n, a, new), E \cup {new})
<1> DEFINE F == E \cup {new}
           s == Salient(n, new)
           g == GroupIndex(a.groups, s)
           r == ReuseOrCreateSalienceGroup(a.groups, s)
           before == IF g = 1 THEN None ELSE r[g - 1].last
           after  == IF a.list = <<>> THEN None ELSE PlaceAfter(n, a.list, r[g], before, new)
           l == InsertAt(a.list, IF after = None THEN 1 ELSE Pos(a.list, after) + 1, new)
           q == [r EXCEPT ![g].first = IF after = before THEN new ELSE @,
                          ![g].last  = IF @ = None \/ @ = after THEN new ELSE @]
<1>1. PlaceActivation(n, a, new) = [list |-> l, groups |-> q]
  BY DEF PlaceActivation, Salient
<1>2. /\ a.list \in Seq(Match) /\ ToSet(a.list) = E /\ Sorted(n, a.list)
      /\ GroupsOK(n, E, a.groups) /\ a.groups \in Seq(Group) /\ Decreasing(a.groups)
      /\ \A h \in DOMAIN a.groups : GroupOK(n, E, a.groups[h])
      /\ \A y \in E : \E h \in DOMAIN a.groups : a.groups[h].salience = Salient(n, y)
  BY DEF AgendaOK, GroupsOK, Decreasing
<1>3. /\ new \in F /\ E \subseteq F /\ F = E \cup {new} /\ Ranked(n, F) /\ Ranked(n, E)
      /\ s \in Int /\ E \subseteq Match /\ F \subseteq Match /\ None \notin E
  BY AheadOrder, AgendaAssumption DEF Ranked
<1>R. Reused(a.groups, s, g, r)
  BY <1>2, <1>3, ReuseOK
<1>4. /\ r \in Seq(Group0) /\ g \in DOMAIN r /\ r[g].salience = s
      /\ Decreasing(r)
      /\ \A k \in DOMAIN r : k # g =>
           \E h \in DOMAIN a.groups : r[k] = a.groups[h] /\ a.groups[h].salience # s
      /\ \A h \in DOMAIN a.groups : a.groups[h].salience # s =>
           \E k \in DOMAIN r : k # g /\ r[k] = a.groups[h]
      /\ HasGroup(a.groups, s) => g \in DOMAIN a.groups /\ r[g] = a.groups[g]
      /\ ~HasGroup(a.groups, s) =>
           /\ r[g].first = None /\ r[g].last = None
           /\ \A h \in DOMAIN a.groups : a.groups[h].salience # s
      /\ g # 1 => g - 1 \in DOMAIN a.groups /\ r[g - 1] = a.groups[g - 1]
  <2> HIDE DEF g, r, s
  <2>1. QED
    BY <1>R, Zenon DEF Reused
<1>5. BeforeOK(n, E, s, before)
  <2>1. before = IF g = 1 THEN None ELSE a.groups[g - 1].last
    BY <1>4
  <2> HIDE DEF before, s
  <2>2. QED
    BY <1>2, <1>3, <2>1, LastBefore
<1> HIDE DEF r, before
<1>6. \/ HasGroup(a.groups, s) /\ GroupOK(n, E, r[g])
      \/ ~HasGroup(a.groups, s) /\ \A y \in E : Salient(n, y) # s
  <2> HIDE DEF g, s
  <2>1. QED
    BY <1>2, <1>4
<1>7. /\ AfterOK(n, E, new, after)
      /\ ~HasGroup(a.groups, s) => after = before
  <2>1. CASE a.list = <<>>
    <3>1. E = {} /\ after = None
      BY <1>2, <2>1 DEF ToSet
    <3>2. before = None
      BY <1>5, <3>1 DEF BeforeOK
    <3> HIDE DEF after
    <3>3. QED
      BY <3>1, <3>2 DEF AfterOK
  <2>2. CASE a.list # <<>> /\ HasGroup(a.groups, s)
    <3>1. after = PlaceAfter(n, a.list, r[g], before, new)
      BY <2>2
    <3>2. GroupOK(n, E, r[g]) /\ r[g].salience = s
      BY <1>4, <1>6, <2>2
    <3> HIDE DEF after, g
    <3>3. QED
      BY <1>2, <1>3, <1>5, <2>2, <3>1, <3>2, PlaceAfterOK
  <2>3. CASE a.list # <<>> /\ ~HasGroup(a.groups, s)
    <3>1. after = before
      BY <1>4, <2>3 DEF PlaceAfter
    <3>2. \A y \in E : Salient(n, y) # s /\ Salient(n, y) \in Int
      BY <1>3, <1>6, <2>3, AheadOrder
    <3>3. \A y \in E : Salient(n, y) < s => Ahead(n, new, y)
      BY <1>3, AheadOrder
    <3>4. \A y \in E : Salient(n, y) > s => Ahead(n, y, new)
      BY <1>3, AheadOrder
    <3> HIDE DEF after, s
    <3>5. CASE before = None /\ \A y \in E : Salient(n, y) <= s
      BY <1>3, <3>1, <3>2, <3>3, <3>5 DEF AfterOK
    <3>6. CASE /\ before \in E /\ Salient(n, before) > s
               /\ \A y \in E : Salient(n, y) > s => y = before \/ Ahead(n, y, before)
      BY <1>3, <3>1, <3>2, <3>3, <3>4, <3>6 DEF AfterOK
    <3>7. QED
      BY <1>5, <3>1, <3>5, <3>6 DEF BeforeOK
  <2>4. QED
    BY <2>1, <2>2, <2>3
<1> HIDE DEF after
<1>8. l \in Seq(Match) /\ ToSet(l) = F /\ Sorted(n, l)
  <2>1. PICK x : x = l
    OBVIOUS
  <2> HIDE DEF g, s
  <2>2. QED
    BY <1>2, <1>3, <1>7, <2>1, InsertSorted
<1> HIDE DEF l, s, g
<1>9. /\ DOMAIN q = DOMAIN r /\ \A k \in DOMAIN r : k # g => q[k] = r[k]
      /\ q[g].salience = s
      /\ q[g].first = IF after = before THEN new ELSE r[g].first
      /\ q[g].last  = IF r[g].last = None \/ r[g].last = after THEN new ELSE r[g].last
      /\ q[g] \in Group0 /\ q \in Seq(Group0)
  <2>1. r[g] \in Group0
    BY <1>4
  <2> DEFINE x == IF after = before THEN new ELSE r[g].first
             y == IF r[g].last = None \/ r[g].last = after THEN new ELSE r[g].last
             z == [r[g] EXCEPT !.first = x, !.last = y]
  <2>2. q = [r EXCEPT ![g] = z]
    <3>1. q = [r EXCEPT ![g].first = x, ![g].last = y]
      BY <1>4, <2>1 DEF Group0
    <3>2. \A u, v : [r EXCEPT ![g].first = u, ![g].last = v]
                     = [r EXCEPT ![g] = [r[g] EXCEPT !.first = u, !.last = v]]
      BY <1>4
    <3> HIDE DEF q, x, y
    <3>3. QED
      BY <3>1, <3>2
  <2>3. x \in Match \cup {None} /\ y \in Match \cup {None}
    BY <1>3, <2>1 DEF Group0
  <2> HIDE DEF q, x, y
  <2>4. z \in Group0 /\ z.salience = r[g].salience /\ z.first = x /\ z.last = y
    BY <2>1, <2>3 DEF Group0
  <2> HIDE DEF z
  <2>5. q \in Seq(Group0) /\ q[g] = z
    BY <1>4, <2>2, <2>4
  <2>6. QED
    BY <1>4, <2>2, <2>4, <2>5 DEF x, y
<1> HIDE DEF q
<1>10. GroupOK(n, F, q[g])
  <2>1. q[g].salience = r[g].salience /\ r[g].salience = Salient(n, new)
    BY <1>4, <1>9 DEF s
  <2>2. \/ GroupOK(n, E, r[g])
        \/ /\ r[g].first = None /\ r[g].last = None /\ after = before
           /\ \A y \in E : Salient(n, y) # Salient(n, new)
    BY <1>4, <1>6, <1>7 DEF s
  <2>3. QED
    <3>1. PICK G, K : G = r[g] /\ K = q[g]
      OBVIOUS
    <3>2. /\ G.salience = Salient(n, new) /\ K.salience = G.salience
          /\ K.first = IF after = before THEN new ELSE G.first
          /\ K.last  = IF G.last = None \/ G.last = after THEN new ELSE G.last
      BY <1>9, <2>1, <3>1
    <3>3. \/ GroupOK(n, E, G)
          \/ /\ G.first = None /\ G.last = None /\ after = before
             /\ \A y \in E : Salient(n, y) # Salient(n, new)
      BY <2>2, <3>1
    <3>4. GroupOK(n, E \cup {new}, K)
      BY <1>3, <1>5, <1>7, <3>2, <3>3, JoinGroupOK, Zenon DEF s
    <3>5. QED
      BY <3>1, <3>4 DEF F
<1>11. ASSUME NEW k \in DOMAIN q, k # g PROVE GroupOK(n, F, q[k]) /\ q[k] \in Group
  <2>1. PICK h \in DOMAIN a.groups : q[k] = a.groups[h] /\ a.groups[h].salience # s
    BY <1>4, <1>9, <1>11
  <2>2. GroupOK(n, E, q[k]) /\ q[k].salience # Salient(n, new) /\ q[k] \in Group
    BY <1>2, <2>1 DEF s
  <2>3. QED
    BY <1>3, <2>2 DEF GroupOK, F
<1>12. q \in Seq(Group)
  <2>1. q[g] \in Group
    <3>1. q[g].first \in Match /\ q[g].last \in Match
      BY <1>3, <1>10 DEF GroupOK
    <3>2. QED
      BY <1>9, <3>1 DEF Group, Group0
  <2>2. \A k \in DOMAIN q : q[k] \in Group
    BY <1>11, <2>1
  <2>3. QED
    BY <1>9, <2>2
<1>13. \A k, h \in DOMAIN q : k < h => q[k].salience > q[h].salience
  <2>1. \A k \in DOMAIN q : q[k].salience = r[k].salience
    BY <1>4, <1>9
  <2>2. QED
    BY <1>4, <1>9, <2>1 DEF Decreasing
<1>14. ASSUME NEW y \in F PROVE \E k \in DOMAIN q : q[k].salience = Salient(n, y)
  <2>1. CASE Salient(n, y) = s
    BY <1>4, <1>9, <2>1
  <2>2. CASE Salient(n, y) # s
    <3>1. y \in E
      BY <1>3, <2>2 DEF s
    <3>2. PICK h \in DOMAIN a.groups : a.groups[h].salience = Salient(n, y)
      BY <1>2, <3>1
    <3>3. PICK k \in DOMAIN r : k # g /\ r[k] = a.groups[h]
      BY <1>4, <2>2, <3>2
    <3>4. QED
      BY <1>9, <3>2, <3>3
  <2>3. QED
    BY <2>1, <2>2
<1>15. GroupsOK(n, F, q)
  BY <1>9, <1>10, <1>11, <1>12, <1>13, <1>14 DEF GroupsOK
<1>16. QED
  BY <1>1, <1>8, <1>12, <1>15 DEF AgendaOK, F

\* What is left of the group of m when m leaves: its neighbour on the list
\* replaces it as the first or the last.
Left(n, E, m, list, i, G, K) ==
  /\ G.first = m /\ G.last = m => \A y \in E \ {m} : Salient(n, y) # Salient(n, m)
  /\ G.first = m /\ G.last # m =>
       /\ i + 1 \in DOMAIN list
       /\ K.first = list[i + 1] /\ K.last = G.last => GroupOK(n, E \ {m}, K)
  /\ G.first # m /\ G.last = m =>
       /\ i - 1 \in DOMAIN list
       /\ K.first = G.first /\ K.last = list[i - 1] => GroupOK(n, E \ {m}, K)
  /\ G.first # m /\ G.last # m => GroupOK(n, E \ {m}, G)

LEMMA LeaveGroupOK ==
  ASSUME NEW n, NEW list \in Seq(Match), Ranked(n, ToSet(list)), Sorted(n, list),
         NEW m \in ToSet(list), NEW G, GroupOK(n, ToSet(list), G), G.salience = Salient(n, m),
         NEW i \in DOMAIN list, list[i] = m,
         NEW K, K.salience = G.salience
  PROVE  Left(n, ToSet(list), m, list, i, G, K)
<1> DEFINE E == ToSet(list)
           s == Salient(n, m)
<1>1. /\ \A k \in DOMAIN list : list[k] \in E /\ k \in Nat
      /\ \A y \in E : \E k \in DOMAIN list : y = list[k]
      /\ DOMAIN list = 1..Len(list) /\ Len(list) \in Nat
  BY DEF ToSet
<1>2. /\ \A x \in E : Salient(n, x) \in Int /\ ~Ahead(n, x, x)
      /\ \A x, y \in E : Ahead(n, x, y) => Salient(n, x) >= Salient(n, y)
      /\ \A x, y, z \in E : Ahead(n, x, y) /\ Ahead(n, y, z) => Ahead(n, x, z)
  BY AheadOrder
<1>3. \A k, l \in DOMAIN list : /\ list[k] = list[l] => k = l
                                /\ Ahead(n, list[k], list[l]) <=> k < l
  BY SortedOrder
<1>4. /\ G.first \in E /\ Salient(n, G.first) = s /\ G.last \in E /\ Salient(n, G.last) = s
      /\ \A y \in E : Salient(n, y) = s =>
           (y = G.first \/ Ahead(n, G.first, y)) /\ (y = G.last \/ Ahead(n, y, G.last))
  BY DEF GroupOK
<1>5. m \in E /\ s \in Int /\ K.salience = s /\ G.salience = s
  BY <1>2
<1> HIDE DEF E, s
<1>6. ASSUME G.first = m, G.last = m
      PROVE  \A y \in E \ {m} : Salient(n, y) # s
  BY <1>2, <1>4, <1>5, <1>6
<1>7. ASSUME G.first = m, G.last # m
      PROVE  /\ i + 1 \in DOMAIN list
             /\ K.first = list[i + 1] /\ K.last = G.last => GroupOK(n, E \ {m}, K)
  <2>1. PICK l \in DOMAIN list : G.last = list[l]
    BY <1>1, <1>4
  <2>2. i < l
    BY <1>3, <1>4, <1>7, <2>1
  <2>3. i + 1 \in DOMAIN list /\ i < i + 1 /\ (i + 1 = l \/ i + 1 < l)
    BY <1>1, <2>1, <2>2
  <2>4. list[i + 1] \in E /\ list[i + 1] # m /\ Ahead(n, m, list[i + 1])
    BY <1>1, <1>2, <1>3, <1>5, <2>3
  <2>5. list[i + 1] = G.last \/ Ahead(n, list[i + 1], G.last)
    BY <1>3, <2>1, <2>3
  <2>6. Salient(n, list[i + 1]) = s
    <3>1. Salient(n, list[i + 1]) \in Int /\ s >= Salient(n, list[i + 1])
      BY <1>2, <1>5, <2>4 DEF s
    <3>2. Salient(n, list[i + 1]) = s \/ Salient(n, list[i + 1]) >= s
      BY <1>2, <1>4, <2>4, <2>5
    <3>3. QED
      BY <1>5, <3>1, <3>2
  <2>7. ASSUME NEW y \in E \ {m}, Salient(n, y) = s
        PROVE  y = list[i + 1] \/ Ahead(n, list[i + 1], y)
    <3>1. PICK k \in DOMAIN list : y = list[k]
      BY <1>1
    <3>2. Ahead(n, m, y)
      BY <1>4, <1>7, <2>7
    <3>3. i < k
      BY <1>3, <3>1, <3>2
    <3>4. k = i + 1 \/ i + 1 < k
      BY <1>1, <3>1, <3>3
    <3>5. QED
      BY <1>3, <2>3, <3>1, <3>4
  <2>8. QED
    BY <1>4, <1>5, <1>7, <2>3, <2>4, <2>6, <2>7 DEF GroupOK
<1>8. ASSUME G.first # m, G.last = m
      PROVE  /\ i - 1 \in DOMAIN list
             /\ K.first = G.first /\ K.last = list[i - 1] => GroupOK(n, E \ {m}, K)
  <2>1. PICK l \in DOMAIN list : G.first = list[l]
    BY <1>1, <1>4
  <2>2. l < i
    BY <1>3, <1>4, <1>5, <1>8, <2>1 DEF s
  <2>3. i - 1 \in DOMAIN list /\ i - 1 < i /\ (i - 1 = l \/ l < i - 1)
    BY <1>1, <2>1, <2>2
  <2>4. list[i - 1] \in E /\ list[i - 1] # m /\ Ahead(n, list[i - 1], m)
    BY <1>1, <1>2, <1>3, <1>5, <2>3
  <2>5. list[i - 1] = G.first \/ Ahead(n, G.first, list[i - 1])
    BY <1>3, <2>1, <2>3
  <2>6. Salient(n, list[i - 1]) = s
    <3>1. Salient(n, list[i - 1]) \in Int /\ Salient(n, list[i - 1]) >= s
      BY <1>2, <1>5, <2>4 DEF s
    <3>2. Salient(n, list[i - 1]) = s \/ s >= Salient(n, list[i - 1])
      BY <1>2, <1>4, <2>4, <2>5
    <3>3. QED
      BY <1>5, <3>1, <3>2
  <2>7. ASSUME NEW y \in E \ {m}, Salient(n, y) = s
        PROVE  y = list[i - 1] \/ Ahead(n, y, list[i - 1])
    <3>1. PICK k \in DOMAIN list : y = list[k]
      BY <1>1
    <3>2. Ahead(n, y, m)
      BY <1>4, <1>8, <2>7
    <3>3. k < i
      BY <1>3, <3>1, <3>2
    <3>4. k = i - 1 \/ k < i - 1
      BY <1>1, <3>1, <3>3
    <3>5. QED
      BY <1>3, <2>3, <3>1, <3>4
  <2>8. QED
    BY <1>4, <1>5, <1>8, <2>3, <2>4, <2>6, <2>7 DEF GroupOK
<1>9. ASSUME G.first # m, G.last # m
      PROVE  GroupOK(n, E \ {m}, G)
  BY <1>4, <1>5, <1>9 DEF GroupOK
<1>10. QED
  BY <1>6, <1>7, <1>8, <1>9 DEF E, s, Left

\* The list without m.
LEMMA RemoveSorted ==
  ASSUME NEW n, NEW list \in Seq(Match), Ranked(n, ToSet(list)), Sorted(n, list),
         NEW i \in DOMAIN list, NEW l, l = RemoveAt(list, i)
  PROVE  l \in Seq(Match) /\ ToSet(l) = ToSet(list) \ {list[i]} /\ Sorted(n, l)
<1>1. /\ \A k \in DOMAIN list : list[k] \in ToSet(list) /\ k \in Nat
      /\ \A y \in ToSet(list) : \E k \in DOMAIN list : y = list[k]
      /\ DOMAIN list = 1..Len(list) /\ Len(list) \in Nat /\ i \in 1..Len(list)
  BY DEF ToSet
<1>2. \A k, j \in DOMAIN list : list[k] = list[j] => k = j
  BY SortedOrder
<1>3. /\ l \in Seq(Match) /\ DOMAIN l = 1..Len(list) - 1
      /\ \A k \in 1..Len(list) - 1 : l[k] = IF k < i THEN list[k] ELSE list[k + 1]
  <2>1. /\ l \in Seq(Match) /\ Len(l) = Len(list) - 1
        /\ \A k \in 1..Len(list) - 1 : l[k] = IF k < i THEN list[k] ELSE list[k + 1]
    BY <1>1, RemoveOK
  <2>2. QED
    BY <2>1
<1> DEFINE up(k) == IF k < i THEN k ELSE k + 1
<1>4. \A k \in DOMAIN l : l[k] = list[up(k)] /\ up(k) \in DOMAIN list /\ up(k) # i
  <2> TAKE k \in DOMAIN l
  <2>1. l[k] = IF k < i THEN list[k] ELSE list[k + 1]
    BY <1>3
  <2>2. l[k] = list[up(k)]
    BY <2>1
  <2>3. up(k) \in DOMAIN list /\ up(k) # i
    BY <1>1, <1>3
  <2>4. QED
    BY <2>2, <2>3
<1>5. \A j, k \in DOMAIN l : j < k => up(j) < up(k)
  BY <1>1, <1>3
<1>6. \A k \in DOMAIN list : k # i => \E j \in DOMAIN l : up(j) = k
  <2> TAKE k \in DOMAIN list
  <2> HAVE k # i
  <2>1. CASE k < i
    BY <1>1, <1>3, <2>1
  <2>2. CASE k > i
    <3>1. k - 1 \in DOMAIN l /\ ~(k - 1 < i) /\ (k - 1) + 1 = k
      BY <1>1, <1>3, <2>2
    <3>2. QED
      BY <3>1
  <2>3. QED
    BY <1>1, <2>1, <2>2
<1> HIDE DEF up
<1>7. Sorted(n, l)
  BY <1>4, <1>5 DEF Sorted
<1>8. ToSet(l) \subseteq ToSet(list) \ {list[i]}
  <2>1. \A k \in DOMAIN l : l[k] \in ToSet(list) /\ l[k] # list[i]
    BY <1>1, <1>2, <1>4
  <2>2. QED
    BY <2>1 DEF ToSet
<1>9. ASSUME NEW y \in ToSet(list) \ {list[i]} PROVE y \in ToSet(l)
  <2>1. PICK k \in DOMAIN list : y = list[k] /\ k # i
    BY <1>1
  <2>2. PICK j \in DOMAIN l : up(j) = k
    BY <1>6, <2>1
  <2>3. l[j] = y
    BY <1>4, <2>1, <2>2
  <2>4. QED
    BY <2>3 DEF ToSet
<1>10. QED
  BY <1>3, <1>7, <1>8, <1>9

\* The other groups do not notice that m leaves.
LEMMA OtherGroupOK ==
  ASSUME NEW n, NEW E, NEW m, NEW G, GroupOK(n, E, G), G.salience # Salient(n, m)
  PROVE  GroupOK(n, E \ {m}, G)
BY DEF GroupOK

\* RemoveActivationFromGroup and the unlinking keep an agenda in order.
LEMMA UnlinkOK ==
  ASSUME NEW n, NEW a, NEW E, AgendaOK(n, a, E), Ranked(n, E), NEW m \in E
  PROVE  AgendaOK(n, Unlink(n, a, m), E \ {m})
<1> DEFINE list == a.list
           groups == a.groups
           s == Salient(n, m)
           g == GroupIndex(groups, s)
           i == Pos(list, m)
           G == groups[g]
           l == RemoveAt(list, i)
           q == RemoveActivationFromGroup(n, a, m)
<1>1. Unlink(n, a, m) = [list |-> l, groups |-> q]
  BY DEF Unlink
<1>2. /\ list \in Seq(Match) /\ ToSet(list) = E /\ Sorted(n, list)
      /\ groups \in Seq(Group) /\ Decreasing(groups)
      /\ \A h \in DOMAIN groups : GroupOK(n, E, groups[h])
      /\ \A y \in E : \E h \in DOMAIN groups : groups[h].salience = Salient(n, y)
  BY DEF AgendaOK, GroupsOK, Decreasing
<1>3. q = IF ~HasGroup(groups, s) THEN groups
          ELSE IF G.first = m /\ G.last = m THEN RemoveAt(groups, g)
          ELSE IF G.first = m THEN [groups EXCEPT ![g].first = list[i + 1]]
          ELSE IF G.last = m  THEN [groups EXCEPT ![g].last = list[i - 1]]
          ELSE groups
  BY DEF RemoveActivationFromGroup, Salient
<1>4. s \in Int /\ E \subseteq Match /\ \A y \in E : Salient(n, y) \in Int
  BY AheadOrder DEF Ranked
<1>5. i \in DOMAIN list /\ list[i] = m
  BY <1>2, PosOK
<1>6. l \in Seq(Match) /\ ToSet(l) = E \ {m} /\ Sorted(n, l)
  <2> HIDE DEF list, i, l
  <2>1. l = RemoveAt(list, i)
    BY DEF l
  <2>2. QED
    BY <1>2, <1>5, <2>1, RemoveSorted
<1> HIDE DEF list, groups, i, l, q, s
<1>7. /\ g \in 1..Len(groups) + 1
      /\ \A h \in DOMAIN groups : groups[h].salience > s <=> h < g
      /\ \A h \in DOMAIN groups : groups[h].salience = s => h = g
      /\ HasGroup(groups, s) <=> g \in DOMAIN groups /\ groups[g].salience = s
  BY <1>2, <1>4, GroupIndexOK DEF Decreasing
<1> HIDE DEF g
<1>8. HasGroup(groups, s) /\ g \in DOMAIN groups /\ G.salience = s /\ GroupOK(n, E, G) /\ G \in Group
  <2>1. PICK h \in DOMAIN groups : groups[h].salience = s
    BY <1>2 DEF s
  <2>2. QED
    BY <1>2, <1>7, <2>1
<1>9. /\ DOMAIN groups = 1..Len(groups) /\ Len(groups) \in Nat
      /\ \A h \in DOMAIN groups : groups[h] \in Group
  BY <1>2
<1>10. ASSUME NEW h \in DOMAIN groups, h # g
       PROVE  GroupOK(n, E \ {m}, groups[h]) /\ groups[h].salience # s
  <2>1. groups[h].salience # s
    BY <1>7, <1>10
  <2>2. QED
    BY <1>2, <2>1, OtherGroupOK DEF s
<1> HIDE DEF G
<1>11. ASSUME NEW K, K.salience = G.salience
       PROVE  Left(n, E, m, list, i, G, K)
  <2>1. G.salience = Salient(n, m)
    BY <1>8 DEF s
  <2>2. m \in ToSet(list) /\ Ranked(n, ToSet(list)) /\ GroupOK(n, ToSet(list), G)
    BY <1>2, <1>8
  <2>3. QED
    BY <1>2, <1>5, <1>11, <2>1, <2>2, LeaveGroupOK
<1>12. GroupsOK(n, E \ {m}, q)
  <2>1. CASE G.first = m /\ G.last = m
    <3>1. \A y \in E \ {m} : Salient(n, y) # s
      BY <1>11, <2>1 DEF Left, s
    <3>2. q = RemoveAt(groups, g)
      BY <1>3, <1>8, <2>1
    <3>3. /\ q \in Seq(Group) /\ Len(q) = Len(groups) - 1
          /\ \A k \in 1..Len(groups) - 1 : q[k] = IF k < g THEN groups[k] ELSE groups[k + 1]
      <4>1. groups \in Seq(Group) /\ g \in 1..Len(groups)
        BY <1>2, <1>8, <1>9
      <4>2. QED
        BY <3>2, <4>1, RemoveOK
    <3> DEFINE up(k) == IF k < g THEN k ELSE k + 1
    <3>4. DOMAIN q = 1..Len(groups) - 1
      BY <3>3
    <3>5. \A k \in DOMAIN q : q[k] = groups[up(k)] /\ up(k) \in DOMAIN groups /\ up(k) # g
      <4> TAKE k \in DOMAIN q
      <4>1. q[k] = IF k < g THEN groups[k] ELSE groups[k + 1]
        BY <3>3, <3>4
      <4>2. q[k] = groups[up(k)]
        BY <4>1
      <4>3. up(k) \in DOMAIN groups /\ up(k) # g
        BY <1>7, <1>9, <3>4
      <4>4. QED
        BY <4>2, <4>3
    <3>6. \A j, k \in DOMAIN q : j < k => up(j) < up(k)
      BY <1>7, <1>9, <3>4
    <3>7. \A k \in DOMAIN groups : k # g => \E j \in DOMAIN q : up(j) = k
      <4> TAKE k \in DOMAIN groups
      <4> HAVE k # g
      <4>1. CASE k < g
        BY <1>8, <1>9, <3>4, <4>1
      <4>2. CASE k > g
        <5>1. k - 1 \in DOMAIN q /\ ~(k - 1 < g) /\ (k - 1) + 1 = k
          BY <1>7, <1>9, <3>4, <4>2
        <5>2. QED
          BY <5>1
      <4>3. QED
        BY <1>7, <1>9, <4>1, <4>2
    <3> HIDE DEF up
    <3>8. \A j, k \in DOMAIN q : j < k => q[j].salience > q[k].salience
      BY <1>2, <3>5, <3>6 DEF Decreasing
    <3>9. \A k \in DOMAIN q : GroupOK(n, E \ {m}, q[k])
      BY <1>10, <3>5
    <3>10. ASSUME NEW y \in E \ {m} PROVE \E k \in DOMAIN q : q[k].salience = Salient(n, y)
      <4>1. PICK h \in DOMAIN groups : groups[h].salience = Salient(n, y)
        BY <1>2
      <4>2. h # g
        BY <1>8, <3>1, <4>1 DEF G
      <4>3. PICK k \in DOMAIN q : up(k) = h
        BY <3>7, <4>2
      <4>4. QED
        BY <3>5, <4>1, <4>3
    <3>11. QED
      BY <3>3, <3>8, <3>9, <3>10 DEF GroupsOK
  <2>2. ASSUME NEW K \in Group, K.salience = s, GroupOK(n, E \ {m}, K), q = [groups EXCEPT ![g] = K]
        PROVE  GroupsOK(n, E \ {m}, q)
    <3>1. /\ DOMAIN q = DOMAIN groups /\ q[g] = K /\ q \in Seq(Group)
          /\ \A h \in DOMAIN groups : h # g => q[h] = groups[h]
      BY <1>2, <1>8, <2>2
    <3>2. \A h \in DOMAIN groups : q[h].salience = groups[h].salience
      BY <1>8, <2>2, <3>1 DEF G
    <3>3. \A k, h \in DOMAIN q : k < h => q[k].salience > q[h].salience
      BY <1>2, <3>1, <3>2 DEF Decreasing
    <3>4. \A h \in DOMAIN q : GroupOK(n, E \ {m}, q[h])
      BY <1>10, <2>2, <3>1
    <3>5. \A y \in E \ {m} : \E h \in DOMAIN q : q[h].salience = Salient(n, y)
      BY <1>2, <3>1, <3>2
    <3>6. QED
      BY <3>1, <3>3, <3>4, <3>5 DEF GroupsOK
  <2>3. CASE G.first = m /\ G.last # m
    <3> DEFINE K == [G EXCEPT !.first = list[i + 1]]
    <3>1. i + 1 \in DOMAIN list
      BY <1>11, <2>3 DEF Left
    <3>2. q = [groups EXCEPT ![g] = K]
      BY <1>3, <1>8, <2>3 DEF G
    <3>3. list[i + 1] \in Match
      BY <1>2, <3>1
    <3>4. K \in Group /\ K.salience = G.salience /\ K.first = list[i + 1] /\ K.last = G.last
      BY <1>8, <3>3 DEF Group
    <3> HIDE DEF K
    <3>5. GroupOK(n, E \ {m}, K)
      BY <1>11, <2>3, <3>4 DEF Left
    <3>6. QED
      BY <1>8, <2>2, <3>2, <3>4, <3>5
  <2>4. CASE G.first # m /\ G.last = m
    <3> DEFINE K == [G EXCEPT !.last = list[i - 1]]
    <3>1. i - 1 \in DOMAIN list
      BY <1>11, <2>4 DEF Left
    <3>2. q = [groups EXCEPT ![g] = K]
      BY <1>3, <1>8, <2>4 DEF G
    <3>3. list[i - 1] \in Match
      BY <1>2, <3>1
    <3>4. K \in Group /\ K.salience = G.salience /\ K.first = G.first /\ K.last = list[i - 1]
      BY <1>8, <3>3 DEF Group
    <3> HIDE DEF K
    <3>5. GroupOK(n, E \ {m}, K)
      BY <1>11, <2>4, <3>4 DEF Left
    <3>6. QED
      BY <1>8, <2>2, <3>2, <3>4, <3>5
  <2>5. CASE G.first # m /\ G.last # m
    <3>1. q = groups
      BY <1>3, <2>5
    <3>2. groups = [groups EXCEPT ![g] = G]
      BY <1>2, <1>8 DEF G
    <3>3. GroupOK(n, E \ {m}, G)
      BY <1>11, <2>5 DEF Left
    <3>4. QED
      BY <1>8, <2>2, <3>1, <3>2, <3>3
  <2>6. QED
    BY <2>1, <2>3, <2>4, <2>5
<1>13. QED
  <2>1. q \in Seq(Group)
    BY <1>12 DEF GroupsOK
  <2>2. QED
    BY <1>1, <1>6, <1>12, <2>1 DEF AgendaOK

\* The loop of ReorderAgenda, one activation at a time.
Placed(n, list, k, f) ==
  /\ f[0] = EmptyAgenda
  /\ \A i \in 1..k : f[i] = PlaceActivation(n, f[i - 1], list[i])

LEMMA ReorderLoop ==
  ASSUME NEW n, NEW a, NEW k \in Nat, k = Len(a.list)
  PROVE  \E f : Placed(n, a.list, k, f) /\ ReorderAgenda(n, a) = f[k]
<1> DEFINE Def(f, j) == f = [i \in 0..j |->
              IF i = 0 THEN EmptyAgenda ELSE PlaceActivation(n, f[i - 1], a.list[i])]
           S == {j \in 0..k : \E f : Def(f, j)}
<1>1. 0 \in S
  <2>1. PICK f : f = [i \in 0..0 |-> EmptyAgenda]
    OBVIOUS
  <2>2. Def(f, 0)
    BY <2>1
  <2> HIDE DEF Def
  <2>3. QED
    BY <2>2
<1>2. ASSUME NEW j \in 0..k - 1, j \in S PROVE j + 1 \in S
  <2>1. PICK f : Def(f, j)
    BY <1>2
  <2>2. PICK g : g = [i \in 0..j + 1 |->
                        IF i <= j THEN f[i] ELSE PlaceActivation(n, f[j], a.list[j + 1])]
    OBVIOUS
  <2>3. Def(g, j + 1)
    <3> SUFFICES ASSUME NEW i \in 0..j + 1
                 PROVE  g[i] = IF i = 0 THEN EmptyAgenda
                               ELSE PlaceActivation(n, g[i - 1], a.list[i])
      BY <2>2
    <3>1. CASE i = 0
      BY <2>1, <2>2, <3>1
    <3>2. CASE i \in 1..j
      <4>1. f[i] = PlaceActivation(n, f[i - 1], a.list[i])
        BY <2>1, <3>2
      <4>2. g[i] = f[i] /\ g[i - 1] = f[i - 1]
        BY <2>2, <3>2
      <4>3. QED
        BY <3>2, <4>1, <4>2
    <3>3. CASE i = j + 1
      BY <2>2, <3>3
    <3>4. QED
      BY <3>1, <3>2, <3>3
  <2> HIDE DEF Def
  <2>4. QED
    BY <2>3
<1>3. k \in S
  <2> HIDE DEF S
  <2>1. 0..k \subseteq S
    BY <1>1, <1>2, Induction
  <2>2. QED
    BY <2>1
<1>4. Def(CHOOSE f : Def(f, k), k)
  <2> HIDE DEF Def
  <2>1. QED
    BY <1>3
<1>5. ReorderAgenda(n, a) = (CHOOSE f : Def(f, k))[k]
  BY DEF ReorderAgenda
<1>6. PICK f : f = CHOOSE g : Def(g, k)
  OBVIOUS
<1>7. Def(f, k) /\ ReorderAgenda(n, a) = f[k]
  <2> HIDE DEF Def
  <2>1. QED
    BY <1>4, <1>5, <1>6
<1>8. Placed(n, a.list, k, f)
  <2>1. f[0] = EmptyAgenda
    BY <1>7
  <2>2. \A i \in 1..k : f[i] = PlaceActivation(n, f[i - 1], a.list[i])
    BY <1>7
  <2> HIDE DEF Def
  <2>3. QED
    BY <2>1, <2>2 DEF Placed
<1>9. QED
  BY <1>7, <1>8

\* Placing every activation again keeps the agenda in order, whatever the
\* order it was in: a new strategy or new saliences end here.
LEMMA ReorderOK ==
  ASSUME NEW n, NEW a, a.list \in Seq(Match), Ranked(n, ToSet(a.list)),
         \A i, j \in DOMAIN a.list : a.list[i] = a.list[j] => i = j
  PROVE  AgendaOK(n, ReorderAgenda(n, a), ToSet(a.list))
<1> DEFINE list == a.list
           k == Len(list)
<1>1. k \in Nat /\ DOMAIN list = 1..k /\ list \in Seq(Match)
  OBVIOUS
<1>L. PICK f : Placed(n, list, k, f) /\ ReorderAgenda(n, a) = f[k]
  BY <1>1, ReorderLoop
<1>2. /\ f[0] = EmptyAgenda
      /\ \A i \in 1..k : f[i] = PlaceActivation(n, f[i - 1], list[i])
      /\ ReorderAgenda(n, a) = f[k]
  BY <1>L DEF Placed
<1>U. \A i, j \in DOMAIN list : list[i] = list[j] => i = j
  OBVIOUS
<1> HIDE DEF list, k
<1> DEFINE Part(i) == {list[j] : j \in 1..i}
           S == {i \in 0..k : AgendaOK(n, f[i], Part(i))}
<1>3. 0 \in S
  <2>1. Part(0) = {}
    OBVIOUS
  <2> HIDE DEF Part
  <2>2. AgendaOK(n, f[0], Part(0))
    BY <1>2, <2>1, EmptyOK
  <2>3. QED
    BY <1>1, <2>2
<1>4. ASSUME NEW i \in 0..k - 1, i \in S PROVE i + 1 \in S
  <2>1. AgendaOK(n, f[i], Part(i)) /\ i + 1 \in 1..k /\ (i + 1) - 1 = i
    <3>1. i + 1 \in 1..k /\ (i + 1) - 1 = i
      BY <1>1
    <3> HIDE DEF Part
    <3>2. QED
      BY <1>4, <3>1
  <2>2. list[i + 1] \in Match /\ f[i + 1] = PlaceActivation(n, f[i], list[i + 1])
    BY <1>1, <1>2, <2>1
  <2>3. list[i + 1] \notin Part(i)
    BY <1>1, <1>U, <2>1
  <2>4. Part(i + 1) = Part(i) \cup {list[i + 1]}
    BY <1>1, <2>1
  <2>5. Ranked(n, Part(i) \cup {list[i + 1]})
    <3>1. Part(i) \cup {list[i + 1]} \subseteq ToSet(list)
      BY <1>1, <2>1 DEF ToSet
    <3>2. QED
      BY <3>1 DEF Ranked, list
  <2> HIDE DEF Part
  <2>6. AgendaOK(n, f[i + 1], Part(i + 1))
    <3>1. PICK P, x : P = Part(i) /\ x = list[i + 1]
      OBVIOUS
    <3>2. x \in Match /\ x \notin P /\ AgendaOK(n, f[i], P) /\ Ranked(n, P \cup {x})
      BY <2>1, <2>2, <2>3, <2>5, <3>1
    <3>3. AgendaOK(n, PlaceActivation(n, f[i], x), P \cup {x})
      BY <3>2, PlaceOK
    <3>4. QED
      BY <2>2, <2>4, <3>1, <3>3
  <2>7. QED
    BY <1>1, <2>1, <2>6
<1>5. k \in S
  <2> HIDE DEF S
  <2>1. 0..k \subseteq S
    BY <1>1, <1>3, <1>4, Induction
  <2>2. QED
    BY <1>1, <2>1
<1>6. Part(k) = ToSet(list)
  BY <1>1 DEF ToSet
<1>7. QED
  BY <1>2, <1>5, <1>6 DEF list

-----------------------------------------------------------------------------
(* All the agendas. *)

NetType == [agenda   : [Module -> [list : Seq(Match), groups : Seq(Group)]],
            act      : [Match -> Act],
            clock    : Nat, count : Int, marker : SUBSET Match,
            salience : [Rule -> Int],
            focus    : Seq(Module), halt : BOOLEAN, strategy : Strategy]

\* The activations of module d.
On(n, d) == {m \in n.marker : Home(m) = d}

\* Time tags come from the clock and tell activations apart.
TagsOK(n) ==
  /\ \A x \in n.marker : n.act[x].tag < n.clock
  /\ \A x, y \in n.marker : n.act[x].tag = n.act[y].tag => x = y

NetOK(n) ==
  /\ n \in NetType /\ IsFiniteSet(n.marker) /\ TagsOK(n)
  /\ \A d \in Module : AgendaOK(n, n.agenda[d], On(n, d))

LEMMA HomeType == \A m \in Match : RuleOf[m] \in Rule /\ Home(m) \in Module
BY AgendaAssumption DEF Home

LEMMA SalienceType ==
  ASSUME NEW mode, NEW value \in Values, NEW salience \in [Rule -> Int], NEW r \in Rule
  PROVE  EvaluateSalience(mode, value, salience, r) \in Int
BY AgendaAssumption DEF EvaluateSalience, Values

LEMMA FocusType ==
  ASSUME NEW stack \in Seq(Module), NEW d \in Module
  PROVE  Focus(stack, d) \in Seq(Module)
BY DEF Focus

\* What is on an agenda has distinct time tags.
LEMMA NetRanked ==
  ASSUME NEW n, n \in NetType, TagsOK(n), NEW E, E \subseteq n.marker
  PROVE  Ranked(n, E)
BY DEF NetType, TagsOK, Ranked

\* What AddActivation changes.
LEMMA AddFields ==
  ASSUME NEW n \in NetType, NEW value \in Values, NEW m \in Match, n.clock \in 1..MaxTag,
         NEW k, k = AddActivation(n, value, m)
  PROVE  /\ k.act = [n.act EXCEPT ![m] = k.act[m]] /\ k.act \in [Match -> Act]
         /\ k.act[m].tag = n.clock
         /\ k.clock = n.clock + 1 /\ k.count = n.count + 1 /\ k.marker = n.marker \cup {m}
         /\ k.strategy = n.strategy /\ k.salience \in [Rule -> Int]
         /\ k.focus \in Seq(Module) /\ k.halt \in BOOLEAN
         /\ k.agenda = [n.agenda EXCEPT ![Home(m)] =
                          PlaceActivation([n EXCEPT !.act = k.act], @, m)]
         /\ k.agenda \in [Module -> [list : Seq(Match), groups : Seq(Group)]] => k \in NetType
<1> DEFINE r == RuleOf[m]
           s == EvaluateSalience(evaluation, value, n.salience, r)
           new == [tag |-> n.clock, salience |-> s, random |-> GenRand[n.clock]]
           act == [n.act EXCEPT ![m] = new]
           f == IF r \in AutoFocus THEN Focus(n.focus, Home(m)) ELSE n.focus
           h == n.halt \/ SalienceFails(evaluation, value, r)
           p == PlaceActivation([n EXCEPT !.act = act], n.agenda[Home(m)], m)
<1>1. /\ n.agenda \in [Module -> [list : Seq(Match), groups : Seq(Group)]]
      /\ n.act \in [Match -> Act] /\ n.clock \in Nat /\ n.count \in Int
      /\ n.marker \in SUBSET Match /\ n.salience \in [Rule -> Int]
      /\ n.focus \in Seq(Module) /\ n.strategy \in Strategy
  BY DEF NetType
<1>2. r \in Rule /\ Home(m) \in Module /\ s \in Int /\ f \in Seq(Module)
  BY <1>1, HomeType, SalienceType, FocusType
<1>3. new \in Act /\ new.tag = n.clock
  <2>1. GenRand[n.clock] \in Nat
    BY AgendaAssumption
  <2> HIDE DEF s
  <2>2. QED
    BY <1>1, <1>2, <2>1 DEF Act
<1>4. h \in BOOLEAN
  <2> HIDE DEF r
  <2>1. QED
    BY Zenon DEF SalienceFails
<1> HIDE DEF new, s
<1>5. act \in [Match -> Act] /\ act[m] = new
  BY <1>1, <1>3
<1>6. k = [n EXCEPT !.focus = f, !.act = act, !.clock = n.clock + 1, !.count = n.count + 1,
             !.marker = n.marker \cup {m}, !.salience = [n.salience EXCEPT ![r] = s],
             !.halt = h, !.agenda = [n.agenda EXCEPT ![Home(m)] = p]]
  BY DEF AddActivation, s, new, NetType
<1> HIDE DEF act, f, h, p, r
<1>7. /\ k.focus = f /\ k.act = act /\ k.clock = n.clock + 1 /\ k.count = n.count + 1
      /\ k.marker = n.marker \cup {m} /\ k.salience = [n.salience EXCEPT ![r] = s]
      /\ k.halt = h /\ k.agenda = [n.agenda EXCEPT ![Home(m)] = p] /\ k.strategy = n.strategy
  BY <1>6 DEF NetType
<1>8. k.act = [n.act EXCEPT ![m] = k.act[m]] /\ k.act \in [Match -> Act] /\ k.act[m].tag = n.clock
  BY <1>1, <1>3, <1>5, <1>7 DEF act
<1>9. k.salience \in [Rule -> Int]
  BY <1>1, <1>2, <1>7
<1>10. k.agenda = [n.agenda EXCEPT ![Home(m)] = PlaceActivation([n EXCEPT !.act = k.act], @, m)]
  BY <1>7 DEF p
<1>11. ASSUME NEW A \in [Module -> [list : Seq(Match), groups : Seq(Group)]], k.agenda = A
       PROVE  k \in NetType
  <2> DEFINE c == n.clock + 1
             o == n.count + 1
             q == n.marker \cup {m}
             u == [n.salience EXCEPT ![r] = s]
  <2>1. c \in Nat /\ o \in Int /\ q \in SUBSET Match
    BY <1>1, <1>2
  <2>0. u \in [Rule -> Int]
    BY <1>1, <1>2
  <2>2. k = [n EXCEPT !.focus = f, !.act = act, !.clock = c, !.count = o,
               !.marker = q, !.salience = u, !.halt = h, !.agenda = A]
    BY <1>6, <1>7, <1>11
  <2> HIDE DEF c, o, q, u
  <2>3. QED
    BY <1>2, <1>4, <1>5, <2>0, <2>1, <2>2 DEF NetType
<1>12. QED
  BY <1>2, <1>4, <1>7, <1>8, <1>9, <1>10, <1>11

\* What an activation or a removal leaves of the rest of the engine's state.
Grown(n, k, m) ==
  /\ NetOK(k) /\ k.marker = n.marker \cup {m}
  /\ k.clock = n.clock + 1 /\ k.count = n.count + 1

Shrunk(n, k, m, removed) ==
  /\ NetOK(k) /\ k.marker = n.marker \ {m}
  /\ k.clock = n.clock /\ k.count = n.count - removed

\* AddActivation keeps every agenda in order.
LEMMA AddOK ==
  ASSUME NEW n, NetOK(n), NEW value \in Values, NEW m \in Match, m \notin n.marker,
         n.clock \in 1..MaxTag
  PROVE  Grown(n, AddActivation(n, value, m), m)
<1>1. PICK k : k = AddActivation(n, value, m)
  OBVIOUS
<1>2. n \in NetType /\ TagsOK(n) /\ IsFiniteSet(n.marker) /\ Home(m) \in Module
  BY HomeType DEF NetOK
<1>3. /\ k.act = [n.act EXCEPT ![m] = k.act[m]] /\ k.act \in [Match -> Act]
      /\ k.act[m].tag = n.clock
      /\ k.clock = n.clock + 1 /\ k.count = n.count + 1 /\ k.marker = n.marker \cup {m}
      /\ k.strategy = n.strategy
      /\ k.agenda = [n.agenda EXCEPT ![Home(m)] = PlaceActivation([n EXCEPT !.act = k.act], @, m)]
      /\ k.agenda \in [Module -> [list : Seq(Match), groups : Seq(Group)]] => k \in NetType
  BY <1>1, <1>2, AddFields
<1>4. /\ n.act \in [Match -> Act] /\ n.clock \in Nat /\ n.marker \subseteq Match
      /\ n.agenda \in [Module -> [list : Seq(Match), groups : Seq(Group)]]
      /\ n.strategy \in Strategy
  BY <1>2 DEF NetType
<1>5. \A x \in n.marker : k.act[x] = n.act[x] /\ n.act[x].tag \in Nat
  BY <1>3, <1>4 DEF Act
<1>6. TagsOK(k)
  <2>1. \A x \in n.marker : k.act[x].tag < n.clock /\ k.act[x].tag \in Nat
    BY <1>2, <1>5 DEF TagsOK
  <2>2. \A x, y \in n.marker : k.act[x].tag = k.act[y].tag => x = y
    BY <1>2, <1>5 DEF TagsOK
  <2>3. QED
    BY <1>3, <1>4, <2>1, <2>2 DEF TagsOK
<1> DEFINE w == [n EXCEPT !.act = k.act]
<1>7. w.act = k.act /\ w.strategy = n.strategy
  BY <1>2 DEF NetType
<1> HIDE DEF w
<1>8. \A d \in Module : AgendaOK(k, k.agenda[d], On(k, d))
  <2> TAKE d \in Module
  <2>1. On(n, d) \subseteq n.marker /\ m \notin On(n, d)
    BY DEF On
  <2>2. AgendaOK(n, n.agenda[d], On(n, d))
    BY DEF NetOK
  <2>3. CASE d = Home(m)
    <3>1. On(k, d) = On(n, d) \cup {m}
      BY <1>3, <2>3 DEF On
    <3>2. AgendaOK(w, n.agenda[d], On(n, d))
      BY <1>5, <1>7, <2>1, <2>2, AgendaFrame
    <3>3. Ranked(w, On(n, d) \cup {m})
      <4>1. On(n, d) \cup {m} \subseteq k.marker /\ k.marker \subseteq Match
        BY <1>3, <1>4, <2>1
      <4>2. QED
        BY <1>3, <1>4, <1>6, <1>7, <4>1 DEF Ranked, TagsOK
    <3>4. AgendaOK(w, PlaceActivation(w, n.agenda[d], m), On(n, d) \cup {m})
      <4>1. PICK a, E : a = n.agenda[d] /\ E = On(n, d)
        OBVIOUS
      <4>2. QED
        BY <2>1, <3>2, <3>3, <4>1, PlaceOK
    <3>5. k.agenda[d] = PlaceActivation(w, n.agenda[d], m)
      BY <1>3, <1>4, <2>3 DEF w
    <3>6. QED
      BY <1>3, <1>7, <3>1, <3>4, <3>5, AgendaFrame
  <2>4. CASE d # Home(m)
    <3>1. On(k, d) = On(n, d)
      BY <1>3, <2>4 DEF On
    <3>2. k.agenda[d] = n.agenda[d]
      BY <1>3, <1>4, <2>4
    <3>3. QED
      BY <1>3, <1>5, <2>1, <2>2, <3>1, <3>2, AgendaFrame
  <2>5. QED
    BY <2>3, <2>4
<1>9. k \in NetType
  <2>1. \A d \in Module : k.agenda[d] \in [list : Seq(Match), groups : Seq(Group)]
    BY <1>8 DEF AgendaOK
  <2>2. k.agenda \in [Module -> [list : Seq(Match), groups : Seq(Group)]]
    BY <1>3, <1>4, <2>1
  <2>3. QED
    BY <1>3, <2>2
<1>10. IsFiniteSet(k.marker)
  BY <1>2, <1>3, FS_AddElement
<1>11. QED
  BY <1>1, <1>3, <1>6, <1>8, <1>9, <1>10 DEF Grown, NetOK

\* DetachActivation keeps every agenda in order.
LEMMA DetachOK ==
  ASSUME NEW n, NetOK(n), NEW m \in n.marker
  PROVE  Shrunk(n, DetachActivation(n, m), m, 0)
<1>1. PICK k : k = DetachActivation(n, m)
  OBVIOUS
<1>2. /\ n \in NetType /\ TagsOK(n) /\ IsFiniteSet(n.marker) /\ m \in Match /\ Home(m) \in Module
      /\ Ranked(n, n.marker)
  BY HomeType, NetRanked DEF NetOK, NetType
<1>3. /\ n.act \in [Match -> Act] /\ n.clock \in Nat /\ n.marker \subseteq Match
      /\ n.agenda \in [Module -> [list : Seq(Match), groups : Seq(Group)]]
      /\ n.strategy \in Strategy /\ n.count \in Int
  BY <1>2 DEF NetType
<1> DEFINE p == Unlink(n, n.agenda[Home(m)], m)
           A == [n.agenda EXCEPT ![Home(m)] = p]
           b == [n.act EXCEPT ![m] = Free]
<1>4. k = [n EXCEPT !.agenda = A, !.act = b, !.marker = n.marker \ {m}]
  BY <1>1, <1>2 DEF DetachActivation, NetType
<1>5. b \in [Match -> Act] /\ \A x \in n.marker \ {m} : b[x] = n.act[x]
  BY <1>2, <1>3 DEF Free, Act
<1> HIDE DEF A, b
<1>6. /\ k.agenda = A /\ k.act = b /\ k.marker = n.marker \ {m} /\ k.clock = n.clock
      /\ k.count = n.count /\ k.strategy = n.strategy
  BY <1>2, <1>4 DEF NetType
<1>7. TagsOK(k)
  BY <1>2, <1>5, <1>6 DEF TagsOK
<1>8. \A d \in Module : AgendaOK(k, k.agenda[d], On(k, d))
  <2> TAKE d \in Module
  <2>1. On(n, d) \subseteq n.marker
    BY DEF On
  <2>2. AgendaOK(n, n.agenda[d], On(n, d))
    BY DEF NetOK
  <2>3. CASE d = Home(m)
    <3>1. On(k, d) = On(n, d) \ {m} /\ m \in On(n, d)
      BY <1>6, <2>3 DEF On
    <3>2. Ranked(n, On(n, d))
      BY <1>2, <2>1, NetRanked
    <3>3. AgendaOK(n, Unlink(n, n.agenda[d], m), On(n, d) \ {m})
      <4>1. PICK a, E : a = n.agenda[d] /\ E = On(n, d)
        OBVIOUS
      <4>2. QED
        BY <2>2, <3>1, <3>2, <4>1, UnlinkOK
    <3>4. k.agenda[d] = Unlink(n, n.agenda[d], m)
      BY <1>3, <1>6, <2>3 DEF A
    <3>5. QED
      BY <1>5, <1>6, <2>1, <3>1, <3>3, <3>4, AgendaFrame
  <2>4. CASE d # Home(m)
    <3>1. On(k, d) = On(n, d) /\ m \notin On(n, d)
      BY <1>6, <2>4 DEF On
    <3>2. k.agenda[d] = n.agenda[d]
      BY <1>3, <1>6, <2>4 DEF A
    <3>3. QED
      BY <1>5, <1>6, <2>1, <2>2, <3>1, <3>2, AgendaFrame
  <2>5. QED
    BY <2>3, <2>4
<1>9. k \in NetType
  <2>1. \A d \in Module : k.agenda[d] \in [list : Seq(Match), groups : Seq(Group)]
    BY <1>8 DEF AgendaOK
  <2>2. A \in [Module -> [list : Seq(Match), groups : Seq(Group)]]
    BY <1>3, <1>6, <2>1 DEF A
  <2>3. n.marker \ {m} \in SUBSET Match
    BY <1>3
  <2>4. QED
    BY <1>2, <1>4, <1>5, <2>2, <2>3 DEF NetType
<1>10. IsFiniteSet(k.marker)
  BY <1>2, <1>6, FS_RemoveElement
<1>11. k.count = n.count - 0
  BY <1>3, <1>6
<1>12. QED
  BY <1>1, <1>6, <1>7, <1>8, <1>9, <1>10, <1>11 DEF Shrunk, NetOK

\* The order of a set of matches: each one once.
Lists(order, S) ==
  /\ order \in Seq(S) /\ Len(order) = Cardinality(S) /\ Cardinality(S) \in Nat
  /\ \A x \in S : \E i \in 1..Len(order) : order[i] = x
  /\ \A i, j \in 1..Len(order) : order[i] = order[j] => i = j

LEMMA OrdersOK ==
  ASSUME NEW S, IsFiniteSet(S)
  PROVE  Lists(SetToSeq(S), S) /\ \A order \in SetToSeqs(S) : Lists(order, S)
<1> DEFINE c == Cardinality(S)
<1>1. c \in Nat /\ \E f : f \in Bijection(1..c, S)
  BY FS_CardinalityType DEF ExistsBijection
<1> HIDE DEF c
<1>2. ASSUME NEW f \in [1..c -> S], \A i, j \in 1..c : f[i] = f[j] => i = j
      PROVE  Lists(f, S)
  <2>1. f \in Injection(1..c, S)
    BY <1>2 DEF Injection, IsInjective
  <2>2. Cardinality(1..c) = c
    BY <1>1, FS_Interval
  <2>3. f \in Surjection(1..c, S)
    BY <2>1, <2>2, FS_Injection DEF c
  <2>4. f \in Seq(S) /\ Len(f) = c
    BY <1>1, <1>2
  <2>5. \A x \in S : \E i \in 1..c : f[i] = x
    BY <2>3 DEF Surjection
  <2>6. QED
    BY <1>1, <1>2, <2>4, <2>5 DEF Lists, c
<1>3. Lists(SetToSeq(S), S)
  <2>1. PICK f \in [1..c -> S] : IsInjective(f)
    BY <1>1 DEF Bijection, Injection
  <2>2. SetToSeq(S) \in [1..c -> S] /\ IsInjective(SetToSeq(S))
    <3>1. SetToSeq(S) = CHOOSE g \in [1..c -> S] : IsInjective(g)
      BY DEF SetToSeq, c
    <3>2. QED
      BY <2>1, <3>1
  <2>3. PICK g : g = SetToSeq(S)
    OBVIOUS
  <2>4. g \in [1..c -> S] /\ \A i, j \in 1..c : g[i] = g[j] => i = j
    BY <2>2, <2>3 DEF IsInjective
  <2>5. QED
    BY <1>2, <2>3, <2>4
<1>4. ASSUME NEW order \in SetToSeqs(S) PROVE Lists(order, S)
  <2>1. order \in [1..c -> S] /\ \A i, j \in 1..c : i # j => order[i] # order[j]
    BY DEF SetToSeqs, c
  <2>2. QED
    BY <1>2, <2>1
<1>5. QED
  BY <1>3, <1>4

\* Nothing but agendas, activations, markers, clock and strategy matters.
LEMMA NetFrame ==
  ASSUME NEW n, NetOK(n), NEW k \in NetType, k.agenda = n.agenda, k.act = n.act,
         k.marker = n.marker, k.clock = n.clock, k.strategy = n.strategy
  PROVE  NetOK(k)
<1>1. TagsOK(k) /\ IsFiniteSet(k.marker)
  BY DEF NetOK, TagsOK
<1>2. \A d \in Module : AgendaOK(k, k.agenda[d], On(k, d))
  <2> TAKE d \in Module
  <2>1. AgendaOK(n, n.agenda[d], On(n, d)) /\ On(k, d) = On(n, d)
    BY DEF NetOK, On
  <2>2. QED
    BY <2>1, AgendaFrame
<1>3. QED
  BY <1>1, <1>2 DEF NetOK

\* RemoveActivation keeps every agenda in order.
LEMMA RemoveActivationOK ==
  ASSUME NEW n, NetOK(n), NEW m \in n.marker
  PROVE  Shrunk(n, RemoveActivation(n, m), m, 1)
<1>1. PICK k : k = DetachActivation(n, m)
  OBVIOUS
<1>2. NetOK(k) /\ k.marker = n.marker \ {m} /\ k.clock = n.clock /\ k.count = n.count - 0
  BY <1>1, DetachOK DEF Shrunk
<1>3. n.count \in Int /\ k \in NetType /\ k.count \in Int
  BY <1>2 DEF NetOK, NetType
<1>4. PICK w : w = [k EXCEPT !.count = k.count - 1]
  OBVIOUS
<1>5. /\ w \in NetType /\ w.agenda = k.agenda /\ w.act = k.act /\ w.marker = k.marker
      /\ w.clock = k.clock /\ w.strategy = k.strategy /\ w.count = k.count - 1
  <2>1. k.count - 1 \in Int
    BY <1>3
  <2>2. QED
    BY <1>3, <1>4, <2>1 DEF NetType
<1>6. NetOK(w)
  BY <1>2, <1>5, NetFrame
<1>7. w = RemoveActivation(n, m)
  BY <1>1, <1>3, <1>4 DEF RemoveActivation, NetType
<1>8. w.count = n.count - 1
  BY <1>2, <1>3, <1>5
<1>9. QED
  BY <1>2, <1>5, <1>6, <1>7, <1>8 DEF Shrunk

\* The loop of AddActivations.
Added(n, value, order, k, f) ==
  /\ f[0] = n
  /\ \A i \in 1..k : f[i] = AddActivation(f[i - 1], value, order[i])

LEMMA AddLoop ==
  ASSUME NEW n, NEW value, NEW order, NEW k \in Nat, k = Len(order)
  PROVE  \E f : Added(n, value, order, k, f) /\ AddActivations(n, value, order) = f[k]
<1> DEFINE Def(f, j) == f = [i \in 0..j |->
              IF i = 0 THEN n ELSE AddActivation(f[i - 1], value, order[i])]
           S == {j \in 0..k : \E f : Def(f, j)}
<1>1. 0 \in S
  <2>1. PICK f : f = [i \in 0..0 |-> n]
    OBVIOUS
  <2>2. Def(f, 0)
    BY <2>1
  <2> HIDE DEF Def
  <2>3. QED
    BY <2>2
<1>2. ASSUME NEW j \in 0..k - 1, j \in S PROVE j + 1 \in S
  <2>1. PICK f : Def(f, j)
    BY <1>2
  <2>2. PICK g : g = [i \in 0..j + 1 |->
                        IF i <= j THEN f[i] ELSE AddActivation(f[j], value, order[j + 1])]
    OBVIOUS
  <2>3. Def(g, j + 1)
    <3> SUFFICES ASSUME NEW i \in 0..j + 1
                 PROVE  g[i] = IF i = 0 THEN n ELSE AddActivation(g[i - 1], value, order[i])
      BY <2>2
    <3>1. CASE i = 0
      BY <2>1, <2>2, <3>1
    <3>2. CASE i \in 1..j
      <4>1. f[i] = AddActivation(f[i - 1], value, order[i])
        BY <2>1, <3>2
      <4>2. g[i] = f[i] /\ g[i - 1] = f[i - 1]
        BY <2>2, <3>2
      <4>3. QED
        BY <3>2, <4>1, <4>2
    <3>3. CASE i = j + 1
      BY <2>2, <3>3
    <3>4. QED
      BY <3>1, <3>2, <3>3
  <2> HIDE DEF Def
  <2>4. QED
    BY <2>3
<1>3. k \in S
  <2> HIDE DEF S
  <2>1. 0..k \subseteq S
    BY <1>1, <1>2, Induction
  <2>2. QED
    BY <2>1
<1>4. Def(CHOOSE f : Def(f, k), k)
  <2> HIDE DEF Def
  <2>1. QED
    BY <1>3
<1>5. AddActivations(n, value, order) = (CHOOSE f : Def(f, k))[k]
  BY DEF AddActivations
<1>6. PICK f : f = CHOOSE g : Def(g, k)
  OBVIOUS
<1>7. Def(f, k) /\ AddActivations(n, value, order) = f[k]
  <2> HIDE DEF Def
  <2>1. QED
    BY <1>4, <1>5, <1>6
<1>8. Added(n, value, order, k, f)
  <2>1. f[0] = n
    BY <1>7
  <2>2. \A i \in 1..k : f[i] = AddActivation(f[i - 1], value, order[i])
    BY <1>7
  <2> HIDE DEF Def
  <2>3. QED
    BY <2>1, <2>2 DEF Added
<1>9. QED
  BY <1>7, <1>8

\* Asserts and (refresh) keep every agenda in order and count what they add.
LEMMA AddActivationsOK ==
  ASSUME NEW n, NetOK(n), NEW value \in Values, NEW T, T \subseteq Match, T \cap n.marker = {},
         NEW order, Lists(order, T), n.clock >= 1, n.clock + Len(order) <= MaxTag + 1
  PROVE  LET k == AddActivations(n, value, order)
         IN /\ NetOK(k) /\ k.marker = n.marker \cup T
            /\ k.clock = n.clock + Len(order) /\ k.count = n.count + Cardinality(T)
<1> DEFINE c == Len(order)
<1>1. /\ c \in Nat /\ c = Cardinality(T) /\ n.clock \in Nat /\ n.count \in Int /\ MaxTag \in Nat
      /\ \A i \in 1..c : order[i] \in T
      /\ \A x \in T : \E i \in 1..c : order[i] = x
      /\ \A i, j \in 1..c : order[i] = order[j] => i = j
  BY AgendaAssumption DEF Lists, NetOK, NetType
<1>2. n.clock >= 1 /\ n.clock + c <= MaxTag + 1
  OBVIOUS
<1>3. PICK f : Added(n, value, order, c, f) /\ AddActivations(n, value, order) = f[c]
  BY <1>1, AddLoop
<1>4. f[0] = n /\ \A i \in 1..c : f[i] = AddActivation(f[i - 1], value, order[i])
  BY <1>3 DEF Added
<1> HIDE DEF c
<1> DEFINE Part(i) == {order[j] : j \in 1..i}
           Good(i) == /\ NetOK(f[i]) /\ f[i].marker = n.marker \cup Part(i)
                      /\ f[i].clock = n.clock + i /\ f[i].count = n.count + i
           S == {i \in 0..c : Good(i)}
<1>5. 0 \in S
  <2>1. Part(0) = {} /\ n.clock = n.clock + 0 /\ n.count = n.count + 0
    BY <1>1
  <2> HIDE DEF Part
  <2>2. Good(0)
    BY <1>4, <2>1
  <2> HIDE DEF Good
  <2>3. QED
    BY <1>1, <2>2
<1>6. ASSUME NEW i \in 0..c - 1, i \in S PROVE i + 1 \in S
  <2>1. i + 1 \in 1..c /\ (i + 1) - 1 = i /\ i + 1 \in 0..c /\ i \in Nat
    <3> HIDE DEF S
    <3>1. QED
      BY <1>1
  <2>2. Part(i + 1) = Part(i) \cup {order[i + 1]}
    BY <1>1, <2>1
  <2>3. order[i + 1] \notin Part(i) /\ order[i + 1] \in T
    BY <1>1, <2>1
  <2> HIDE DEF Part
  <2>4. Good(i)
    BY <1>6
  <2>5. f[i].clock \in 1..MaxTag
    <3>1. f[i].clock = n.clock + i
      BY <2>4
    <3>2. n.clock \in Nat /\ c \in Nat /\ MaxTag \in Nat /\ i + 1 <= c
      BY <1>1, <2>1, AgendaAssumption DEF NetOK, NetType
    <3>3. QED
      BY ONLY <1>2, <2>1, <3>1, <3>2
  <2>6. PICK k, x : k = f[i] /\ x = order[i + 1]
    OBVIOUS
  <2>7. x \in Match /\ x \notin k.marker /\ NetOK(k) /\ k.clock \in 1..MaxTag
    BY <2>3, <2>4, <2>5, <2>6
  <2>8. Grown(k, AddActivation(k, value, x), x)
    BY <2>7, AddOK
  <2>9. f[i + 1] = AddActivation(k, value, x)
    BY <1>4, <2>1, <2>6
  <2>10. /\ NetOK(f[i + 1]) /\ f[i + 1].marker = k.marker \cup {x}
         /\ f[i + 1].clock = k.clock + 1 /\ f[i + 1].count = k.count + 1
    BY <2>8, <2>9 DEF Grown
  <2>11. k.clock + 1 = n.clock + (i + 1) /\ k.count + 1 = n.count + (i + 1)
    <3>1. k.clock = n.clock + i /\ k.count = n.count + i
      BY <2>4, <2>6
    <3>2. \A a, b \in Int : (a + b) + 1 = a + (b + 1)
      OBVIOUS
    <3>3. n.clock \in Int /\ n.count \in Int /\ i \in Int
      BY <1>1, <2>1
    <3>4. QED
      BY <3>1, <3>2, <3>3, Zenon
  <2>12. Good(i + 1)
    BY <2>2, <2>4, <2>6, <2>10, <2>11
  <2> HIDE DEF Good
  <2>13. QED
    BY <2>1, <2>12
<1>7. Good(c)
  <2> HIDE DEF S
  <2>1. 0..c \subseteq S
    BY <1>1, <1>5, <1>6, Induction
  <2>2. c \in S
    BY <1>1, <2>1
  <2> HIDE DEF Good
  <2>3. QED
    BY <2>2 DEF S
<1>8. Part(c) = T
  BY <1>1
<1> HIDE DEF Part
<1>9. QED
  BY <1>1, <1>3, <1>7, <1>8 DEF c

\* The loop of RemoveActivations.
Removed(n, order, k, f) ==
  /\ f[0] = n
  /\ \A i \in 1..k : f[i] = RemoveActivation(f[i - 1], order[i])

LEMMA RemoveLoop ==
  ASSUME NEW n, NEW order, NEW k \in Nat, k = Len(order)
  PROVE  \E f : Removed(n, order, k, f) /\ RemoveActivations(n, order) = f[k]
<1> DEFINE Def(f, j) == f = [i \in 0..j |->
              IF i = 0 THEN n ELSE RemoveActivation(f[i - 1], order[i])]
           S == {j \in 0..k : \E f : Def(f, j)}
<1>1. 0 \in S
  <2>1. PICK f : f = [i \in 0..0 |-> n]
    OBVIOUS
  <2>2. Def(f, 0)
    BY <2>1
  <2> HIDE DEF Def
  <2>3. QED
    BY <2>2
<1>2. ASSUME NEW j \in 0..k - 1, j \in S PROVE j + 1 \in S
  <2>1. PICK f : Def(f, j)
    BY <1>2
  <2>2. PICK g : g = [i \in 0..j + 1 |->
                        IF i <= j THEN f[i] ELSE RemoveActivation(f[j], order[j + 1])]
    OBVIOUS
  <2>3. Def(g, j + 1)
    <3> SUFFICES ASSUME NEW i \in 0..j + 1
                 PROVE  g[i] = IF i = 0 THEN n ELSE RemoveActivation(g[i - 1], order[i])
      BY <2>2
    <3>1. CASE i = 0
      BY <2>1, <2>2, <3>1
    <3>2. CASE i \in 1..j
      <4>1. f[i] = RemoveActivation(f[i - 1], order[i])
        BY <2>1, <3>2
      <4>2. g[i] = f[i] /\ g[i - 1] = f[i - 1]
        BY <2>2, <3>2
      <4>3. QED
        BY <3>2, <4>1, <4>2
    <3>3. CASE i = j + 1
      BY <2>2, <3>3
    <3>4. QED
      BY <3>1, <3>2, <3>3
  <2> HIDE DEF Def
  <2>4. QED
    BY <2>3
<1>3. k \in S
  <2> HIDE DEF S
  <2>1. 0..k \subseteq S
    BY <1>1, <1>2, Induction
  <2>2. QED
    BY <2>1
<1>4. Def(CHOOSE f : Def(f, k), k)
  <2> HIDE DEF Def
  <2>1. QED
    BY <1>3
<1>5. RemoveActivations(n, order) = (CHOOSE f : Def(f, k))[k]
  BY DEF RemoveActivations
<1>6. PICK f : f = CHOOSE g : Def(g, k)
  OBVIOUS
<1>7. Def(f, k) /\ RemoveActivations(n, order) = f[k]
  <2> HIDE DEF Def
  <2>1. QED
    BY <1>4, <1>5, <1>6
<1>8. Removed(n, order, k, f)
  <2>1. f[0] = n
    BY <1>7
  <2>2. \A i \in 1..k : f[i] = RemoveActivation(f[i - 1], order[i])
    BY <1>7
  <2> HIDE DEF Def
  <2>3. QED
    BY <2>1, <2>2 DEF Removed
<1>9. QED
  BY <1>7, <1>8

\* Clearing a rule, or everything, keeps every agenda in order.
LEMMA RemoveActivationsOK ==
  ASSUME NEW n, NetOK(n), NEW T, T \subseteq n.marker,
         NEW order, Lists(order, T)
  PROVE  LET k == RemoveActivations(n, order)
         IN /\ NetOK(k) /\ k.marker = n.marker \ T
            /\ k.clock = n.clock /\ k.count = n.count - Cardinality(T)
<1> DEFINE c == Len(order)
<1>1. /\ c \in Nat /\ c = Cardinality(T) /\ n.clock \in Nat /\ n.count \in Int
      /\ \A i \in 1..c : order[i] \in T
      /\ \A x \in T : \E i \in 1..c : order[i] = x
      /\ \A i, j \in 1..c : order[i] = order[j] => i = j
  BY DEF Lists, NetOK, NetType
<1>2. T \subseteq n.marker
  OBVIOUS
<1>3. PICK f : Removed(n, order, c, f) /\ RemoveActivations(n, order) = f[c]
  BY <1>1, RemoveLoop
<1>4. f[0] = n /\ \A i \in 1..c : f[i] = RemoveActivation(f[i - 1], order[i])
  BY <1>3 DEF Removed
<1> HIDE DEF c
<1> DEFINE Part(i) == {order[j] : j \in 1..i}
           Good(i) == /\ NetOK(f[i]) /\ f[i].marker = n.marker \ Part(i)
                      /\ f[i].clock = n.clock /\ f[i].count = n.count - i
           S == {i \in 0..c : Good(i)}
<1>5. 0 \in S
  <2>1. Part(0) = {} /\ n.count = n.count - 0
    BY <1>1
  <2> HIDE DEF Part
  <2>2. Good(0)
    BY <1>4, <2>1
  <2> HIDE DEF Good
  <2>3. QED
    BY <1>1, <2>2
<1>6. ASSUME NEW i \in 0..c - 1, i \in S PROVE i + 1 \in S
  <2>1. i + 1 \in 1..c /\ (i + 1) - 1 = i /\ i + 1 \in 0..c /\ i \in Nat
    <3> HIDE DEF S
    <3>1. QED
      BY <1>1
  <2>2. Part(i + 1) = Part(i) \cup {order[i + 1]}
    BY <1>1, <2>1
  <2>3. order[i + 1] \notin Part(i) /\ order[i + 1] \in T
    BY <1>1, <2>1
  <2> HIDE DEF Part
  <2>4. Good(i)
    BY <1>6
  <2>5. order[i + 1] \in f[i].marker
    BY <1>2, <2>3, <2>4
  <2>6. PICK k, x : k = f[i] /\ x = order[i + 1]
    OBVIOUS
  <2>7. x \in k.marker /\ NetOK(k)
    BY <2>3, <2>4, <2>5, <2>6
  <2>8. Shrunk(k, RemoveActivation(k, x), x, 1)
    BY <2>7, RemoveActivationOK
  <2>9. f[i + 1] = RemoveActivation(k, x)
    BY <1>4, <2>1, <2>6
  <2>10. /\ NetOK(f[i + 1]) /\ f[i + 1].marker = k.marker \ {x}
         /\ f[i + 1].clock = k.clock /\ f[i + 1].count = k.count - 1
    BY <2>8, <2>9 DEF Shrunk
  <2>11. k.count - 1 = n.count - (i + 1)
    <3>1. k.clock = n.clock /\ k.count = n.count - i
      BY <2>4, <2>6
    <3> HIDE DEF S
    <3>2. QED
      BY <1>1, <2>1, <3>1
  <2>12. Good(i + 1)
    BY <2>2, <2>4, <2>6, <2>10, <2>11
  <2> HIDE DEF Good
  <2>13. QED
    BY <2>1, <2>12
<1>7. Good(c)
  <2> HIDE DEF S
  <2>1. 0..c \subseteq S
    BY <1>1, <1>5, <1>6, Induction
  <2>2. c \in S
    BY <1>1, <2>1
  <2> HIDE DEF Good
  <2>3. QED
    BY <2>2 DEF S
<1>8. Part(c) = T
  BY <1>1
<1> HIDE DEF Part
<1>9. QED
  BY <1>1, <1>3, <1>7, <1>8 DEF c

\* Agendas placed again are in order for the saliences and the strategy they
\* were placed by; the others have to be as they were.
LEMMA ReorderNet ==
  ASSUME NEW n, NetOK(n), NEW k, NEW w, w.act = k.act, w.strategy = k.strategy,
         k.marker = n.marker, k.clock = n.clock, k.strategy \in Strategy,
         k.act \in [Match -> Act], \A x \in n.marker : k.act[x].tag = n.act[x].tag,
         \A d \in Module :
           \/ k.agenda[d] = ReorderAgenda(w, n.agenda[d])
           \/ /\ k.agenda[d] = n.agenda[d] /\ k.strategy = n.strategy
              /\ \A x \in On(n, d) : k.act[x] = n.act[x]
  PROVE  /\ TagsOK(k) /\ IsFiniteSet(k.marker)
         /\ \A d \in Module : AgendaOK(k, k.agenda[d], On(k, d))
<1>1. n \in NetType /\ TagsOK(n) /\ IsFiniteSet(n.marker) /\ n.marker \subseteq Match
  BY DEF NetOK, NetType
<1>2. TagsOK(k)
  BY <1>1 DEF TagsOK
<1>3. ASSUME NEW d \in Module PROVE AgendaOK(k, k.agenda[d], On(k, d))
  <2>1. On(k, d) = On(n, d) /\ On(n, d) \subseteq n.marker
    BY DEF On
  <2>2. AgendaOK(n, n.agenda[d], On(n, d))
    BY DEF NetOK
  <2>3. CASE k.agenda[d] = ReorderAgenda(w, n.agenda[d])
    <3>1. PICK a : a = n.agenda[d]
      OBVIOUS
    <3>2. a.list \in Seq(Match) /\ ToSet(a.list) = On(n, d) /\ Sorted(n, a.list)
      BY <2>2, <3>1 DEF AgendaOK
    <3>3. Ranked(n, ToSet(a.list))
      BY <1>1, <2>1, <3>2, NetRanked
    <3>4. \A i, j \in DOMAIN a.list : a.list[i] = a.list[j] => i = j
      <4>1. PICK l : l = a.list
        OBVIOUS
      <4>2. QED
        BY <3>2, <3>3, <4>1, SortedOrder
    <3>5. Ranked(w, ToSet(a.list))
      BY <1>1, <1>2, <2>1, <3>2 DEF Ranked, TagsOK
    <3>6. AgendaOK(w, ReorderAgenda(w, a), ToSet(a.list))
      BY <3>2, <3>4, <3>5, ReorderOK
    <3>7. QED
      BY <2>1, <2>3, <3>1, <3>2, <3>6, AgendaFrame
  <2>4. CASE /\ k.agenda[d] = n.agenda[d] /\ k.strategy = n.strategy
             /\ \A x \in On(n, d) : k.act[x] = n.act[x]
    BY <2>1, <2>2, <2>4, AgendaFrame
  <2>5. QED
    BY <2>3, <2>4
<1>4. QED
  BY <1>1, <1>2, <1>3

\* What is left alone by a reordering.
Reordered(n, k) ==
  NetOK(k) /\ k.marker = n.marker /\ k.clock = n.clock /\ k.count = n.count /\ k.focus = n.focus

\* RefreshAgenda, with whatever the salience expressions give, keeps every
\* agenda in order.
LEMMA RefreshOK ==
  ASSUME NEW n, NetOK(n), NEW value \in Values, NEW D \in SUBSET Module
  PROVE  Reordered(n, RefreshAgenda(n, value, D))
<1> DEFINE here == UNION {ToSet(n.agenda[d].list) : d \in D}
           new  == [r \in Rule |-> IF \E m \in here : RuleOf[m] = r
                                THEN EvaluateSalience("when-activated", value, n.salience, r)
                                ELSE n.salience[r]]
           act  == [m \in Match |-> IF m \in here
                                 THEN [n.act[m] EXCEPT !.salience = new[RuleOf[m]]]
                                 ELSE n.act[m]]
           w == [n EXCEPT !.act = act]
           h == n.halt \/ \E m \in here : SalienceFails("when-activated", value, RuleOf[m])
           A == [d \in Module |-> IF d \in D THEN ReorderAgenda(w, n.agenda[d]) ELSE n.agenda[d]]
<1>1. n \in NetType
  BY DEF NetOK
<1>2. /\ n.act \in [Match -> Act] /\ n.clock \in Nat /\ n.marker \subseteq Match
      /\ n.agenda \in [Module -> [list : Seq(Match), groups : Seq(Group)]]
      /\ n.strategy \in Strategy /\ n.salience \in [Rule -> Int]
  BY <1>1 DEF NetType
<1>3. PICK k : k = RefreshAgenda(n, value, D)
  OBVIOUS
<1>4. k = [n EXCEPT !.act = act, !.salience = new, !.halt = h, !.agenda = A]
  BY <1>1, <1>3 DEF RefreshAgenda, NetType
<1>5. \A d \in Module : ToSet(n.agenda[d].list) = On(n, d)
  BY DEF NetOK, AgendaOK
<1>6. \A d \in Module \ D : \A x \in On(n, d) : x \notin here
  <2>1. \A d \in Module : \A x \in On(n, d) : Home(x) = d
    BY DEF On
  <2>2. QED
    BY <1>5, <2>1
<1> HIDE DEF here
<1>7. new \in [Rule -> Int]
  BY <1>2, SalienceType
<1>8. h \in BOOLEAN
  <2>1. QED
    BY Zenon
<1> HIDE DEF new
<1>9. act \in [Match -> Act] /\ \A x \in Match : act[x].tag = n.act[x].tag
  <2>1. \A m \in Match : /\ [n.act[m] EXCEPT !.salience = new[RuleOf[m]]] \in Act
                         /\ [n.act[m] EXCEPT !.salience = new[RuleOf[m]]].tag = n.act[m].tag
    BY <1>2, <1>7, HomeType DEF Act
  <2>2. QED
    BY <1>2, <2>1
<1>10. \A x \in Match : x \notin here => act[x] = n.act[x]
  OBVIOUS
<1> HIDE DEF act
<1>11. w.act = act /\ w.strategy = n.strategy
  BY <1>1 DEF NetType
<1> HIDE DEF w, h
<1>12. DOMAIN A = Module /\ \A d \in Module :
         A[d] = IF d \in D THEN ReorderAgenda(w, n.agenda[d]) ELSE n.agenda[d]
  OBVIOUS
<1> HIDE DEF A
<1>13. /\ k.act = act /\ k.agenda = A /\ k.marker = n.marker /\ k.clock = n.clock
       /\ k.count = n.count /\ k.focus = n.focus /\ k.strategy = n.strategy
  BY <1>1, <1>4 DEF NetType
<1>14. \A d \in Module :
         \/ k.agenda[d] = ReorderAgenda(w, n.agenda[d])
         \/ /\ k.agenda[d] = n.agenda[d] /\ k.strategy = n.strategy
            /\ \A x \in On(n, d) : k.act[x] = n.act[x]
  <2>1. \A d \in Module : On(n, d) \subseteq Match
    BY <1>2 DEF On
  <2>2. QED
    BY <1>6, <1>10, <1>12, <1>13, <2>1
<1>15. \A x \in n.marker : k.act[x].tag = n.act[x].tag
  BY <1>2, <1>9, <1>13
<1>16. /\ TagsOK(k) /\ IsFiniteSet(k.marker)
       /\ \A d \in Module : AgendaOK(k, k.agenda[d], On(k, d))
  <2>1. w.act = k.act /\ w.strategy = k.strategy /\ k.strategy \in Strategy /\ k.act \in [Match -> Act]
    BY <1>2, <1>9, <1>11, <1>13
  <2>2. QED
    BY <1>13, <1>14, <1>15, <2>1, ReorderNet
<1>17. k \in NetType
  <2>1. \A d \in Module : A[d] \in [list : Seq(Match), groups : Seq(Group)]
    BY <1>13, <1>16 DEF AgendaOK
  <2>2. A \in [Module -> [list : Seq(Match), groups : Seq(Group)]]
    <3>1. A = [d \in Module |-> A[d]]
      BY DEF A
    <3>2. QED
      BY <2>1, <3>1
  <2>3. QED
    BY <1>1, <1>4, <1>7, <1>8, <1>9, <2>2 DEF NetType
<1>18. QED
  BY <1>3, <1>13, <1>16, <1>17 DEF Reordered, NetOK

\* (set-strategy) keeps every agenda in order, by the new strategy.
LEMMA SetStrategyOK ==
  ASSUME NEW n, NetOK(n), NEW s \in Strategy
  PROVE  LET w == [n EXCEPT !.strategy = s]
         IN Reordered(n, [w EXCEPT !.agenda = [d \in Module |-> ReorderAgenda(w, @[d])]])
<1> DEFINE w == [n EXCEPT !.strategy = s]
           A == [d \in Module |-> ReorderAgenda(w, n.agenda[d])]
<1>1. n \in NetType
  BY DEF NetOK
<1>2. PICK k : k = [w EXCEPT !.agenda = [d \in Module |-> ReorderAgenda(w, @[d])]]
  OBVIOUS
<1>3. k = [n EXCEPT !.strategy = s, !.agenda = A]
  BY <1>1, <1>2 DEF NetType
<1>4. w.act = n.act /\ w.strategy = s
  BY <1>1 DEF NetType
<1>5. DOMAIN A = Module /\ \A d \in Module : A[d] = ReorderAgenda(w, n.agenda[d])
  OBVIOUS
<1>6. A = [d \in Module |-> A[d]]
  OBVIOUS
<1> HIDE DEF A
<1>7. /\ k.act = n.act /\ k.agenda = A /\ k.marker = n.marker /\ k.clock = n.clock
      /\ k.count = n.count /\ k.focus = n.focus /\ k.strategy = s
  BY <1>1, <1>3 DEF NetType
<1>8. /\ TagsOK(k) /\ IsFiniteSet(k.marker)
      /\ \A d \in Module : AgendaOK(k, k.agenda[d], On(k, d))
  <2> HIDE DEF w
  <2>1. /\ w.act = k.act /\ w.strategy = k.strategy /\ k.strategy \in Strategy
        /\ k.act \in [Match -> Act] /\ \A x \in n.marker : k.act[x].tag = n.act[x].tag
    BY <1>1, <1>4, <1>7 DEF NetType
  <2>2. \A d \in Module : k.agenda[d] = ReorderAgenda(w, n.agenda[d])
    BY <1>5, <1>7
  <2>3. QED
    BY <1>7, <2>1, <2>2, ReorderNet
<1>9. k \in NetType
  <2>1. \A d \in Module : A[d] \in [list : Seq(Match), groups : Seq(Group)]
    BY <1>7, <1>8 DEF AgendaOK
  <2>2. A \in [Module -> [list : Seq(Match), groups : Seq(Group)]]
    BY <1>6, <2>1
  <2>3. QED
    BY <1>1, <1>3, <2>2 DEF NetType
<1>10. QED
  BY <1>2, <1>7, <1>8, <1>9 DEF Reordered, NetOK

-----------------------------------------------------------------------------
(* The focus stack. *)

LEMMA RemoveFocusType ==
  ASSUME NEW stack \in Seq(Module), NEW d
  PROVE  RemoveFocus(stack, d) \in Seq(Module)
<1> DEFINE I == {i \in 1..Len(stack) : stack[i] = d}
<1>1. CASE \E i \in 1..Len(stack) : stack[i] = d
  <2>1. I # {} /\ I \in SUBSET Nat /\ I \subseteq 1..Len(stack)
    BY <1>1
  <2>2. RemoveFocus(stack, d) = RemoveAt(stack, Min(I))
    BY <1>1, <2>1 DEF RemoveFocus, RemoveFirst, SelectInSeq
  <2> HIDE DEF I
  <2>3. Min(I) \in 1..Len(stack)
    BY <2>1, MinOK
  <2>4. QED
    BY <2>2, <2>3, RemoveOK
<1>2. CASE ~\E i \in 1..Len(stack) : stack[i] = d
  BY <1>2 DEF RemoveFocus, RemoveFirst
<1>3. QED
  BY <1>1, <1>2

\* The module NextActivationToFire leaves on top has an activation.
LEMMA NextFocusOK ==
  ASSUME NEW n, n.focus \in Seq(Module)
  PROVE  /\ NextFocus(n) \in Seq(Module)
         /\ NextFocus(n) # <<>> =>
              Head(NextFocus(n)) \in Module /\ n.agenda[Head(NextFocus(n))].list # <<>>
<1> DEFINE stack == IF n.focus = <<>> THEN <<MAIN>> ELSE n.focus
           busy  == {i \in DOMAIN stack : n.agenda[stack[i]].list # <<>>}
           q == SubSeq(stack, Min(busy), Len(stack))
<1>1. stack \in Seq(Module)
  BY AgendaAssumption
<1>2. NextFocus(n) = IF busy = {} THEN <<>> ELSE q
  BY DEF NextFocus
<1> HIDE DEF stack
<1>3. busy \in SUBSET Nat /\ busy \subseteq 1..Len(stack)
  BY <1>1
<1>4. CASE busy = {}
  BY <1>2, <1>4
<1>5. CASE busy # {}
  <2>1. Min(busy) \in busy
    <3> HIDE DEF busy
    <3>1. QED
      BY <1>3, <1>5, MinOK
  <2>2. PICK b : b = Min(busy)
    OBVIOUS
  <2>3. b \in 1..Len(stack) /\ n.agenda[stack[b]].list # <<>> /\ Len(stack) \in Nat
    <3>1. b \in busy
      <4> HIDE DEF busy
      <4>1. QED
        BY <2>1, <2>2
    <3>2. QED
      BY <1>1, <1>3, <3>1
  <2>4. q = SubSeq(stack, b, Len(stack))
    BY <2>2
  <2> HIDE DEF q, busy
  <2>5. q \in Seq(Module) /\ Len(q) = Len(stack) - b + 1 /\ q[1] = stack[b]
    BY <1>1, <2>3, <2>4, SubSeqProperties
  <2>6. q # <<>> /\ Head(q) = stack[b] /\ stack[b] \in Module
    BY <1>1, <2>3, <2>5
  <2>7. QED
    BY <1>2, <1>5, <2>3, <2>5, <2>6
<1>6. QED
  BY <1>4, <1>5

-----------------------------------------------------------------------------
(* The engine. *)

\* The part of the invariant about the run loop: Fire finds an activation on
\* the agenda of the current focus.
LoopOK ==
  pc = "loop" /\ net.focus # <<>> =>
    Head(net.focus) \in Module /\ net.agenda[Head(net.focus)].list # <<>>

CountOK(n, running) ==
  n.count = Cardinality(n.marker) + IF running THEN 1 ELSE 0

\* The inductive invariant: every agenda is in order, markers point at matches
\* the join network holds and never at one that is spent.
Inv ==
  /\ NetOK(net) /\ net.clock \in 1..MaxTag + 1 /\ CountOK(net, pc = "rhs")
  /\ matches \subseteq Match /\ IsFiniteSet(matches)
  /\ net.marker \subseteq matches /\ spent \subseteq matches /\ spent \cap net.marker = {}
  /\ evaluation \in Evaluation
  /\ pc \in {"idle", "loop", "rhs"} /\ firing \in Match \cup {None}
  /\ runLimit \in Int /\ runLimit >= -1
  /\ haltRules \in BOOLEAN /\ returned \in BOOLEAN
  /\ LoopOK

LEMMA InitInv == Init => Inv
<1> SUFFICES ASSUME Init PROVE Inv
  OBVIOUS
<1> DEFINE n == [agenda   |-> [d \in Module |-> EmptyAgenda],
                 act      |-> [m \in Match |-> Free],
                 clock    |-> 1, count |-> 0, marker |-> {},
                 salience |-> [r \in Rule |-> 0],
                 focus    |-> <<MAIN>>, halt |-> FALSE, strategy |-> "depth"]
<1>1. net = n
  BY DEF Init
<1>2. n \in NetType
  BY AgendaAssumption DEF NetType, EmptyAgenda, Free, Act, Group
<1>3. n.marker = {} /\ n.clock = 1 /\ n.count = 0 /\ \A d \in Module : n.agenda[d] = EmptyAgenda
  OBVIOUS
<1> HIDE DEF n
<1>4. TagsOK(n) /\ \A d \in Module : On(n, d) = {}
  BY <1>3 DEF TagsOK, On
<1>5. NetOK(n)
  BY <1>2, <1>3, <1>4, EmptyOK, FS_EmptySet DEF NetOK
<1>6. CountOK(n, pc = "rhs")
  BY <1>3, FS_EmptySet DEF CountOK, Init
<1>7. n.clock \in 1..MaxTag + 1
  BY <1>3, AgendaAssumption
<1>8. matches = {} /\ spent = {} /\ pc = "idle" /\ IsFiniteSet(matches)
  BY FS_EmptySet DEF Init
<1>9. /\ evaluation \in Evaluation /\ firing \in Match \cup {None}
      /\ runLimit \in Int /\ runLimit >= -1 /\ haltRules \in BOOLEAN /\ returned \in BOOLEAN
  <2>1. "when-defined" \in Evaluation
    BY AgendaAssumption
  <2>2. /\ evaluation = "when-defined" /\ firing = None /\ runLimit = -1
        /\ haltRules = FALSE /\ returned = FALSE
    BY DEF Init
  <2>3. runLimit \in Int /\ runLimit >= -1
    BY <2>2
  <2>4. haltRules \in BOOLEAN /\ returned \in BOOLEAN
    BY <2>2
  <2>5. QED
    BY <2>1, <2>2, <2>3, <2>4
<1>10. LoopOK
  BY <1>8 DEF LoopOK
<1>11. QED
  BY <1>1, <1>3, <1>5, <1>6, <1>7, <1>8, <1>9, <1>10 DEF Inv

\* What an action of a script has to keep.
LEMMA ScriptStep ==
  ASSUME Inv, CanAct, UNCHANGED runVars, evaluation' \in Evaluation,
         NetOK(net'), net'.clock \in 1..MaxTag + 1, CountOK(net', pc = "rhs"),
         matches' \subseteq Match, IsFiniteSet(matches'), net'.marker \subseteq matches',
         spent' \subseteq matches', spent' \cap net'.marker = {}
  PROVE  Inv'
<1>1. pc' = pc /\ pc' # "loop"
  BY DEF CanAct, runVars
<1>2. CountOK(net', pc' = "rhs")
  BY <1>1
<1>3. LoopOK'
  BY <1>1 DEF LoopOK
<1>4. /\ pc' \in {"idle", "loop", "rhs"} /\ firing' \in Match \cup {None}
      /\ runLimit' \in Int /\ runLimit' >= -1
      /\ haltRules' \in BOOLEAN /\ returned' \in BOOLEAN
  BY DEF Inv, runVars
<1>5. QED
  BY <1>2, <1>3, <1>4 DEF Inv

\* The count stays right when each new activation is counted.
LEMMA CountGrows ==
  ASSUME Inv, NEW T, IsFiniteSet(T), T \cap net.marker = {},
         net'.marker = net.marker \cup T, net'.count = net.count + Cardinality(T)
  PROVE  CountOK(net', pc = "rhs")
<1>1. /\ IsFiniteSet(net.marker) /\ Cardinality(net.marker) \in Nat /\ Cardinality(T) \in Nat
      /\ net.count \in Int
  BY FS_CardinalityType DEF Inv, NetOK, NetType
<1>2. Cardinality(net.marker \cap T) = 0
  BY FS_EmptySet
<1>3. Cardinality(net.marker \cup T)
        = Cardinality(net.marker) + Cardinality(T) - Cardinality(net.marker \cap T)
  BY <1>1, FS_Union
<1>4. Cardinality(net'.marker) = Cardinality(net.marker) + Cardinality(T)
  BY <1>1, <1>2, <1>3
<1>5. QED
  BY <1>1, <1>4 DEF CountOK, Inv

LEMMA ActivateStep ==
  ASSUME Inv, NEW M \in SUBSET Match, Activate(M)
  PROVE  Inv'
<1>1. PICK order \in SetToSeqs(M), v \in Values : net' = AddActivations(net, v, order)
  BY DEF Activate
<1>2. /\ M \cap matches = {} /\ IsFiniteSet(M) /\ net.clock + Cardinality(M) <= MaxTag + 1
      /\ matches' = matches \cup M /\ spent' = spent /\ evaluation' = evaluation
      /\ UNCHANGED runVars /\ CanAct
  BY DEF Activate
<1>3. M \subseteq Match /\ M \cap net.marker = {}
  BY <1>2 DEF Inv
<1>4. /\ NetOK(net) /\ IsFiniteSet(net.marker) /\ Cardinality(net.marker) \in Nat
      /\ Cardinality(M) \in Nat
  BY <1>2, FS_CardinalityType DEF Inv, NetOK
<1>5. Lists(order, M) /\ Len(order) = Cardinality(M)
  BY <1>2, <1>4, OrdersOK DEF Lists
<1>6. /\ NetOK(net') /\ net'.marker = net.marker \cup M
      /\ net'.clock = net.clock + Cardinality(M) /\ net'.count = net.count + Cardinality(M)
  <2>1. net.clock >= 1 /\ net.clock + Len(order) <= MaxTag + 1
    BY <1>2, <1>5 DEF Inv
  <2>2. QED
    BY <1>1, <1>3, <1>4, <1>5, <2>1, AddActivationsOK
<1>7. CountOK(net', pc = "rhs")
  BY <1>2, <1>3, <1>4, <1>6, CountGrows
<1>8. net'.clock \in 1..MaxTag + 1
  BY <1>2, <1>4, <1>6, AgendaAssumption DEF Inv
<1>9. IsFiniteSet(matches')
  BY <1>2, FS_Union DEF Inv
<1>10. /\ matches' \subseteq Match /\ net'.marker \subseteq matches' /\ spent' \subseteq matches'
       /\ spent' \cap net'.marker = {} /\ evaluation' \in Evaluation
  BY <1>2, <1>3, <1>6 DEF Inv
<1>11. QED
  BY <1>2, <1>6, <1>7, <1>8, <1>9, <1>10, ScriptStep

LEMMA DeactivateStep ==
  ASSUME Inv, NEW m \in Match, Deactivate(m)
  PROVE  Inv'
<1>1. /\ matches' = matches \ {m} /\ spent' = spent \ {m} /\ evaluation' = evaluation
      /\ UNCHANGED runVars /\ CanAct
      /\ net' = IF m \in net.marker THEN RemoveActivation(net, m) ELSE net
  BY DEF Deactivate
<1>2. /\ NetOK(net') /\ net'.marker = net.marker \ {m} /\ net'.clock = net.clock
      /\ CountOK(net', pc = "rhs")
  <2>1. NetOK(net) /\ IsFiniteSet(net.marker) /\ Cardinality(net.marker) \in Nat
    BY FS_CardinalityType DEF Inv, NetOK
  <2>2. CASE m \in net.marker
    <3>1. /\ NetOK(net') /\ net'.marker = net.marker \ {m}
          /\ net'.clock = net.clock /\ net'.count = net.count - 1
      BY <1>1, <2>1, <2>2, RemoveActivationOK DEF Shrunk
    <3>2. Cardinality(net'.marker) = Cardinality(net.marker) - 1
      BY <2>1, <2>2, <3>1, FS_RemoveElement
    <3>3. CountOK(net', pc = "rhs")
      BY <2>1, <3>1, <3>2 DEF CountOK, Inv
    <3>4. QED
      BY <3>1, <3>3
  <2>3. CASE m \notin net.marker
    BY <1>1, <2>1, <2>3 DEF Inv
  <2>4. QED
    BY <2>2, <2>3
<1>3. IsFiniteSet(matches')
  BY <1>1, FS_RemoveElement DEF Inv
<1>4. /\ matches' \subseteq Match /\ net'.marker \subseteq matches' /\ spent' \subseteq matches'
      /\ spent' \cap net'.marker = {} /\ evaluation' \in Evaluation
      /\ net'.clock \in 1..MaxTag + 1
  BY <1>1, <1>2 DEF Inv
<1>5. QED
  BY <1>1, <1>2, <1>3, <1>4, ScriptStep

\* Removing a finite set of activations.
LEMMA ClearOK ==
  ASSUME Inv, NEW T, T \subseteq net.marker
  PROVE  LET k == RemoveActivations(net, SetToSeq(T))
         IN NetOK(k) /\ k.marker = net.marker \ T /\ k.clock = net.clock /\ CountOK(k, pc = "rhs")
<1>1. NetOK(net) /\ IsFiniteSet(net.marker) /\ Cardinality(net.marker) \in Nat
  BY FS_CardinalityType DEF Inv, NetOK
<1>2. IsFiniteSet(T) /\ Cardinality(T) \in Nat
  BY <1>1, FS_Subset, FS_CardinalityType
<1>3. Lists(SetToSeq(T), T)
  BY <1>2, OrdersOK
<1>4. PICK k : k = RemoveActivations(net, SetToSeq(T))
  OBVIOUS
<1>5. /\ NetOK(k) /\ k.marker = net.marker \ T
      /\ k.clock = net.clock /\ k.count = net.count - Cardinality(T)
  BY <1>1, <1>3, <1>4, RemoveActivationsOK
<1>6. Cardinality(k.marker) = Cardinality(net.marker) - Cardinality(T)
  <2>1. net.marker \cap T = T
    OBVIOUS
  <2>2. Cardinality(net.marker \ T) = Cardinality(net.marker) - Cardinality(net.marker \cap T)
    BY <1>1, FS_Difference, Zenon
  <2>3. QED
    BY <1>5, <2>1, <2>2, Zenon
<1>7. CountOK(k, pc = "rhs")
  BY <1>1, <1>2, <1>5, <1>6 DEF CountOK, Inv
<1>8. QED
  BY <1>4, <1>5, <1>7

LEMMA UndefruleStep ==
  ASSUME Inv, NEW r \in Rule, Undefrule(r)
  PROVE  Inv'
<1> DEFINE own == {m \in matches : RuleOf[m] = r}
           T == own \cap net.marker
<1>1. /\ net' = RemoveActivations(net, SetToSeq(T))
      /\ matches' = matches \ own /\ spent' = spent \ own
      /\ evaluation' = evaluation /\ UNCHANGED runVars /\ CanAct
  BY DEF Undefrule
<1> HIDE DEF own
<1>2. /\ NetOK(net') /\ net'.marker = net.marker \ T /\ net'.clock = net.clock
      /\ CountOK(net', pc = "rhs")
  <2>1. T \subseteq net.marker
    OBVIOUS
  <2> HIDE DEF T
  <2>2. QED
    BY <1>1, <2>1, ClearOK
<1>3. IsFiniteSet(matches')
  BY <1>1, FS_Difference DEF Inv
<1>4. /\ matches' \subseteq Match /\ net'.marker \subseteq matches' /\ spent' \subseteq matches'
      /\ spent' \cap net'.marker = {} /\ evaluation' \in Evaluation
      /\ net'.clock \in 1..MaxTag + 1
  BY <1>1, <1>2 DEF Inv
<1>5. QED
  BY <1>1, <1>2, <1>3, <1>4, ScriptStep

\* A new focus stack or halt flag.
LEMMA FocusFrame ==
  ASSUME NEW n, NetOK(n), NEW f \in Seq(Module)
  PROVE  /\ NetOK([n EXCEPT !.focus = f]) /\ [n EXCEPT !.focus = f].focus = f
         /\ [n EXCEPT !.focus = f].marker = n.marker /\ [n EXCEPT !.focus = f].clock = n.clock
         /\ [n EXCEPT !.focus = f].count = n.count /\ [n EXCEPT !.focus = f].agenda = n.agenda
<1>1. n \in NetType
  BY DEF NetOK
<1>2. PICK k : k = [n EXCEPT !.focus = f]
  OBVIOUS
<1>3. /\ k \in NetType /\ k.agenda = n.agenda /\ k.act = n.act /\ k.marker = n.marker
      /\ k.clock = n.clock /\ k.strategy = n.strategy /\ k.count = n.count /\ k.focus = f
  BY <1>1, <1>2 DEF NetType
<1>4. NetOK(k)
  BY <1>3, NetFrame
<1>5. QED
  BY <1>2, <1>3, <1>4

LEMMA HaltFrame ==
  ASSUME NEW n, NetOK(n), NEW h \in BOOLEAN
  PROVE  /\ NetOK([n EXCEPT !.halt = h])
         /\ [n EXCEPT !.halt = h].marker = n.marker /\ [n EXCEPT !.halt = h].clock = n.clock
         /\ [n EXCEPT !.halt = h].count = n.count
<1>1. n \in NetType
  BY DEF NetOK
<1>2. PICK k : k = [n EXCEPT !.halt = h]
  OBVIOUS
<1>3. /\ k \in NetType /\ k.agenda = n.agenda /\ k.act = n.act /\ k.marker = n.marker
      /\ k.clock = n.clock /\ k.strategy = n.strategy /\ k.count = n.count
  BY <1>1, <1>2 DEF NetType
<1>4. NetOK(k)
  BY <1>3, NetFrame
<1>5. QED
  BY <1>2, <1>3, <1>4

LEMMA ResetStep ==
  ASSUME Inv, Reset
  PROVE  Inv'
<1>1. PICK k : k = RemoveActivations(net, SetToSeq(net.marker))
  OBVIOUS
<1>2. /\ net' = [k EXCEPT !.focus = <<MAIN>>] /\ matches' = {} /\ spent' = {}
      /\ evaluation' = evaluation /\ UNCHANGED runVars /\ CanAct
  BY <1>1 DEF Reset
<1>3. /\ NetOK(k) /\ k.marker = net.marker \ net.marker /\ k.clock = net.clock
      /\ CountOK(k, pc = "rhs")
  <2>1. PICK T : T = net.marker
    OBVIOUS
  <2>2. QED
    BY <1>1, <2>1, ClearOK
<1>4. NetOK(net') /\ net'.marker = {} /\ net'.clock = net.clock /\ net'.count = k.count
  <2>1. <<MAIN>> \in Seq(Module)
    BY AgendaAssumption
  <2>2. QED
    BY <1>2, <1>3, <2>1, FocusFrame
<1>5. CountOK(net', pc = "rhs")
  BY <1>3, <1>4 DEF CountOK
<1>6. QED
  BY <1>2, <1>4, <1>5, FS_EmptySet, ScriptStep DEF Inv

LEMMA RefreshStep ==
  ASSUME Inv, NEW r \in Rule, Refresh(r)
  PROVE  Inv'
<1> DEFINE T == {m \in matches : RuleOf[m] = r /\ m \notin net.marker}
<1>1. PICK order \in SetToSeqs(T), v \in Values : net' = AddActivations(net, v, order)
  BY DEF Refresh
<1>2. /\ net.clock + Cardinality(T) <= MaxTag + 1 /\ spent' = spent \ T
      /\ matches' = matches /\ evaluation' = evaluation /\ UNCHANGED runVars /\ CanAct
  BY DEF Refresh
<1>3. T \subseteq matches /\ T \cap net.marker = {}
  OBVIOUS
<1> HIDE DEF T
<1>4. /\ NetOK(net) /\ IsFiniteSet(net.marker) /\ Cardinality(net.marker) \in Nat
      /\ IsFiniteSet(T) /\ Cardinality(T) \in Nat
  BY <1>3, FS_CardinalityType, FS_Subset DEF Inv, NetOK
<1>5. Lists(order, T) /\ Len(order) = Cardinality(T)
  BY <1>4, OrdersOK DEF Lists
<1>6. /\ NetOK(net') /\ net'.marker = net.marker \cup T
      /\ net'.clock = net.clock + Cardinality(T) /\ net'.count = net.count + Cardinality(T)
  <2>1. T \subseteq Match /\ net.clock >= 1 /\ net.clock + Len(order) <= MaxTag + 1
    BY <1>2, <1>3, <1>5 DEF Inv
  <2>2. QED
    BY <1>1, <1>3, <1>4, <1>5, <2>1, AddActivationsOK
<1>7. CountOK(net', pc = "rhs")
  BY <1>3, <1>4, <1>6, CountGrows
<1>8. net'.clock \in 1..MaxTag + 1
  BY <1>2, <1>4, <1>6, AgendaAssumption DEF Inv
<1>9. /\ matches' \subseteq Match /\ net'.marker \subseteq matches' /\ spent' \subseteq matches'
      /\ spent' \cap net'.marker = {} /\ evaluation' \in Evaluation /\ IsFiniteSet(matches')
  BY <1>2, <1>3, <1>6 DEF Inv
<1>10. QED
  BY <1>2, <1>6, <1>7, <1>8, <1>9, ScriptStep

\* The commands that change neither matches nor markers.
LEMMA SameMarkers ==
  ASSUME Inv, CanAct, NetOK(net'), net'.marker = net.marker, net'.clock = net.clock,
         net'.count = net.count, evaluation' \in Evaluation,
         UNCHANGED <<matches, spent, runVars>>
  PROVE  Inv'
<1>1. /\ matches' \subseteq Match /\ net'.marker \subseteq matches' /\ spent' \subseteq matches'
      /\ spent' \cap net'.marker = {} /\ IsFiniteSet(matches') /\ net'.clock \in 1..MaxTag + 1
      /\ CountOK(net', pc = "rhs") /\ UNCHANGED runVars
  BY DEF Inv, CountOK
<1>2. QED
  BY <1>1, ScriptStep

LEMMA CommandStep ==
  ASSUME Inv,
         \/ \E d \in Module : RefreshAgendaCommand(d) \/ FocusCommand(d)
         \/ \E s \in Strategy : SetStrategy(s)
         \/ \E e \in Evaluation : SetSalienceEvaluation(e)
         \/ PopFocus \/ ClearFocusStack \/ ActionError
  PROVE  Inv'
<1>1. NetOK(net) /\ evaluation \in Evaluation /\ net.focus \in Seq(Module)
  BY DEF Inv, NetOK, NetType
<1>2. ASSUME NEW f \in Seq(Module), net' = [net EXCEPT !.focus = f], CanAct,
             UNCHANGED <<matches, spent, evaluation, runVars>>
      PROVE  Inv'
  <2>1. NetOK(net') /\ net'.marker = net.marker /\ net'.clock = net.clock /\ net'.count = net.count
    BY <1>1, <1>2, FocusFrame
  <2>2. QED
    BY <1>1, <1>2, <2>1, SameMarkers
<1>3. ASSUME NEW d \in Module, RefreshAgendaCommand(d) PROVE Inv'
  <2>1. PICK v \in Values : net' = RefreshAgenda(net, v, {d})
    BY <1>3 DEF RefreshAgendaCommand
  <2>2. NetOK(net') /\ net'.marker = net.marker /\ net'.clock = net.clock /\ net'.count = net.count
    BY <1>1, <2>1, RefreshOK DEF Reordered
  <2>3. CanAct /\ UNCHANGED <<matches, spent, evaluation, runVars>>
    BY <1>3 DEF RefreshAgendaCommand
  <2>4. QED
    BY <1>1, <2>2, <2>3, SameMarkers
<1>4. ASSUME NEW d \in Module, FocusCommand(d) PROVE Inv'
  <2>1. Focus(net.focus, d) \in Seq(Module)
    BY <1>1, FocusType
  <2>2. QED
    BY <1>2, <1>4, <2>1 DEF FocusCommand
<1>5. ASSUME NEW s \in Strategy, SetStrategy(s) PROVE Inv'
  <2>1. Reordered(net, net')
    BY <1>1, <1>5, SetStrategyOK DEF SetStrategy
  <2>2. NetOK(net') /\ net'.marker = net.marker /\ net'.clock = net.clock /\ net'.count = net.count
    BY <2>1 DEF Reordered
  <2>3. CanAct /\ UNCHANGED <<matches, spent, evaluation, runVars>>
    BY <1>5 DEF SetStrategy
  <2>4. QED
    BY <1>1, <2>2, <2>3, SameMarkers
<1>6. ASSUME NEW e \in Evaluation, SetSalienceEvaluation(e) PROVE Inv'
  <2>1. /\ CanAct /\ evaluation' \in Evaluation /\ net' = net
        /\ UNCHANGED <<matches, spent, runVars>>
    BY <1>6 DEF SetSalienceEvaluation
  <2>2. QED
    BY <1>1, <2>1, SameMarkers
<1>7. CASE PopFocus
  <2>1. RemoveFocus(net.focus, Head(net.focus)) \in Seq(Module)
    BY <1>1, RemoveFocusType
  <2>2. QED
    BY <1>2, <1>7, <2>1 DEF PopFocus
<1>8. CASE ClearFocusStack
  <2>1. <<>> \in Seq(Module)
    OBVIOUS
  <2>2. QED
    BY <1>2, <1>8, <2>1 DEF ClearFocusStack
<1>9. CASE ActionError
  <2>1. NetOK(net') /\ net'.marker = net.marker /\ net'.clock = net.clock /\ net'.count = net.count
    BY <1>1, <1>9, HaltFrame DEF ActionError
  <2>2. CanAct /\ UNCHANGED <<matches, spent, evaluation, runVars>>
    BY <1>9 DEF ActionError
  <2>3. QED
    BY <1>1, <2>1, <2>2, SameMarkers
<1>10. QED
  BY <1>3, <1>4, <1>5, <1>6, <1>7, <1>8, <1>9

\* Halt and Return only set a flag.
LEMMA FlagStep ==
  ASSUME Inv, Halt \/ Return
  PROVE  Inv'
<1>1. /\ net' = net /\ matches' = matches /\ spent' = spent /\ evaluation' = evaluation
      /\ pc' = pc /\ firing' = firing /\ runLimit' = runLimit
  BY DEF Halt, Return
<1>2. haltRules' \in BOOLEAN /\ returned' \in BOOLEAN
  BY DEF Halt, Return, Inv
<1>3. LoopOK'
  BY <1>1 DEF Inv, LoopOK
<1>4. QED
  BY <1>1, <1>2, <1>3 DEF Inv

LEMMA StartRunStep ==
  ASSUME Inv, NEW l \in Limit, StartRun(l)
  PROVE  Inv'
<1>1. /\ pc = "idle" /\ net' = [net EXCEPT !.focus = NextFocus(net)] /\ pc' = "loop"
      /\ runLimit' = l /\ haltRules' = FALSE
      /\ UNCHANGED <<matches, spent, evaluation, firing, returned>>
  BY DEF StartRun
<1>2. NetOK(net) /\ net.focus \in Seq(Module)
  BY DEF Inv, NetOK, NetType
<1>3. /\ NextFocus(net) \in Seq(Module)
      /\ NextFocus(net) # <<>> =>
           Head(NextFocus(net)) \in Module /\ net.agenda[Head(NextFocus(net))].list # <<>>
  BY <1>2, NextFocusOK
<1>4. /\ NetOK(net') /\ net'.focus = NextFocus(net) /\ net'.marker = net.marker
      /\ net'.clock = net.clock /\ net'.count = net.count /\ net'.agenda = net.agenda
  BY <1>1, <1>2, <1>3, FocusFrame
<1>5. LoopOK'
  BY <1>3, <1>4 DEF LoopOK
<1>6. CountOK(net', pc' = "rhs")
  BY <1>1, <1>4 DEF Inv, CountOK
<1>7. runLimit' \in Int /\ runLimit' >= -1
  BY <1>1, AgendaAssumption
<1>8. QED
  BY <1>1, <1>4, <1>5, <1>6, <1>7 DEF Inv

\* The run loop finds an activation whose marker is set.
LEMMA TopOK ==
  ASSUME Inv, pc = "loop", Continues
  PROVE  Top \in net.marker
<1>1. PICK d \in Module : d = Head(net.focus) /\ net.agenda[d].list # <<>>
  BY DEF Inv, LoopOK, Continues
<1>2. AgendaOK(net, net.agenda[d], On(net, d))
  BY DEF Inv, NetOK
<1>3. PICK l : l = net.agenda[d].list
  OBVIOUS
<1>4. l \in Seq(Match) /\ l # <<>> /\ ToSet(l) = On(net, d)
  BY <1>1, <1>2, <1>3 DEF AgendaOK
<1>5. Head(l) \in ToSet(l)
  BY <1>4 DEF ToSet
<1>6. Top = Head(l)
  BY <1>1, <1>3 DEF Top
<1>7. QED
  BY <1>4, <1>5, <1>6 DEF On

LEMMA FireStep ==
  ASSUME Inv, Fire
  PROVE  Inv' /\ firing' \notin spent
<1>1. PICK t : t = Top
  OBVIOUS
<1>2. /\ net' = DetachActivation(net, t) /\ firing' = t /\ spent' = spent \cup {t}
      /\ runLimit' = IF runLimit > 0 THEN runLimit - 1 ELSE runLimit
      /\ pc = "loop" /\ pc' = "rhs" /\ UNCHANGED <<matches, evaluation, haltRules, returned>>
  BY <1>1 DEF Fire
<1>3. t \in net.marker
  BY <1>1, TopOK DEF Fire
<1>4. NetOK(net) /\ IsFiniteSet(net.marker) /\ Cardinality(net.marker) \in Nat
  BY FS_CardinalityType DEF Inv, NetOK
<1>5. /\ NetOK(net') /\ net'.marker = net.marker \ {t}
      /\ net'.clock = net.clock /\ net'.count = net.count - 0
  BY <1>2, <1>3, <1>4, DetachOK DEF Shrunk
<1>6. CountOK(net', pc' = "rhs")
  <2>1. Cardinality(net'.marker) = Cardinality(net.marker) - 1
    BY <1>3, <1>4, <1>5, FS_RemoveElement
  <2>2. QED
    BY <1>2, <1>4, <1>5, <2>1 DEF CountOK, Inv
<1>7. LoopOK'
  BY <1>2 DEF LoopOK
<1>8. runLimit' \in Int /\ runLimit' >= -1
  BY <1>2 DEF Inv
<1>9. /\ firing' \in Match \cup {None} /\ net'.marker \subseteq matches' /\ spent' \subseteq matches'
      /\ spent' \cap net'.marker = {} /\ t \notin spent
  BY <1>2, <1>3, <1>5 DEF Inv
<1>10. QED
  BY <1>2, <1>5, <1>6, <1>7, <1>8, <1>9 DEF Inv

LEMMA EndRhsStep ==
  ASSUME Inv, EndRhs
  PROVE  Inv'
<1>1. PICK freed : freed = [net EXCEPT !.count = net.count - 1]
  OBVIOUS
<1>2. net \in NetType /\ NetOK(net) /\ net.count \in Int
  BY DEF Inv, NetOK, NetType
<1>3. /\ freed \in NetType /\ freed.agenda = net.agenda /\ freed.act = net.act
      /\ freed.marker = net.marker /\ freed.clock = net.clock /\ freed.strategy = net.strategy
      /\ freed.count = net.count - 1
  <2>1. net.count - 1 \in Int
    BY <1>2
  <2>2. QED
    BY <1>1, <1>2, <2>1 DEF NetType
<1>4. NetOK(freed)
  BY <1>2, <1>3, NetFrame
<1>5. PICK v \in Values :
        LET again == IF evaluation = "every-cycle" THEN RefreshAllAgendas(freed, v) ELSE freed
            n     == [again EXCEPT !.focus = IF returned THEN RemoveFocus(@, Home(firing)) ELSE @]
        IN net' = [n EXCEPT !.focus = NextFocus(n)]
  BY <1>1, <1>2 DEF EndRhs, NetType
<1>6. PICK again : again = IF evaluation = "every-cycle" THEN RefreshAllAgendas(freed, v) ELSE freed
  OBVIOUS
<1>7. /\ NetOK(again) /\ again.marker = net.marker /\ again.clock = net.clock
      /\ again.count = net.count - 1
  BY <1>3, <1>4, <1>6, RefreshOK DEF RefreshAllAgendas, Reordered
<1>8. PICK f : f = IF returned THEN RemoveFocus(again.focus, Home(firing)) ELSE again.focus
  OBVIOUS
<1>9. f \in Seq(Module) /\ again \in NetType
  BY <1>7, <1>8, RemoveFocusType DEF NetOK, NetType
<1>10. PICK n : n = [again EXCEPT !.focus = f]
  OBVIOUS
<1>11. net' = [n EXCEPT !.focus = NextFocus(n)]
  BY <1>5, <1>6, <1>8, <1>9, <1>10 DEF NetType
<1>12. /\ NetOK(n) /\ n.focus = f /\ n.marker = net.marker /\ n.clock = net.clock
       /\ n.count = net.count - 1
  BY <1>7, <1>9, <1>10, FocusFrame
<1>13. /\ NextFocus(n) \in Seq(Module)
       /\ NextFocus(n) # <<>> =>
            Head(NextFocus(n)) \in Module /\ n.agenda[Head(NextFocus(n))].list # <<>>
  BY <1>9, <1>12, NextFocusOK
<1>14. /\ NetOK(net') /\ net'.focus = NextFocus(n) /\ net'.marker = net.marker
       /\ net'.clock = net.clock /\ net'.count = net.count - 1 /\ net'.agenda = n.agenda
  BY <1>11, <1>12, <1>13, FocusFrame
<1>15. LoopOK'
  BY <1>13, <1>14 DEF LoopOK
<1>16. /\ pc = "rhs" /\ firing' = None /\ returned' = FALSE /\ pc' = "loop"
       /\ UNCHANGED <<matches, spent, evaluation, runLimit, haltRules>>
  BY DEF EndRhs
<1>17. CountOK(net', pc' = "rhs")
  <2>1. IsFiniteSet(net.marker) /\ Cardinality(net.marker) \in Nat
    BY <1>2, FS_CardinalityType DEF NetOK
  <2>2. net.count = Cardinality(net.marker) + 1
    BY <1>16 DEF Inv, CountOK
  <2>3. net'.count = Cardinality(net'.marker) + 0
    BY <1>14, <2>1, <2>2
  <2>4. QED
    BY <1>16, <2>3 DEF CountOK
<1>18. QED
  BY <1>14, <1>15, <1>16, <1>17 DEF Inv

LEMMA EndRunStep ==
  ASSUME Inv, EndRun
  PROVE  Inv'
<1>1. /\ net' = [net EXCEPT !.halt = FALSE] /\ pc = "loop" /\ pc' = "idle"
      /\ haltRules' = FALSE /\ runLimit' = -1
      /\ UNCHANGED <<matches, spent, evaluation, firing, returned>>
  BY DEF EndRun
<1>2. NetOK(net') /\ net'.marker = net.marker /\ net'.clock = net.clock /\ net'.count = net.count
  BY <1>1, HaltFrame DEF Inv
<1>3. CountOK(net', pc' = "rhs") /\ LoopOK'
  BY <1>1, <1>2 DEF CountOK, LoopOK, Inv
<1>4. runLimit' \in Int /\ runLimit' >= -1
  BY <1>1
<1>5. QED
  BY <1>1, <1>2, <1>3, <1>4 DEF Inv

LEMMA StutterStep ==
  ASSUME Inv, UNCHANGED vars
  PROVE  Inv'
BY DEF Inv, LoopOK, CountOK, vars

\* Inv is inductive, and a firing rule was not spent.
LEMMA InvStep ==
  ASSUME Inv, [Next]_vars
  PROVE  Inv'
<1>1. CASE UNCHANGED vars
  BY <1>1, StutterStep
<1>2. CASE (\E M \in SUBSET Match : Activate(M)) \/ (\E m \in Match : Deactivate(m))
  BY <1>2, ActivateStep, DeactivateStep
<1>3. CASE \E r \in Rule : Undefrule(r) \/ Refresh(r)
  BY <1>3, UndefruleStep, RefreshStep
<1>4. CASE \/ \E d \in Module : RefreshAgendaCommand(d) \/ FocusCommand(d)
           \/ \E s \in Strategy : SetStrategy(s)
           \/ \E e \in Evaluation : SetSalienceEvaluation(e)
           \/ PopFocus \/ ClearFocusStack \/ ActionError
  BY <1>4, CommandStep
<1>5. CASE Reset
  BY <1>5, ResetStep
<1>6. CASE \E l \in Limit : StartRun(l)
  BY <1>6, StartRunStep
<1>7. CASE Fire
  BY <1>7, FireStep
<1>8. CASE Halt \/ Return
  BY <1>8, FlagStep
<1>9. CASE EndRhs
  BY <1>9, EndRhsStep
<1>10. CASE EndRun
  BY <1>10, EndRunStep
<1>11. QED
  BY <1>1, <1>2, <1>3, <1>4, <1>5, <1>6, <1>7, <1>8, <1>9, <1>10 DEF Next

LEMMA InvType == Inv => TypeOK
<1> SUFFICES ASSUME Inv PROVE TypeOK
  OBVIOUS
<1>1. net \in NetType
  BY DEF Inv, NetOK
<1>2. /\ net.agenda \in [Module -> [list : Seq(Match), groups : Seq(Group)]]
      /\ net.act \in [Match -> [tag : Nat, salience : Int, random : Nat]]
      /\ net.marker \subseteq Match /\ net.salience \in [Rule -> Int]
      /\ net.focus \in Seq(Module) /\ net.halt \in BOOLEAN /\ net.strategy \in Strategy
  BY <1>1 DEF NetType, Act
<1>3. net.count \in Nat
  <2>1. Cardinality(net.marker) \in Nat
    BY FS_CardinalityType DEF Inv, NetOK
  <2>2. QED
    BY <2>1 DEF Inv, CountOK
<1>4. spent \subseteq Match
  BY DEF Inv
<1>5. QED
  BY <1>2, <1>3, <1>4 DEF Inv, TypeOK

LEMMA InvOrdered == Inv => AgendaOrdered
<1> SUFFICES ASSUME Inv, NEW d \in Module PROVE Sorted(net, net.agenda[d].list)
  BY DEF AgendaOrdered, Sorted
<1>1. QED
  BY DEF Inv, NetOK, AgendaOK

\* What GroupsDelimit says of one group, and of one agenda.
Delimits(n, list, groups, g) ==
  LET I == {i \in DOMAIN list : n.act[list[i]].salience = groups[g].salience}
  IN /\ groups[g].first = list[Min(I)]
     /\ groups[g].last  = list[Max(I)]
     /\ g > 1 => groups[g - 1].salience > groups[g].salience

AllDelimit(n, list, groups) ==
  /\ {groups[g].salience : g \in DOMAIN groups} = {n.act[list[i]].salience : i \in DOMAIN list}
  /\ \A g \in DOMAIN groups : Delimits(n, list, groups, g)

\* The groups of an agenda in order are the runs of equal salience.
LEMMA DelimitOK ==
  ASSUME NEW n, NEW list \in Seq(Match), NEW groups, Ranked(n, ToSet(list)), Sorted(n, list),
         GroupsOK(n, ToSet(list), groups), NEW g \in DOMAIN groups
  PROVE  Delimits(n, list, groups, g)
<1> DEFINE E == ToSet(list)
           G == groups[g]
           I == {i \in DOMAIN list : n.act[list[i]].salience = G.salience}
<1>1. /\ \A k \in DOMAIN list : list[k] \in E /\ k \in Nat
      /\ \A y \in E : \E k \in DOMAIN list : y = list[k]
      /\ DOMAIN list = 1..Len(list) /\ Len(list) \in Nat
  BY DEF ToSet
<1>2. GroupOK(n, E, G)
  BY DEF GroupsOK
<1>3. \A k, l \in DOMAIN list : Ahead(n, list[k], list[l]) <=> k < l
  BY SortedOrder
<1>4. \A k, l \in DOMAIN list : list[k] = list[l] => k = l
  BY SortedOrder
<1>5. I \in SUBSET Nat /\ \A k \in I : k \in DOMAIN list /\ Salient(n, list[k]) = G.salience
  BY <1>1 DEF Salient
<1>6. \A k \in DOMAIN list : Salient(n, list[k]) = G.salience => k \in I
  BY DEF Salient
<1> HIDE DEF E, G, I
<1>7. PICK i \in DOMAIN list : G.first = list[i]
  BY <1>1, <1>2 DEF GroupOK
<1>8. PICK j \in DOMAIN list : G.last = list[j]
  BY <1>1, <1>2 DEF GroupOK
<1>9. i \in I /\ j \in I
  BY <1>2, <1>6, <1>7, <1>8 DEF GroupOK
<1>10. ASSUME NEW k \in I PROVE i <= k /\ k <= j
  <2>1. /\ list[k] = list[i] \/ Ahead(n, list[i], list[k])
        /\ list[k] = list[j] \/ Ahead(n, list[k], list[j])
    BY <1>1, <1>2, <1>5, <1>7, <1>8 DEF GroupOK
  <2>2. (k = i \/ i < k) /\ (k = j \/ k < j)
    BY <1>3, <1>4, <1>5, <2>1
  <2>3. QED
    BY <1>1, <1>5, <2>2
<1>11. Min(I) = i /\ Max(I) = j
  BY <1>5, <1>9, <1>10, MinIs, MaxIs
<1>12. g > 1 => groups[g - 1].salience > groups[g].salience
  <2> HAVE g > 1
  <2>1. groups \in Seq(Group)
    BY DEF GroupsOK
  <2>2. g - 1 \in DOMAIN groups /\ g - 1 < g
    BY <2>1
  <2>3. QED
    BY <2>2 DEF GroupsOK
<1>13. QED
  BY <1>7, <1>8, <1>11, <1>12 DEF G, I, Delimits

LEMMA InvDelimit == Inv => GroupsDelimit
<1> SUFFICES ASSUME Inv, NEW d \in Module
             PROVE  AllDelimit(net, net.agenda[d].list, net.agenda[d].groups)
  BY DEF GroupsDelimit, AllDelimit, Delimits
<1>1. PICK list, groups : list = net.agenda[d].list /\ groups = net.agenda[d].groups
  OBVIOUS
<1>2. /\ list \in Seq(Match) /\ ToSet(list) = On(net, d) /\ Sorted(net, list)
      /\ GroupsOK(net, ToSet(list), groups)
  BY <1>1 DEF Inv, NetOK, AgendaOK
<1>3. Ranked(net, ToSet(list))
  BY <1>2, NetRanked DEF Inv, NetOK, On
<1>4. \A g \in DOMAIN groups : Delimits(net, list, groups, g)
  BY <1>2, <1>3, DelimitOK
<1>5. {groups[g].salience : g \in DOMAIN groups} = {net.act[list[i]].salience : i \in DOMAIN list}
  <2>1. ASSUME NEW g \in DOMAIN groups
        PROVE  \E i \in DOMAIN list : groups[g].salience = net.act[list[i]].salience
    BY <1>2 DEF GroupsOK, GroupOK, ToSet, Salient
  <2>2. ASSUME NEW i \in DOMAIN list
        PROVE  \E g \in DOMAIN groups : groups[g].salience = net.act[list[i]].salience
    BY <1>2 DEF GroupsOK, ToSet, Salient
  <2>3. QED
    BY <2>1, <2>2
<1>6. AllDelimit(net, list, groups)
  BY <1>4, <1>5 DEF AllDelimit
<1>7. QED
  BY <1>1, <1>6

LEMMA InvMarkers == Inv => MarkersAgree
<1> SUFFICES ASSUME Inv PROVE MarkersAgree
  OBVIOUS
<1>1. ASSUME NEW d \in Module, NEW m \in Match
      PROVE  Cardinality({i \in DOMAIN net.agenda[d].list : net.agenda[d].list[i] = m})
               = IF m \in net.marker /\ Home(m) = d THEN 1 ELSE 0
  <2>1. PICK list : list = net.agenda[d].list
    OBVIOUS
  <2>2. list \in Seq(Match) /\ ToSet(list) = On(net, d) /\ Sorted(net, list)
    BY <2>1 DEF Inv, NetOK, AgendaOK
  <2>3. Ranked(net, ToSet(list))
    BY <2>2, NetRanked DEF Inv, NetOK, On
  <2>4. \A k, l \in DOMAIN list : list[k] = list[l] => k = l
    BY <2>2, <2>3, SortedOrder
  <2>5. CASE m \in On(net, d)
    <3>1. PICK i \in DOMAIN list : list[i] = m
      BY <2>2, <2>5 DEF ToSet
    <3>2. {k \in DOMAIN list : list[k] = m} = {i}
      BY <2>4, <3>1
    <3>3. QED
      BY <2>1, <2>5, <3>2, FS_Singleton DEF On
  <2>6. CASE m \notin On(net, d)
    <3>1. {k \in DOMAIN list : list[k] = m} = {}
      BY <2>2, <2>6 DEF ToSet
    <3>2. QED
      BY <2>1, <2>6, <3>1, FS_EmptySet DEF On
  <2>7. QED
    BY <2>5, <2>6
<1>2. net.marker \subseteq matches /\ net.count = Cardinality(net.marker) + IF pc = "rhs" THEN 1 ELSE 0
  BY DEF Inv, CountOK
<1>3. QED
  BY <1>1, <1>2 DEF MarkersAgree

-----------------------------------------------------------------------------
(* Theorems. *)

LEMMA AlwaysInv == Spec => []Inv
<1>1. Inv /\ [Next]_vars => Inv'
  BY InvStep
<1>2. QED
  BY InitInv, <1>1, PTL DEF Spec

\* Every state of the engine has its type: NumberOfActivations never goes
\* below zero, the clock never passes its bound, groups hold activations.
THEOREM TypeHolds == Spec => []TypeOK
BY AlwaysInv, InvType, PTL

\* The searches of the seven strategies keep every agenda totally ordered by
\* salience and strategy, for any rules, matches and saliences.
THEOREM OrderHolds == Spec => []AgendaOrdered
BY AlwaysInv, InvOrdered, PTL

\* The salience groups delimit the runs of equal salience of every agenda.
THEOREM GroupsHold == Spec => []GroupsDelimit
BY AlwaysInv, InvDelimit, PTL

\* Markers and agendas agree, and NumberOfActivations counts them.
THEOREM MarkersHold == Spec => []MarkersAgree
BY AlwaysInv, InvMarkers, PTL

\* A match fires once until it is refreshed or its data are asserted again.
THEOREM RefractionHolds == Spec => Refraction
<1>1. Inv /\ [Next]_vars => [firing # firing' /\ firing' # None => firing' \notin spent]_vars
  <2> SUFFICES ASSUME Inv, [Next]_vars, firing # firing', firing' # None
               PROVE  firing' \notin spent
    OBVIOUS
  <2>1. CASE Fire
    BY <2>1, FireStep
  <2>2. CASE EndRhs
    BY <2>2 DEF EndRhs
  <2>3. CASE ~Fire /\ ~EndRhs
    BY <2>3 DEF Next, vars, runVars, Activate, Deactivate, Undefrule, Refresh,
                RefreshAgendaCommand, FocusCommand, SetStrategy, SetSalienceEvaluation,
                PopFocus, ClearFocusStack, Reset, StartRun, Halt, ActionError, Return, EndRun
  <2>4. QED
    BY <2>1, <2>2, <2>3
<1>2. QED
  BY AlwaysInv, <1>1, PTL DEF Spec, Refraction

\* The run loop fires the best activation of the module in focus, for any
\* rules, matches and saliences and after any commands.
THEOREM BestFires == Spec => BestFired
<1> DEFINE Best == pc = "loop" /\ pc' = "rhs" =>
                     /\ Home(firing') = Head(net.focus)
                     /\ \A x \in net.marker :
                          Home(x) = Home(firing') /\ x # firing' => Ahead(net, firing', x)
<1>1. Inv /\ [Next]_vars => [Best]_vars
  <2> SUFFICES ASSUME Inv, [Next]_vars, pc = "loop", pc' = "rhs"
               PROVE  /\ Home(firing') = Head(net.focus)
                      /\ \A x \in net.marker : Home(x) = Home(firing') /\ x # firing' =>
                           Ahead(net, firing', x)
    OBVIOUS
  <2>1. Fire
    BY DEF Next, vars, runVars, CanAct, Activate, Deactivate, Undefrule, Refresh,
           RefreshAgendaCommand, FocusCommand, SetStrategy, SetSalienceEvaluation,
           PopFocus, ClearFocusStack, Reset, StartRun, Halt, ActionError, Return, EndRhs, EndRun
  <2>2. PICK d \in Module : d = Head(net.focus) /\ net.agenda[d].list # <<>>
    BY <2>1 DEF Inv, LoopOK, Fire, Continues
  <2>3. PICK list : list = net.agenda[d].list
    OBVIOUS
  <2>4. list \in Seq(Match) /\ list # <<>> /\ ToSet(list) = On(net, d) /\ Sorted(net, list)
    BY <2>2, <2>3 DEF Inv, NetOK, AgendaOK
  <2>5. firing' = list[1] /\ 1 \in DOMAIN list
    BY <2>1, <2>2, <2>3, <2>4 DEF Fire, Top
  <2>6. Home(firing') = d
    BY <2>4, <2>5 DEF ToSet, On
  <2>7. ASSUME NEW x \in net.marker, Home(x) = d, x # firing' PROVE Ahead(net, firing', x)
    <3>1. PICK k \in DOMAIN list : x = list[k]
      BY <2>4, <2>7 DEF ToSet, On
    <3>2. 1 < k
      BY <2>4, <2>5, <2>7, <3>1
    <3>3. QED
      BY <2>4, <2>5, <3>1, <3>2 DEF Sorted
  <2>8. QED
    BY <2>2, <2>6, <2>7
<1>2. QED
  BY AlwaysInv, <1>1, PTL DEF Spec, BestFired
=============================================================================
