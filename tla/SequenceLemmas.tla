--------------------------- MODULE SequenceLemmas ---------------------------
(***************************************************************************)
(* What the operators on sequences do that the models use: elements, their *)
(* number and their order after something is appended, taken or removed.   *)
(***************************************************************************)
EXTENDS SequencesExt, FiniteSetTheorems, SequenceTheorems, TLAPS

LEMMA AppendTo ==
    ASSUME NEW S, NEW s \in Seq(S), NEW x \in S
    PROVE  /\ Append(s, x) \in Seq(S)
           /\ Len(Append(s, x)) = Len(s) + 1
           /\ \A i \in 1..Len(s) : Append(s, x)[i] = s[i]
           /\ Append(s, x)[Len(s) + 1] = x
           /\ Len(s) \in Nat
  OBVIOUS

LEMMA TakeFrom ==
    ASSUME NEW S, NEW s \in Seq(S), s # <<>>
    PROVE  /\ Head(s) \in S /\ Head(s) = s[1]
           /\ Tail(s) \in Seq(S)
           /\ Len(s) \in Nat \ {0}
           /\ Len(Tail(s)) = Len(s) - 1
           /\ \A i \in 1..Len(Tail(s)) : i + 1 \in 1..Len(s) /\ Tail(s)[i] = s[i + 1]
  OBVIOUS

LEMMA Concatenate ==
    ASSUME NEW S, NEW a \in Seq(S), NEW b \in Seq(S)
    PROVE  /\ a \o b \in Seq(S)
           /\ Len(a \o b) = Len(a) + Len(b)
           /\ \A i \in 1..Len(a) + Len(b) :
                 (a \o b)[i] = IF i <= Len(a) THEN a[i] ELSE b[i - Len(a)]
  OBVIOUS

LEMMA RemoveOne ==
    ASSUME NEW S, NEW s \in Seq(S), NEW i \in 1..Len(s)
    PROVE  /\ RemoveAt(s, i) \in Seq(S)
           /\ Len(RemoveAt(s, i)) = Len(s) - 1
           /\ \A j \in 1..Len(s) - 1 :
                 RemoveAt(s, i)[j] = IF j < i THEN s[j] ELSE s[j + 1]
<1> DEFINE a == SubSeq(s, 1, i - 1)
           b == SubSeq(s, i + 1, Len(s))
<1>1. a \in Seq(S) /\ Len(a) = i - 1 /\ \A j \in 1..i - 1 : a[j] = s[j]
  OBVIOUS
<1>2. b \in Seq(S) /\ Len(b) = Len(s) - i /\ \A j \in 1..Len(s) - i : b[j] = s[i + j]
  OBVIOUS
<1>3. RemoveAt(s, i) = a \o b
  BY DEF RemoveAt
<1> HIDE DEF a, b
<1>4. /\ a \o b \in Seq(S) /\ Len(a \o b) = Len(s) - 1
      /\ \A j \in 1..Len(s) - 1 : (a \o b)[j] = IF j < i THEN a[j] ELSE b[j - i + 1]
  <2>1. Len(a) \in Nat /\ Len(b) \in Nat /\ Len(s) \in Nat
    BY <1>1, <1>2
  <2>2. /\ a \o b \in Seq(S) /\ Len(a \o b) = Len(a) + Len(b)
        /\ \A j \in 1..Len(a) + Len(b) :
              (a \o b)[j] = IF j <= Len(a) THEN a[j] ELSE b[j - Len(a)]
    BY <1>1, <1>2, Concatenate
  <2> QED
    BY <1>1, <1>2, <2>1, <2>2
<1>5. ASSUME NEW j \in 1..Len(s) - 1 PROVE (a \o b)[j] = IF j < i THEN s[j] ELSE s[j + 1]
  <2>1. CASE j < i
    BY <1>1, <1>4, <2>1
  <2>2. CASE j >= i
    <3>1. j - i + 1 \in 1..Len(s) - i /\ i + (j - i + 1) = j + 1
      BY <2>2
    <3> QED
      BY <1>2, <1>4, <2>2, <3>1
  <2>3. j < i \/ j >= i
    OBVIOUS
  <2> QED
    BY <2>1, <2>2, <2>3
<1> QED
  BY <1>3, <1>4, <1>5

LEMMA AppendSet ==
    ASSUME NEW S, NEW s \in Seq(S), NEW x \in S
    PROVE  /\ ToSet(Append(s, x)) = ToSet(s) \cup {x}
           /\ IsInjective(s) /\ x \notin ToSet(s) => IsInjective(Append(s, x))
<1>1. DOMAIN s = 1..Len(s) /\ DOMAIN Append(s, x) = 1..Len(s) + 1
  OBVIOUS
<1> HIDE DEF ToSet
<1>2. ASSUME NEW y \in ToSet(Append(s, x)) PROVE y \in ToSet(s) \cup {x}
  BY <1>1, <1>2, AppendTo DEF ToSet
<1>3. ASSUME NEW y \in ToSet(s) PROVE y \in ToSet(Append(s, x))
  BY <1>1, <1>3, AppendTo DEF ToSet
<1>4. x \in ToSet(Append(s, x))
  BY <1>1, AppendTo DEF ToSet
<1>5. ASSUME IsInjective(s), x \notin ToSet(s) PROVE IsInjective(Append(s, x))
  BY <1>1, <1>5, AppendTo DEF IsInjective, ToSet
<1> QED
  BY <1>2, <1>3, <1>4, <1>5

(* What is removed from a sequence that has it once only is gone. *)
LEMMA RemoveElement ==
    ASSUME NEW S, NEW s \in Seq(S), NEW e, IsInjective(s)
    PROVE  /\ RemoveFirst(s, e) \in Seq(S)
           /\ ToSet(RemoveFirst(s, e)) = ToSet(s) \ {e}
           /\ IsInjective(RemoveFirst(s, e))
<1>1. DOMAIN s = 1..Len(s)
  OBVIOUS
<1>2. CASE \E i \in 1..Len(s) : s[i] = e
  <2>1. PICK i \in 1..Len(s) : s[i] = e
    BY <1>2
  <2>2. SelectInSeq(s, LAMBDA v : v = e) = i
    <3>1. {j \in 1..Len(s) : s[j] = e} = {i}
      BY <1>1, <2>1 DEF IsInjective
    <3>2. Min({i}) = i
      BY DEF Min
    <3> QED
      BY <3>1, <3>2 DEF SelectInSeq
  <2>3. RemoveFirst(s, e) = RemoveAt(s, i)
    BY <1>2, <2>2 DEF RemoveFirst
  <2> DEFINE t == RemoveAt(s, i)
  <2>4. /\ t \in Seq(S) /\ DOMAIN t = 1..Len(s) - 1
        /\ \A j \in 1..Len(s) - 1 : t[j] = IF j < i THEN s[j] ELSE s[j + 1]
    BY RemoveOne
  <2> HIDE DEF t
  <2>5. ASSUME NEW y \in ToSet(t) PROVE y \in ToSet(s) \ {e}
    BY <1>1, <2>1, <2>4, <2>5 DEF ToSet, IsInjective
  <2>6. ASSUME NEW y \in ToSet(s) \ {e} PROVE y \in ToSet(t)
    <3>1. PICK k \in 1..Len(s) : y = s[k]
      BY <1>1 DEF ToSet
    <3>2. k # i
      BY <2>1, <3>1
    <3>3. CASE k < i
      <4>1. k \in 1..Len(s) - 1 /\ t[k] = y
        BY <2>4, <3>1, <3>3
      <4> QED
        BY <2>4, <4>1 DEF ToSet
    <3>4. CASE k > i
      <4>1. k - 1 \in 1..Len(s) - 1 /\ t[k - 1] = y
        BY <2>4, <3>1, <3>4
      <4> QED
        BY <2>4, <4>1 DEF ToSet
    <3> QED
      BY <3>2, <3>3, <3>4
  <2>7. IsInjective(t)
    <3> SUFFICES ASSUME NEW m \in 1..Len(s) - 1, NEW n \in 1..Len(s) - 1, t[m] = t[n]
                 PROVE  m = n
      BY <2>4 DEF IsInjective
    <3> DEFINE old(j) == IF j < i THEN j ELSE j + 1
    <3>1. old(m) \in 1..Len(s) /\ old(n) \in 1..Len(s)
      OBVIOUS
    <3>2. t[m] = s[old(m)] /\ t[n] = s[old(n)]
      BY <2>4
    <3>3. old(m) = old(n)
      BY <1>1, <3>1, <3>2 DEF IsInjective
    <3> QED
      BY <3>3
  <2> QED
    BY <2>3, <2>4, <2>5, <2>6, <2>7 DEF t
<1>3. CASE ~\E i \in 1..Len(s) : s[i] = e
  BY <1>1, <1>3 DEF RemoveFirst, ToSet
<1> QED
  BY <1>2, <1>3

LEMMA ConcatSet ==
    ASSUME NEW S, NEW a \in Seq(S), NEW b \in Seq(S)
    PROVE  /\ a \o b \in Seq(S)
           /\ ToSet(a \o b) = ToSet(a) \cup ToSet(b)
           /\ IsInjective(a) /\ IsInjective(b) /\ ToSet(a) \cap ToSet(b) = {}
                 => IsInjective(a \o b)
<1>1. /\ Len(a) \in Nat /\ Len(b) \in Nat /\ DOMAIN a = 1..Len(a) /\ DOMAIN b = 1..Len(b)
  OBVIOUS
<1>2. /\ a \o b \in Seq(S) /\ Len(a \o b) = Len(a) + Len(b)
      /\ \A i \in 1..Len(a) + Len(b) :
            (a \o b)[i] = IF i <= Len(a) THEN a[i] ELSE b[i - Len(a)]
  BY Concatenate
<1> DEFINE c == a \o b
<1>3. DOMAIN c = 1..Len(a) + Len(b)
  BY <1>2
<1> HIDE DEF c
<1>4. ASSUME NEW i \in 1..Len(a) + Len(b)
      PROVE  \/ i \in 1..Len(a) /\ c[i] = a[i]
             \/ i - Len(a) \in 1..Len(b) /\ c[i] = b[i - Len(a)]
  BY <1>1, <1>2 DEF c
<1>5. \A i \in 1..Len(a) : i \in 1..Len(a) + Len(b) /\ c[i] = a[i]
  BY <1>1, <1>2 DEF c
<1>6. \A i \in 1..Len(b) : Len(a) + i \in 1..Len(a) + Len(b) /\ c[Len(a) + i] = b[i]
  BY <1>1, <1>2 DEF c
<1>7. ToSet(c) \subseteq ToSet(a) \cup ToSet(b)
  BY <1>1, <1>3, <1>4 DEF ToSet
<1>8. ToSet(a) \cup ToSet(b) \subseteq ToSet(c)
  BY <1>1, <1>3, <1>5, <1>6 DEF ToSet
<1>9. ASSUME IsInjective(a), IsInjective(b), ToSet(a) \cap ToSet(b) = {}
      PROVE  IsInjective(c)
  <2> SUFFICES ASSUME NEW m \in 1..Len(a) + Len(b), NEW n \in 1..Len(a) + Len(b), c[m] = c[n]
               PROVE  m = n
    BY <1>3 DEF IsInjective
  <2>1. CASE m \in 1..Len(a) /\ c[m] = a[m] /\ n \in 1..Len(a) /\ c[n] = a[n]
    BY <1>1, <1>9, <2>1 DEF IsInjective
  <2>2. CASE /\ m - Len(a) \in 1..Len(b) /\ c[m] = b[m - Len(a)]
             /\ n - Len(a) \in 1..Len(b) /\ c[n] = b[n - Len(a)]
    <3>1. m - Len(a) = n - Len(a)
      BY <1>1, <1>9, <2>2 DEF IsInjective
    <3> QED
      BY <1>1, <3>1
  <2>3. CASE m \in 1..Len(a) /\ c[m] = a[m] /\ n - Len(a) \in 1..Len(b) /\ c[n] = b[n - Len(a)]
    BY <1>1, <1>9, <2>3 DEF ToSet
  <2>4. CASE n \in 1..Len(a) /\ c[n] = a[n] /\ m - Len(a) \in 1..Len(b) /\ c[m] = b[m - Len(a)]
    BY <1>1, <1>9, <2>4 DEF ToSet
  <2> QED
    BY <1>4, <2>1, <2>2, <2>3, <2>4
<1> QED
  BY <1>2, <1>7, <1>8, <1>9 DEF c

LEMMA TailSet ==
    ASSUME NEW S, NEW s \in Seq(S), s # <<>>
    PROVE  /\ Head(s) \in S /\ Tail(s) \in Seq(S)
           /\ ToSet(s) = ToSet(Tail(s)) \cup {Head(s)}
           /\ IsInjective(s) => IsInjective(Tail(s)) /\ Head(s) \notin ToSet(Tail(s))
<1>1. /\ Head(s) \in S /\ Head(s) = s[1] /\ Tail(s) \in Seq(S)
      /\ Len(s) \in Nat \ {0} /\ Len(Tail(s)) = Len(s) - 1
      /\ \A i \in 1..Len(Tail(s)) : i + 1 \in 1..Len(s) /\ Tail(s)[i] = s[i + 1]
  BY TakeFrom
<1> DEFINE t == Tail(s)
<1>2. DOMAIN s = 1..Len(s) /\ DOMAIN t = 1..Len(t)
  BY <1>1
<1> HIDE DEF t
<1>3. ASSUME NEW j \in 1..Len(s), j # 1 PROVE j - 1 \in 1..Len(t) /\ t[j - 1] = s[j]
  <2>1. j - 1 \in 1..Len(t) /\ (j - 1) + 1 = j
    BY <1>1, <1>3 DEF t
  <2> QED
    BY <1>1, <2>1 DEF t
<1>4. ToSet(t) \cup {Head(s)} \subseteq ToSet(s)
  <2>1. 1 \in 1..Len(s)
    BY <1>1
  <2> QED
    BY <1>1, <1>2, <2>1 DEF ToSet, t
<1>5. ToSet(s) \subseteq ToSet(t) \cup {Head(s)}
  BY <1>1, <1>2, <1>3 DEF ToSet
<1>6. ASSUME IsInjective(s) PROVE IsInjective(t) /\ Head(s) \notin ToSet(t)
  <2>1. ASSUME NEW m \in 1..Len(t), NEW n \in 1..Len(t), t[m] = t[n] PROVE m = n
    <3>1. m + 1 = n + 1
      BY <1>1, <1>2, <1>6, <2>1 DEF IsInjective, t
    <3> QED
      BY <3>1
  <2>2. ASSUME NEW m \in 1..Len(t), t[m] = s[1] PROVE FALSE
    <3>1. m + 1 \in 1..Len(s) /\ s[m + 1] = s[1] /\ 1 \in 1..Len(s)
      BY <1>1, <2>2 DEF t
    <3>2. m + 1 = 1
      BY <1>2, <1>6, <3>1 DEF IsInjective
    <3> QED
      BY <3>2
  <2> QED
    BY <1>1, <1>2, <2>1, <2>2 DEF IsInjective, ToSet
<1> QED
  BY <1>1, <1>4, <1>5, <1>6 DEF t

-----------------------------------------------------------------------------
(* Finite sets *)

LEMMA FiniteImage ==
    ASSUME NEW D, IsFiniteSet(D), NEW f, f = [x \in D |-> f[x]]
    PROVE  IsFiniteSet({f[x] : x \in D})
<1>1. f \in Surjection(D, {f[x] : x \in D})
  BY DEF Surjection
<1> QED
  BY <1>1, FS_Surjection

LEMMA FiniteElems ==
    ASSUME NEW S, NEW s \in Seq(S) PROVE IsFiniteSet(ToSet(s))
<1>1. Len(s) \in Int /\ s = [x \in 1..Len(s) |-> s[x]] /\ DOMAIN s = 1..Len(s)
  OBVIOUS
<1>2. IsFiniteSet(1..Len(s))
  <2>1. Len(s) \in Int /\ 1 \in Int
    OBVIOUS
  <2> HIDE <1>1
  <2> QED
    BY <2>1, FS_Interval
<1> QED
  BY <1>1, <1>2, FiniteImage DEF ToSet

(* Among finitely many numbers there is a greatest. *)
LEMMA LastOne ==
    ASSUME NEW N \in Nat, NEW X \in SUBSET (1..N), X # {}
    PROVE  \E i \in X : \A j \in X : j <= i
<1> DEFINE R == StrictSubsetOrdering(1..N)
           T == {i..N : i \in X}
<1>1. IsFiniteSet(1..N)
  BY FS_Interval
<1>2. IsWellFoundedOn(R, SUBSET (1..N))
  BY <1>1, FS_StrictSubsetOrderingWellFounded, FS_FiniteSubsetsOfFinite
<1>3. T \subseteq SUBSET (1..N) /\ T # {}
  <2>1. \A i \in X : i..N \in SUBSET (1..N)
    OBVIOUS
  <2> QED
    BY <2>1
<1> HIDE DEF R, T
<1>4. PICK t \in T : \A u \in T : ~(<<u, t>> \in R)
  BY <1>2, <1>3, WFMin
<1>5. PICK i \in X : t = i..N
  BY DEF T
<1>6. ASSUME NEW j \in X PROVE j <= i
  <2> SUFFICES ASSUME j > i PROVE FALSE
    OBVIOUS
  <2>1. j..N \in T
    BY DEF T
  <2>2. j..N \subseteq i..N /\ i \in i..N /\ i \notin j..N
    OBVIOUS
  <2>3. (j..N) \in SUBSET (1..N) /\ (i..N) \in SUBSET (1..N)
    OBVIOUS
  <2> DEFINE a == j..N
             b == i..N
  <2>4. a \subseteq b /\ a # b /\ a \in SUBSET (1..N) /\ b \in SUBSET (1..N)
    BY <2>2, <2>3
  <2> HIDE DEF a, b
  <2>5. <<a, b>> \in R
    BY <2>4 DEF R, StrictSubsetOrdering
  <2> QED
    BY <1>4, <1>5, <2>1, <2>5 DEF a, b
<1> QED
  BY <1>6

-----------------------------------------------------------------------------
(***************************************************************************)
(* Natural numbers.  The induction theorems of the library are about an    *)
(* operator, these about a set.                                            *)
(***************************************************************************)
LEMMA LeastOne ==
    ASSUME NEW T \in SUBSET Nat, T # {} PROVE \E x \in T : \A y \in T : x <= y
<1> DEFINE R == OpToRel(<, Nat)
<1>1. IsWellFoundedOn(R, Nat)
  BY NatLessThanWellFounded
<1>2. \A x, y \in Nat : y < x => <<y, x>> \in R
  BY DEF OpToRel
<1> HIDE DEF R
<1>3. PICK x \in T : \A y \in T : <<y, x>> \notin R
  BY <1>1, WFMin
<1>4. ASSUME NEW y \in T PROVE x <= y
  <2>1. ~(y < x)
    BY <1>2, <1>3
  <2> QED
    BY <2>1
<1> QED
  BY <1>4

LEMMA UpFromZero ==
    ASSUME NEW S, 0 \in S, \A n \in Nat : n \in S => n + 1 \in S PROVE Nat \subseteq S
<1> SUFFICES ASSUME Nat \ S # {} PROVE FALSE
  OBVIOUS
<1>1. PICK x \in Nat \ S : \A y \in Nat \ S : x <= y
  BY LeastOne
<1>2. x # 0 /\ x - 1 \in Nat
  BY <1>1
<1> QED
  BY <1>1, <1>2

(* The least element that Min chooses *)
LEMMA MinIsLeast ==
    ASSUME NEW T \in SUBSET Nat, T # {} PROVE Min(T) \in T /\ \A y \in T : Min(T) <= y
  BY LeastOne DEF Min

LEMMA InsertOne ==
    ASSUME NEW S, NEW s \in Seq(S), NEW i \in 1..Len(s) + 1, NEW x \in S
    PROVE  /\ InsertAt(s, i, x) \in Seq(S)
           /\ Len(InsertAt(s, i, x)) = Len(s) + 1
           /\ \A j \in 1..Len(s) + 1 :
                 InsertAt(s, i, x)[j] = IF j < i THEN s[j] ELSE IF j = i THEN x ELSE s[j - 1]
<1> DEFINE a == SubSeq(s, 1, i - 1)
           b == SubSeq(s, i, Len(s))
           ax == a \o <<x>>
<1>1. a \in Seq(S) /\ Len(a) = i - 1 /\ \A j \in 1..i - 1 : a[j] = s[j]
  OBVIOUS
<1>2. b \in Seq(S) /\ Len(b) = Len(s) - i + 1 /\ \A j \in 1..Len(s) - i + 1 : b[j] = s[i + j - 1]
  OBVIOUS
<1>3. InsertAt(s, i, x) = ax \o b
  BY DEF InsertAt
<1>4. <<x>> \in Seq(S) /\ Len(<<x>>) = 1 /\ <<x>>[1] = x
  OBVIOUS
<1>5. Len(s) \in Nat /\ i \in Nat
  OBVIOUS
<1> HIDE DEF a, b
<1>6. ax \in Seq(S) /\ Len(ax) = i /\ \A j \in 1..i : ax[j] = IF j < i THEN s[j] ELSE x
  BY <1>1, <1>4, <1>5, Concatenate
<1> HIDE DEF ax
<1>7. /\ ax \o b \in Seq(S) /\ Len(ax \o b) = Len(s) + 1
      /\ \A j \in 1..Len(s) + 1 : (ax \o b)[j] = IF j <= i THEN ax[j] ELSE b[j - i]
  <2>1. /\ ax \o b \in Seq(S) /\ Len(ax \o b) = Len(ax) + Len(b)
        /\ \A j \in 1..Len(ax) + Len(b) :
              (ax \o b)[j] = IF j <= Len(ax) THEN ax[j] ELSE b[j - Len(ax)]
    BY <1>2, <1>6, Concatenate
  <2>2. Len(ax) = i /\ Len(ax) + Len(b) = Len(s) + 1
    BY <1>2, <1>5, <1>6
  <2> QED
    BY <2>1, <2>2
<1>8. ASSUME NEW j \in 1..Len(s) + 1
      PROVE (ax \o b)[j] = IF j < i THEN s[j] ELSE IF j = i THEN x ELSE s[j - 1]
  BY <1>2, <1>5, <1>6, <1>7
<1> QED
  BY <1>3, <1>7, <1>8

(* An enumeration of a finite set *)
LEMMA Enumerated ==
    ASSUME NEW S, IsFiniteSet(S)
    PROVE  SetToSeq(S) \in Seq(S) /\ Len(SetToSeq(S)) = Cardinality(S)
<1>1. Cardinality(S) \in Nat /\ ExistsBijection(1..Cardinality(S), S)
  BY FS_CardinalityType
<1>2. \E f \in [1..Cardinality(S) -> S] : IsInjective(f)
  BY <1>1 DEF ExistsBijection, Bijection, Injection, IsInjective
<1>3. SetToSeq(S) \in [1..Cardinality(S) -> S]
  BY <1>2 DEF SetToSeq
<1> QED
  BY <1>1, <1>3
=============================================================================
