----------------------------- MODULE SequenceFacts -----------------------------
(***************************************************************************)
(* Facts about least numbers and about the sequence operators that the     *)
(* model takes from SequencesExt, for the proofs of the other modules.     *)
(* Where a fact needs induction, the claim is made into a set of numbers.  *)
(***************************************************************************)
EXTENDS Integers, SequencesExt, SequenceTheorems, WellFoundedInduction, TLAPS

(* The order of the natural numbers, as a relation.                        *)
SmallerFirst == {p \in Nat \X Nat : p[1] < p[2]}

(* It is well founded.                                                     *)
LEMMA SmallerFirstIsWellFounded == IsWellFoundedOn(SmallerFirst, Nat)
BY NatLessThanWellFounded, Zenon DEF OpToRel, SmallerFirst

(* Every set of natural numbers has a least element.                       *)
LEMMA LeastNatural ==
  ASSUME NEW S, S \subseteq Nat, S # {}
  PROVE  \E m \in S : \A n \in S : m =< n
<1>1. \E m \in S : \A n \in S : ~ (<<n, m>> \in SmallerFirst)
  BY SmallerFirstIsWellFounded, WFMin
<1>2. \A m, n \in Nat : ~ (<<n, m>> \in SmallerFirst) => m =< n
  BY SMT DEF SmallerFirst
<1> QED
  BY <1>1, <1>2

(* Min picks it.                                                           *)
LEMMA MinIsLeast ==
  ASSUME NEW S, S \subseteq Nat, S # {}
  PROVE  Min(S) \in S /\ \A n \in S : Min(S) =< n
BY LeastNatural DEF Min

(* The element at the first of some places of a sequence.                  *)
LEMMA FirstPlace ==
  ASSUME NEW T, NEW s \in Seq(T), NEW I, I \subseteq 1..Len(s), I # {}
  PROVE  Min(I) \in I /\ s[Min(I)] \in Range(s) /\ s[Min(I)] \in T
<1>1. I \subseteq Nat
  OBVIOUS
<1>2. Min(I) \in I /\ Min(I) \in 1..Len(s)
  BY <1>1, MinIsLeast
<1> QED
  BY <1>2, ElementOfSeq, LenProperties DEF Range

(* Taking an element away from a sequence brings in no new one.            *)
LEMMA RemoveAtShrinks ==
  ASSUME NEW T, NEW s \in Seq(T), NEW i \in 1..Len(s)
  PROVE  RemoveAt(s, i) \in Seq(T) /\ Range(RemoveAt(s, i)) \subseteq Range(s)
<1> DEFINE front == SubSeq(s, 1, i-1)
           back == SubSeq(s, i+1, Len(s))
<1>1. front \in Seq(T) /\ Range(front) \subseteq Range(s)
  BY SubSeqProperties DEF Range
<1>2. back \in Seq(T) /\ Range(back) \subseteq Range(s)
  BY SubSeqProperties DEF Range
<1> HIDE DEF front, back
<1>3. front \o back \in Seq(T) /\ Range(front \o back) = Range(front) \cup Range(back)
  BY <1>1, <1>2, ConcatProperties, RangeConcatenation
<1> QED
  BY <1>1, <1>2, <1>3 DEF RemoveAt, front, back

(* It leaves the elements before it at their places and moves those after  *)
(* it up.                                                                  *)
LEMMA RemoveAtPlaces ==
  ASSUME NEW T, NEW s \in Seq(T), NEW i \in 1..Len(s)
  PROVE  /\ Len(RemoveAt(s, i)) = Len(s) - 1
         /\ \A k \in 1..Len(s) - 1 : RemoveAt(s, i)[k] = IF k < i THEN s[k] ELSE s[k + 1]
<1> DEFINE front == SubSeq(s, 1, i-1)
           back == SubSeq(s, i+1, Len(s))
<1>0. Len(s) \in Nat /\ i \in Nat /\ 1 =< i /\ i =< Len(s)
  BY LenProperties
<1>1. front \in Seq(T) /\ Len(front) = i - 1 /\ \A k \in 1..i-1 : front[k] = s[k]
  BY <1>0, SubSeqProperties
<1>2. /\ back \in Seq(T) /\ Len(back) = Len(s) - i
      /\ \A k \in 1..Len(s)-i : back[k] = s[i + k]
  BY <1>0, SubSeqProperties
<1> HIDE DEF front, back
<1>3. Len(front \o back) = Len(s) - 1
  BY <1>0, <1>1, <1>2, ConcatProperties
<1>4. ASSUME NEW k \in 1..Len(s) - 1
      PROVE  (front \o back)[k] = IF k < i THEN s[k] ELSE s[k + 1]
  <2>1. (front \o back)[k] = IF k <= Len(front) THEN front[k] ELSE back[k - Len(front)]
    BY <1>0, <1>1, <1>2, ConcatProperties
  <2>2. CASE k < i
    BY <1>0, <1>1, <2>1, <2>2
  <2>3. CASE ~ (k < i)
    <3>1. k - (i - 1) \in 1..Len(s)-i /\ i + (k - (i - 1)) = k + 1
      BY <1>0, <2>3
    <3> QED
      BY <1>0, <1>1, <1>2, <2>1, <2>3, <3>1
  <2> QED
    BY <2>2, <2>3
<1> QED
  BY <1>3, <1>4 DEF RemoveAt, front, back

(* So it loses no element but that one.                                    *)
LEMMA RemoveAtLosesOne ==
  ASSUME NEW T, NEW s \in Seq(T), NEW i \in 1..Len(s)
  PROVE  Range(s) \ {s[i]} \subseteq Range(RemoveAt(s, i))
<1> SUFFICES ASSUME NEW k \in 1..Len(s), s[k] # s[i]
             PROVE  s[k] \in Range(RemoveAt(s, i))
  BY DEF Range
<1> DEFINE n == IF k < i THEN k ELSE k - 1
<1>0. Len(s) \in Nat /\ k # i
  BY LenProperties
<1>1. n \in 1..Len(s) - 1 /\ (IF n < i THEN n = k ELSE n + 1 = k)
  BY <1>0
<1> HIDE DEF n
<1>2. RemoveAt(s, i)[n] = s[k]
  BY <1>1, RemoveAtPlaces
<1>3. n \in DOMAIN RemoveAt(s, i)
  BY <1>1, RemoveAtPlaces, RemoveAtShrinks, LenProperties
<1> QED
  BY <1>2, <1>3 DEF Range

(* Equal elements at two places of the rest were equal at two places.      *)
LEMMA RemoveAtCopies ==
  ASSUME NEW T, NEW s \in Seq(T), NEW i \in 1..Len(s),
         NEW j \in 1..Len(RemoveAt(s, i)), NEW k \in 1..Len(RemoveAt(s, i)),
         j # k, RemoveAt(s, i)[j] = RemoveAt(s, i)[k]
  PROVE  \E m, n \in 1..Len(s) : /\ m # n /\ s[m] = s[n]
                                 /\ s[m] = RemoveAt(s, i)[j]
<1> DEFINE m == IF j < i THEN j ELSE j + 1
           n == IF k < i THEN k ELSE k + 1
<1>0. /\ Len(s) \in Nat /\ j \in 1..Len(s) - 1 /\ k \in 1..Len(s) - 1
      /\ i \in 1..Len(s)
  BY LenProperties, RemoveAtPlaces
<1>1. RemoveAt(s, i)[j] = s[m] /\ RemoveAt(s, i)[k] = s[n]
  BY <1>0, RemoveAtPlaces
<1>2. m \in 1..Len(s) /\ n \in 1..Len(s) /\ m # n
  BY <1>0
<1> HIDE DEF m, n
<1> QED
  BY <1>1, <1>2

(* Appending to a sequence brings in the one new element.                  *)
LEMMA AppendGrows ==
  ASSUME NEW T, NEW s \in Seq(T), NEW e \in T
  PROVE  Append(s, e) \in Seq(T) /\ Range(Append(s, e)) \subseteq Range(s) \cup {e}
BY AppendProperties DEF Range

(* What short sequences hold.                                              *)
LEMMA ShortSequences ==
  ASSUME NEW T, NEW a \in T, NEW b \in T
  PROVE  /\ <<>> \in Seq(T) /\ <<a>> \in Seq(T) /\ <<a, b>> \in Seq(T)
         /\ Range(<<>>) = {} /\ Range(<<a>>) = {a} /\ Range(<<a, b>>) = {a, b}
<1>1. <<>> \in Seq(T) /\ <<a>> \in Seq(T) /\ <<a, b>> \in Seq(T)
  OBVIOUS
<1>2. Range(<<>>) = {} /\ Range(<<a>>) = {a}
  BY DEF Range
<1>3. \A x : x \in Range(<<a, b>>) <=> x \in {a, b}
  <2>1. DOMAIN <<a, b>> = {1, 2} /\ <<a, b>>[1] = a /\ <<a, b>>[2] = b
    OBVIOUS
  <2> QED
    BY <2>1, Zenon DEF Range
<1> QED
  BY <1>1, <1>2, <1>3

(* What two sequences hold together.                                       *)
LEMMA JoinedSequences ==
  ASSUME NEW T, NEW s \in Seq(T), NEW t \in Seq(T)
  PROVE  s \o t \in Seq(T) /\ Range(s \o t) = Range(s) \cup Range(t)
BY ConcatProperties, RangeConcatenation

(* Induction over the numbers from k to n, with a set for the claim.       *)
LEMMA UpFrom ==
  ASSUME NEW k \in Nat, NEW n \in Nat, NEW G, k \in G,
         \A i \in k..n : i # k /\ i - 1 \in G => i \in G
  PROVE  k..n \subseteq G
<1> DEFINE Rest == (k..n) \ G
<1> SUFFICES ASSUME Rest # {} PROVE FALSE
  OBVIOUS
<1>1. Rest \subseteq Nat
  OBVIOUS
<1>2. PICK m \in Rest : \A i \in Rest : m =< i
  <2> HIDE DEF Rest
  <2> QED
    BY <1>1, LeastNatural
<1>3. m \in k..n /\ m \notin G /\ m # k
  BY <1>2
<1>4. m - 1 \in k..n /\ m - 1 \notin Rest
  BY <1>2, <1>3
<1> QED
  BY <1>3, <1>4

(* The sequences that FlattenSeq puts together, one after the other: the   *)
(* first i of them, for every i.                                           *)
Gathers(f, s) ==
    /\ DOMAIN f = 1..Len(s)
    /\ \A i \in 1..Len(s) : f[i] = IF i = 1 THEN s[i] ELSE f[i-1] \o s[i]

(* There is such a function, and FlattenSeq returns its last value.        *)
LEMMA FlattenGathers ==
  ASSUME NEW T, NEW s \in Seq(Seq(T)), s # <<>>
  PROVE  \E f : /\ Gathers(f, s) /\ f \in [1..Len(s) -> Seq(T)]
                /\ FlattenSeq(s) = f[Len(s)]
<1>1. PICK N \in Nat \ {0} : N = Len(s) /\ \A i \in 1..N : s[i] \in Seq(T)
  BY EmptySeq, LenProperties, ElementOfSeq
<1> DEFINE Adds(f, n) == /\ f \in [1..n -> Seq(T)]
                         /\ \A i \in 1..n : f[i] = IF i = 1 THEN s[i] ELSE f[i-1] \o s[i]
           F == CHOOSE f : f = [i \in 1..N |-> IF i = 1 THEN s[i] ELSE f[i-1] \o s[i]]
<1>2. \E f : Adds(f, N)
  <2> DEFINE Built == {n \in Nat : \E f : Adds(f, n)}
  <2>1. 1 \in Built
    <3>1. Adds([i \in 1..1 |-> s[1]], 1)
      BY <1>1
    <3> QED
      BY <3>1
  <2>2. ASSUME NEW n \in 1..N, n # 1, n - 1 \in Built
        PROVE  n \in Built
    <3>1. PICK f : Adds(f, n - 1)
      BY <2>2
    <3>2. PICK z : z = f[n-1] \o s[n]
      OBVIOUS
    <3> DEFINE g == [i \in 1..n |-> IF i < n THEN f[i] ELSE z]
    <3>3. n \in Nat /\ n - 1 \in 1..(n-1) /\ z \in Seq(T)
      <4>1. n \in Nat /\ n - 1 \in 1..(n-1)
        BY <1>1, <2>2
      <4>2. f[n-1] \in Seq(T) /\ s[n] \in Seq(T)
        BY <1>1, <3>1, <4>1
      <4> QED
        BY <3>2, <4>1, <4>2, ConcatProperties
    <3>4. g \in [1..n -> Seq(T)]
      BY <3>1, <3>3
    <3>5. ASSUME NEW i \in 1..n
          PROVE  g[i] = IF i = 1 THEN s[i] ELSE g[i-1] \o s[i]
      <4>1. CASE i < n
        <5>1. i \in 1..(n-1) /\ (i # 1 => i - 1 \in 1..n /\ i - 1 < n)
          BY <3>3, <4>1
        <5>2. f[i] = IF i = 1 THEN s[i] ELSE f[i-1] \o s[i]
          BY <3>1, <5>1
        <5>3. g[i] = f[i] /\ (i # 1 => g[i-1] = f[i-1])
          BY <4>1, <5>1
        <5> HIDE DEF g
        <5> QED
          BY <5>2, <5>3
      <4>2. CASE i = n
        <5>1. n # 1 /\ n - 1 \in 1..n /\ n - 1 < n /\ n \in 1..n /\ ~ (n < n)
          BY <2>2, <3>3
        <5>2. g[n] = z /\ g[n-1] = f[n-1]
          BY <5>1
        <5> HIDE DEF g
        <5> QED
          BY <3>2, <4>2, <5>1, <5>2
      <4>3. i < n \/ i = n
        BY <3>3
      <4> QED
        BY <4>1, <4>2, <4>3
    <3>6. Adds(g, n)
      BY <3>4, <3>5
    <3> HIDE DEF g, Adds
    <3> QED
      BY <3>3, <3>6
  <2> HIDE DEF Built
  <2>3. 1..N \subseteq Built
    BY <1>1, <2>1, <2>2, UpFrom
  <2>4. N \in Built
    BY <1>1, <2>3
  <2> QED
    BY <2>4 DEF Built
<1>3. F = [i \in 1..N |-> IF i = 1 THEN s[i] ELSE F[i-1] \o s[i]]
  <2>1. PICK f : Adds(f, N)
    BY <1>2
  <2>2. f = [i \in 1..N |-> IF i = 1 THEN s[i] ELSE f[i-1] \o s[i]]
    BY <2>1
  <2> QED
    BY <2>2
<1>4. FlattenSeq(s) = F[N]
  BY <1>1 DEF FlattenSeq
<1> HIDE DEF F
<1>5. \A i \in 1..N : F[i] \in Seq(T)
  <2> DEFINE Typed == {i \in Nat : F[i] \in Seq(T)}
  <2>1. 1 \in Typed
    BY <1>1, <1>3
  <2>2. ASSUME NEW n \in 1..N, n # 1, n - 1 \in Typed
        PROVE  n \in Typed
    <3>1. F[n] = F[n-1] \o s[n] /\ s[n] \in Seq(T)
      BY <1>1, <1>3, <2>2
    <3>2. F[n-1] \in Seq(T) /\ n \in Nat
      BY <2>2
    <3>3. F[n-1] \o s[n] \in Seq(T)
      BY <3>1, <3>2, ConcatProperties
    <3> QED
      BY <3>1, <3>2, <3>3
  <2> HIDE DEF Typed
  <2>3. 1..N \subseteq Typed
    BY <1>1, <2>1, <2>2, UpFrom
  <2> QED
    BY <2>3 DEF Typed
<1> QED
  BY <1>1, <1>3, <1>4, <1>5, Zenon DEF Gathers

(* A prefix, place by place.                                               *)
LEMMA PrefixByPlace ==
  ASSUME NEW T, NEW s \in Seq(T), NEW t \in Seq(T)
  PROVE  IsPrefix(s, t) <=> Len(s) =< Len(t) /\ \A i \in 1..Len(s) : s[i] = t[i]
<1>1. Len(s) \in Nat /\ Len(t) \in Nat
  BY LenProperties
<1>2. SubSeq(s, 1, Len(s)) = s
  BY SubSeqFull
<1>3. CASE Len(s) =< Len(t)
  <2>1. /\ SubSeq(t, 1, Len(s)) \in Seq(T)
        /\ Len(SubSeq(t, 1, Len(s))) = Len(s)
        /\ \A i \in 1..Len(s) : SubSeq(t, 1, Len(s))[i] = t[i]
    BY <1>1, <1>3, SubSeqProperties
  <2>2. SubSeq(t, 1, Len(s)) = s <=> \A i \in 1..Len(s) : s[i] = t[i]
    BY <2>1, SeqEqual
  <2> QED
    BY <1>2, <1>3, <2>2 DEF IsPrefix
<1> QED
  BY <1>3 DEF IsPrefix

(* What a sequence begins with, a longer one begins with too.              *)
LEMMA PrefixOfConcat ==
  ASSUME NEW T, NEW r \in Seq(T), NEW s \in Seq(T), NEW t \in Seq(T), IsPrefix(r, s)
  PROVE  IsPrefix(r, s \o t)
<1>1. /\ s \o t \in Seq(T) /\ Len(s \o t) = Len(s) + Len(t)
      /\ \A i \in 1..Len(s) : (s \o t)[i] = s[i]
      /\ Len(r) \in Nat /\ Len(s) \in Nat /\ Len(t) \in Nat
  BY ConcatProperties, LenProperties
<1>2. Len(r) =< Len(s) /\ \A i \in 1..Len(r) : r[i] = s[i]
  BY PrefixByPlace
<1>3. Len(r) =< Len(s \o t) /\ \A i \in 1..Len(r) : r[i] = (s \o t)[i]
  BY <1>1, <1>2
<1> QED
  BY <1>1, <1>3, PrefixByPlace

(* What FlattenSeq puts together begins with the first of its sequences,   *)
(* and the second comes next.                                              *)
LEMMA FlattenBegins ==
  ASSUME NEW T, NEW s \in Seq(Seq(T)), s # <<>>
  PROVE  /\ FlattenSeq(s) \in Seq(T) /\ IsPrefix(s[1], FlattenSeq(s))
         /\ Len(s) = 1 => FlattenSeq(s) = s[1]
         /\ Len(s) > 1 => IsPrefix(s[1] \o s[2], FlattenSeq(s))
<1>1. PICK f : /\ Gathers(f, s) /\ f \in [1..Len(s) -> Seq(T)] /\ FlattenSeq(s) = f[Len(s)]
  BY FlattenGathers
<1>2. PICK N \in Nat \ {0} : N = Len(s) /\ \A i \in 1..N : s[i] \in Seq(T)
  BY EmptySeq, LenProperties, ElementOfSeq
<1>3. f[1] = s[1] /\ \A i \in 1..N : i # 1 => f[i] = f[i-1] \o s[i] /\ i - 1 \in 1..N
  <2>1. 1 \in 1..N /\ \A i \in 1..N : i # 1 => i - 1 \in 1..N
    BY <1>2
  <2>2. \A i \in 1..N : f[i] = IF i = 1 THEN s[i] ELSE f[i-1] \o s[i]
    BY <1>1, <1>2 DEF Gathers
  <2> QED
    BY <2>1, <2>2
<1>4. ASSUME NEW k \in 1..N
      PROVE  \A i \in k..N : IsPrefix(f[k], f[i])
  <2> DEFINE Longer == {i \in Nat : IsPrefix(f[k], f[i])}
  <2>1. k \in Longer
    <3>1. f[k] \in Seq(T) /\ k \in Nat
      BY <1>1, <1>2
    <3> QED
      BY <3>1, PrefixByPlace, LenProperties
  <2>2. ASSUME NEW n \in k..N, n # k, n - 1 \in Longer
        PROVE  n \in Longer
    <3>1. n \in 1..N /\ n # 1 /\ n \in Nat
      BY <1>2, <2>2
    <3>2. f[n] = f[n-1] \o s[n] /\ f[k] \in Seq(T) /\ f[n-1] \in Seq(T) /\ s[n] \in Seq(T)
      BY <1>1, <1>2, <1>3, <3>1
    <3>3. IsPrefix(f[k], f[n-1] \o s[n])
      BY <2>2, <3>2, PrefixOfConcat
    <3> QED
      BY <3>1, <3>2, <3>3
  <2> HIDE DEF Longer
  <2>3. k..N \subseteq Longer
    <3>1. k \in Nat /\ N \in Nat
      BY <1>2
    <3> QED
      BY <2>1, <2>2, <3>1, UpFrom
  <2> QED
    BY <2>3 DEF Longer
<1>5. IsPrefix(f[1], f[N])
  BY <1>2, <1>4
<1>6. N > 1 => IsPrefix(f[2], f[N]) /\ f[2] = s[1] \o s[2]
  <2> SUFFICES ASSUME N > 1 PROVE IsPrefix(f[2], f[N]) /\ f[2] = s[1] \o s[2]
    OBVIOUS
  <2>1. 2 \in 1..N /\ N \in 2..N
    BY <1>2
  <2>2. \A i \in 2..N : IsPrefix(f[2], f[i])
    BY <1>4, <2>1
  <2>3. PICK j \in 1..N : j = 2
    BY <2>1
  <2>4. j # 1 /\ j - 1 = 1
    BY <2>3
  <2>5. f[j] = f[j-1] \o s[j]
    BY <1>3, <2>4, Zenon
  <2> QED
    BY <1>3, <2>1, <2>2, <2>3, <2>4, <2>5
<1>7. /\ FlattenSeq(s) \in Seq(T) /\ FlattenSeq(s) = f[N]
      /\ N = 1 => FlattenSeq(s) = s[1]
  BY <1>1, <1>2, <1>3
<1> QED
  BY <1>2, <1>3, <1>5, <1>6, <1>7

(* A prefix of its own, of what it is extended to, and of what begins with *)
(* what begins with it.                                                    *)
LEMMA PrefixOrder ==
  ASSUME NEW T, NEW r \in Seq(T), NEW s \in Seq(T), NEW t \in Seq(T)
  PROVE  /\ IsPrefix(r, r) /\ IsPrefix(r, r \o s)
         /\ IsPrefix(r, s) /\ IsPrefix(s, t) => IsPrefix(r, t)
         /\ IsPrefix(Front(r), r) /\ Front(r) \in Seq(T)
<1>1. IsPrefix(r, r)
  BY PrefixByPlace, LenProperties
<1>2. IsPrefix(r, r \o s)
  BY <1>1, PrefixOfConcat
<1>3. ASSUME IsPrefix(r, s), IsPrefix(s, t) PROVE IsPrefix(r, t)
  <2>1. /\ Len(r) =< Len(s) /\ \A i \in 1..Len(r) : r[i] = s[i]
        /\ Len(s) =< Len(t) /\ \A i \in 1..Len(s) : s[i] = t[i]
        /\ Len(r) \in Nat /\ Len(s) \in Nat /\ Len(t) \in Nat
    BY <1>3, PrefixByPlace, LenProperties
  <2>2. Len(r) =< Len(t) /\ \A i \in 1..Len(r) : r[i] = t[i]
    BY <2>1
  <2> QED
    BY <2>2, PrefixByPlace
<1>4. IsPrefix(Front(r), r) /\ Front(r) \in Seq(T)
  <2>1. CASE r = <<>>
    <3>1. Len(r) = 0 /\ Front(r) = <<>>
      BY <2>1 DEF Front
    <3> QED
      BY <1>1, <2>1, <3>1
  <2>2. CASE r # <<>>
    <3>1. Len(r) \in Nat \ {0}
      BY <2>2, EmptySeq, LenProperties
    <3>2. /\ SubSeq(r, 1, Len(r) - 1) \in Seq(T)
          /\ Len(SubSeq(r, 1, Len(r) - 1)) = Len(r) - 1
          /\ \A i \in 1..Len(r) - 1 : SubSeq(r, 1, Len(r) - 1)[i] = r[i]
      <4>1. PICK n : n = Len(r) - 1
        OBVIOUS
      <4>2. 1 \in 1..Len(r)+1 /\ n \in 0..Len(r) /\ n \in Nat /\ n - 1 + 1 = n
        BY <3>1, <4>1
      <4>3. /\ SubSeq(r, 1, n) \in Seq(T) /\ Len(SubSeq(r, 1, n)) = n
            /\ \A i \in 1..n : SubSeq(r, 1, n)[i] = r[i]
        BY <4>2, SubSeqProperties
      <4> QED
        BY <4>1, <4>3
    <3>3. PICK f : f = Front(r)
      OBVIOUS
    <3>4. f \in Seq(T) /\ Len(f) =< Len(r) /\ \A i \in 1..Len(f) : f[i] = r[i]
      BY <3>1, <3>2, <3>3 DEF Front
    <3> QED
      BY <3>3, <3>4, PrefixByPlace
  <2> QED
    BY <2>1, <2>2
<1> QED
  BY <1>1, <1>2, <1>3, <1>4
=============================================================================
