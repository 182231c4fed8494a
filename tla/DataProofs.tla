----------------------------- MODULE DataProofs -----------------------------
(***************************************************************************)
(* Lemmas about the data the modules share: lists (what a scan from the    *)
(* head finds, what taking an element out, putting one in and keeping some *)
(* do to the others), the list of sizes of a6/storage.c, and the bit       *)
(* fields of a6/help.c.                                                    *)
(***************************************************************************)
EXTENDS SizeOps, Bits, TLAPS, SequenceTheorems, FiniteSetTheorems, WellFoundedInduction

----------------------------------------------------------------------------
(* Lists. *)

\* First is well defined on the non-empty sets of naturals.
LEMMA LeastExists ==
    ASSUME NEW S \in SUBSET Nat, S # {}
    PROVE  First(S) \in S /\ \A j \in S : First(S) <= j
<1>. DEFINE R == {ss \in Nat \X Nat : ss[1] < ss[2]}
<1>1. IsWellFoundedOn(R, Nat)
  BY NatLessThanWellFounded, Zenon DEF OpToRel
<1>2. PICK x \in S : \A y \in S : <<y, x>> \notin R
  BY <1>1, WFMin
<1>3. ASSUME NEW y \in S PROVE x <= y
  <2>1. <<y, x>> \in Nat \X Nat /\ ~(<<y, x>>[1] < <<y, x>>[2])
    BY <1>2
  <2>. QED BY <2>1
<1>. QED BY <1>3 DEF First

\* A set with one element has that element as its first.
LEMMA FirstOfOne ==
    ASSUME NEW S \in SUBSET Int, NEW i \in S, \A j \in S : j = i
    PROVE  First(S) = i
<1>1. i \in S /\ \A j \in S : i <= j
  OBVIOUS
<1>2. First(S) \in S
  BY <1>1 DEF First
<1>. QED BY <1>2

\* RemoveAt closes the gap.
LEMMA RemoveAtProperties ==
    ASSUME NEW T, NEW m \in Seq(T), NEW k \in 1 .. Len(m)
    PROVE  /\ SX!RemoveAt(m, k) \in Seq(T)
           /\ Len(SX!RemoveAt(m, k)) = Len(m) - 1
           /\ \A i \in 1 .. Len(m) - 1 :
                SX!RemoveAt(m, k)[i] = IF i < k THEN m[i] ELSE m[i + 1]
<1>0. \A i \in 1 .. Len(m) : m[i] \in T
  BY ElementOfSeq
<1>1. /\ SubSeq(m, 1, k-1) \in Seq(T)
      /\ Len(SubSeq(m, 1, k-1)) = k - 1
      /\ \A i \in 1 .. k-1 : SubSeq(m, 1, k-1)[i] = m[i]
  BY <1>0, SubSeqProperties
<1>2. /\ SubSeq(m, k+1, Len(m)) \in Seq(T)
      /\ Len(SubSeq(m, k+1, Len(m))) = Len(m) - k
      /\ \A i \in 1 .. Len(m) - k : SubSeq(m, k+1, Len(m))[i] = m[k + i]
  BY <1>0, SubSeqProperties
<1>. DEFINE s == SubSeq(m, 1, k-1)
            t == SubSeq(m, k+1, Len(m))
<1>3. /\ s \o t \in Seq(T)
      /\ Len(s \o t) = Len(s) + Len(t)
      /\ \A i \in 1 .. Len(s) + Len(t) :
            (s \o t)[i] = IF i <= Len(s) THEN s[i] ELSE t[i - Len(s)]
  BY <1>1, <1>2, ConcatProperties
<1>. HIDE DEF s, t
<1>4. /\ Len(m) \in Nat
      /\ Len(s) = k - 1 /\ Len(t) = Len(m) - k
      /\ \A i \in 1 .. k-1 : s[i] = m[i]
      /\ \A i \in 1 .. Len(m) - k : t[i] = m[k + i]
  BY <1>1, <1>2 DEF s, t
<1>5. ASSUME NEW i \in 1 .. Len(m) - 1
      PROVE  (s \o t)[i] = IF i < k THEN m[i] ELSE m[i + 1]
  <2>1. CASE i < k
    <3>1. i \in 1 .. Len(s) + Len(t) /\ i <= Len(s)
      BY <1>4, <2>1
    <3>2. (s \o t)[i] = s[i]
      BY <1>3, <3>1
    <3>. QED BY <1>4, <2>1, <3>1, <3>2
  <2>2. CASE ~(i < k)
    <3>1. (s \o t)[i] = t[i - (k - 1)]
      BY <1>3, <1>4, <2>2
    <3>2. i - (k - 1) \in 1 .. Len(m) - k
      BY <1>4, <2>2
    <3>3. t[i - (k - 1)] = m[k + (i - (k - 1))]
      BY <1>4, <3>2
    <3>4. k + (i - (k - 1)) = i + 1
      OBVIOUS
    <3>. QED BY <2>2, <3>1, <3>3, <3>4
  <2>. QED BY <2>1, <2>2
<1>6. s \o t = SX!RemoveAt(m, k)
  BY DEF SX!RemoveAt, s, t
<1>. QED BY <1>3, <1>4, <1>5, <1>6

\* What is known of any list.
LEMMA ListBasics ==
    ASSUME NEW T, NEW m \in Seq(T)
    PROVE  /\ Len(m) \in Nat
           /\ DOMAIN m = 1 .. Len(m)
           /\ IsFiniteSet(DOMAIN m)
           /\ \A i \in DOMAIN m : m[i] \in T
           /\ m # << >> => 1 \in DOMAIN m
<1>1. Len(m) \in Nat /\ DOMAIN m = 1 .. Len(m)
  OBVIOUS
<1>2. \A i \in 1 .. Len(m) : m[i] \in T
  BY ElementOfSeq
<1>3. IsFiniteSet(1 .. Len(m))
  BY <1>1, FS_Interval
<1>4. m # << >> => Len(m) # 0
  BY EmptySeq
<1>. QED BY <1>1, <1>2, <1>3, <1>4

\* An entry put before a list moves every other entry up by one.
LEMMA PrependProperties ==
    ASSUME NEW T, NEW m \in Seq(T), NEW e \in T
    PROVE  /\ <<e>> \o m \in Seq(T)
           /\ Len(<<e>> \o m) = Len(m) + 1
           /\ (<<e>> \o m)[1] = e
           /\ \A i \in 1 .. Len(m) : (<<e>> \o m)[i + 1] = m[i]
<1>. DEFINE s == <<e>>
<1>1. s \in Seq(T) /\ Len(s) = 1 /\ s[1] = e
  OBVIOUS
<1>. HIDE DEF s
<1>2. /\ s \o m \in Seq(T)
      /\ Len(s \o m) = Len(s) + Len(m)
      /\ \A i \in 1 .. Len(s) + Len(m) :
            (s \o m)[i] = IF i <= Len(s) THEN s[i] ELSE m[i - Len(s)]
  BY <1>1, ConcatProperties
<1>3. Len(m) \in Nat
  OBVIOUS
<1>4. (s \o m)[1] = e
  BY <1>1, <1>2, <1>3
<1>5. \A i \in 1 .. Len(m) : (s \o m)[i + 1] = m[i]
  BY <1>1, <1>2, <1>3
<1>. QED BY <1>1, <1>2, <1>4, <1>5 DEF s

\* A list without duplicates loses the element that is taken out, and no other.
LEMMA RemovedListed ==
    ASSUME NEW T, NEW m \in Seq(T), NEW p \in DOMAIN m,
           \A i \in DOMAIN m : m[i] = m[p] => i = p
    PROVE  {SX!RemoveAt(m, p)[i] : i \in DOMAIN SX!RemoveAt(m, p)}
              = {m[i] : i \in DOMAIN m} \ {m[p]}
<1>. DEFINE n == SX!RemoveAt(m, p)
<1>1. DOMAIN m = 1 .. Len(m) /\ Len(m) \in Nat
  OBVIOUS
<1>2. /\ DOMAIN n = 1 .. Len(m) - 1
      /\ \A i \in 1 .. Len(m) - 1 : n[i] = IF i < p THEN m[i] ELSE m[i + 1]
  <2>1. /\ n \in Seq(T) /\ Len(n) = Len(m) - 1
        /\ \A i \in 1 .. Len(m) - 1 : n[i] = IF i < p THEN m[i] ELSE m[i + 1]
    BY <1>1, RemoveAtProperties
  <2>. HIDE DEF n
  <2>. QED BY <2>1
<1>. HIDE DEF n
<1>3. ASSUME NEW i \in DOMAIN n PROVE n[i] \in {m[k] : k \in DOMAIN m} \ {m[p]}
  <2>1. CASE i < p
    <3>1. i \in DOMAIN m /\ i # p /\ n[i] = m[i]
      BY <1>1, <1>2, <2>1
    <3>. QED BY <3>1
  <2>2. CASE ~(i < p)
    <3>1. i + 1 \in DOMAIN m /\ i + 1 # p /\ n[i] = m[i + 1]
      BY <1>1, <1>2, <2>2
    <3>. QED BY <3>1
  <2>. QED BY <2>1, <2>2
<1>4. ASSUME NEW k \in DOMAIN m, k # p PROVE m[k] \in {n[i] : i \in DOMAIN n}
  <2>1. CASE k < p
    <3>1. k \in DOMAIN n /\ n[k] = m[k]
      BY <1>1, <1>2, <2>1
    <3>. QED BY <3>1
  <2>2. CASE ~(k < p)
    <3>1. k - 1 \in DOMAIN n /\ ~(k - 1 < p) /\ (k - 1) + 1 = k
      BY <1>1, <1>2, <1>4, <2>2
    <3>2. n[k - 1] = m[k]
      BY <1>2, <3>1
    <3>. QED BY <3>1, <3>2
  <2>. QED BY <2>1, <2>2
<1>5. {n[i] : i \in DOMAIN n} = {m[k] : k \in DOMAIN m} \ {m[p]}
  BY <1>3, <1>4
<1>. QED BY <1>5 DEF n

(***************************************************************************)
(* InsertAt puts an element at a position and moves those behind it up.    *)
(***************************************************************************)
LEMMA InsertAtProperties ==
    ASSUME NEW T, NEW m \in Seq(T), NEW e \in T, NEW k \in 1 .. Len(m) + 1
    PROVE  /\ SX!InsertAt(m, k, e) \in Seq(T)
           /\ Len(SX!InsertAt(m, k, e)) = Len(m) + 1
           /\ SX!InsertAt(m, k, e)[k] = e
           /\ \A i \in 1 .. k - 1 : SX!InsertAt(m, k, e)[i] = m[i]
           /\ \A i \in k .. Len(m) : SX!InsertAt(m, k, e)[i + 1] = m[i]
<1>0. \A i \in 1 .. Len(m) : m[i] \in T
  BY ElementOfSeq
<1>. DEFINE s == SubSeq(m, 1, k - 1)
            t == SubSeq(m, k, Len(m))
            x == <<e>>
<1>1. /\ s \in Seq(T)
      /\ Len(s) = k - 1
      /\ \A i \in 1 .. k - 1 : s[i] = m[i]
  BY <1>0, SubSeqProperties
<1>2. /\ t \in Seq(T)
      /\ Len(t) = Len(m) - k + 1
      /\ \A i \in 1 .. Len(m) - k + 1 : t[i] = m[k + i - 1]
  BY <1>0, SubSeqProperties
<1>3. x \in Seq(T) /\ Len(x) = 1 /\ x[1] = e
  OBVIOUS
<1>4. SX!InsertAt(m, k, e) = (s \o x) \o t
  BY DEF SX!InsertAt
<1>. HIDE DEF s, t, x
<1>. DEFINE u == s \o x
<1>5. /\ u \in Seq(T)
      /\ Len(u) = k
      /\ \A i \in 1 .. k : u[i] = IF i <= k - 1 THEN s[i] ELSE x[i - (k - 1)]
  <2>1. /\ u \in Seq(T)
        /\ Len(u) = Len(s) + Len(x)
        /\ \A i \in 1 .. Len(s) + Len(x) :
              u[i] = IF i <= Len(s) THEN s[i] ELSE x[i - Len(s)]
    BY <1>1, <1>3, ConcatProperties
  <2>2. Len(s) + Len(x) = k
    BY <1>1, <1>3
  <2>. HIDE DEF u
  <2>. QED BY <1>1, <2>1, <2>2
<1>. HIDE DEF u
<1>6. /\ u \o t \in Seq(T)
      /\ Len(u \o t) = Len(m) + 1
      /\ \A i \in 1 .. Len(m) + 1 : (u \o t)[i] = IF i <= k THEN u[i] ELSE t[i - k]
  <2>1. /\ u \o t \in Seq(T)
        /\ Len(u \o t) = Len(u) + Len(t)
        /\ \A i \in 1 .. Len(u) + Len(t) :
              (u \o t)[i] = IF i <= Len(u) THEN u[i] ELSE t[i - Len(u)]
    BY <1>2, <1>5, ConcatProperties
  <2>2. Len(u) + Len(t) = Len(m) + 1
    BY <1>2, <1>5
  <2>. QED BY <1>5, <2>1, <2>2
<1>7. (u \o t)[k] = e
  BY <1>3, <1>5, <1>6
<1>8. ASSUME NEW i \in 1 .. k - 1 PROVE (u \o t)[i] = m[i]
  <2>1. i \in 1 .. Len(m) + 1 /\ i <= k /\ i \in 1 .. k /\ i <= k - 1
    OBVIOUS
  <2>. QED BY <1>1, <1>5, <1>6, <2>1
<1>9. ASSUME NEW i \in k .. Len(m) PROVE (u \o t)[i + 1] = m[i]
  <2>1. i + 1 \in 1 .. Len(m) + 1 /\ ~(i + 1 <= k) /\ (i + 1) - k \in 1 .. Len(m) - k + 1
    OBVIOUS
  <2>2. k + ((i + 1) - k) - 1 = i
    OBVIOUS
  <2>. QED BY <1>2, <1>6, <2>1, <2>2
<1>. QED BY <1>4, <1>6, <1>7, <1>8, <1>9 DEF u

\* Ranks number the elements of a finite set of naturals in their order.
LEMMA RankProperties ==
    ASSUME NEW K \in SUBSET Nat, IsFiniteSet(K)
    PROVE  /\ Cardinality(K) \in Nat
           /\ \A k \in K : Rank(K, k) \in 1 .. Cardinality(K)
           /\ \A j, k \in K : j < k => Rank(K, j) < Rank(K, k)
           /\ \A r \in 1 .. Cardinality(K) : \E k \in K : Rank(K, k) = r
<1>. DEFINE C == Cardinality(K)
            Upto(k) == {j \in K : j <= k}
<1>1. C \in Nat
  BY FS_CardinalityType
<1>2. \A k \in K : IsFiniteSet(Upto(k)) /\ Cardinality(Upto(k)) \in Nat /\ Cardinality(Upto(k)) <= C
  BY FS_Subset, FS_CardinalityType
<1>3. ASSUME NEW k \in K PROVE Rank(K, k) \in 1 .. C
  <2>1. k \in Upto(k)
    OBVIOUS
  <2>2. Cardinality(Upto(k)) # 0
    BY <1>2, <2>1, FS_EmptySet
  <2>. QED BY <1>1, <1>2, <2>2 DEF Rank
<1>4. ASSUME NEW j \in K, NEW k \in K, j < k PROVE Rank(K, j) < Rank(K, k)
  <2>1. Upto(j) \in SUBSET Upto(k)
    <3>1. ASSUME NEW x \in Upto(j) PROVE x \in Upto(k)
      <4>1. x \in Nat /\ j \in Nat /\ k \in Nat /\ x \in K /\ x <= j
        OBVIOUS
      <4>. QED BY <1>4, <4>1
    <3>. QED BY <3>1
  <2>2. Upto(j) # Upto(k)
    <3>1. k \in Upto(k) /\ k \notin Upto(j)
      BY <1>4
    <3>. QED BY <3>1
  <2>. HIDE DEF Upto
  <2>3. Cardinality(Upto(j)) <= Cardinality(Upto(k)) /\ Cardinality(Upto(j)) # Cardinality(Upto(k))
    BY <1>2, <2>1, <2>2, FS_Subset
  <2>4. Cardinality(Upto(j)) < Cardinality(Upto(k))
    BY <1>2, <2>3
  <2>. QED BY <2>4 DEF Rank, Upto
<1>5. ASSUME NEW r \in 1 .. C PROVE \E k \in K : Rank(K, k) = r
  <2>. DEFINE f == [k \in K |-> Rank(K, k)]
  <2>1. f \in [K -> 1 .. C] /\ \A k \in K : f[k] = Rank(K, k)
    BY <1>3
  <2>2. \A j, k \in K : j # k => f[j] # f[k]
    <3>1. ASSUME NEW j \in K, NEW k \in K, j < k PROVE f[j] # f[k]
      <4>1. Rank(K, j) < Rank(K, k) /\ Rank(K, j) \in 1 .. C
        BY <1>3, <1>4, <3>1
      <4>2. Rank(K, j) # Rank(K, k)
        BY <4>1
      <4>. QED BY <2>1, <4>2
    <3>2. ASSUME NEW j \in K, NEW k \in K, j # k PROVE j < k \/ k < j
      <4>1. j \in Nat /\ k \in Nat
        OBVIOUS
      <4>. QED BY <3>2, <4>1
    <3>. HIDE DEF f
    <3>. QED BY <3>1, <3>2
  <2>. HIDE DEF f
  <2>3. f \in Injection(K, 1 .. C)
    BY <2>1, <2>2 DEF Injection, IsInjective
  <2>4. IsFiniteSet(1 .. C) /\ Cardinality(1 .. C) = C
    BY <1>1, FS_Interval
  <2>5. f \in Surjection(K, 1 .. C)
    BY <2>3, <2>4, FS_Injection
  <2>6. \E k \in K : f[k] = r
    BY <2>5 DEF Surjection
  <2>. QED BY <2>1, <2>6
<1>. QED BY <1>1, <1>3, <1>4, <1>5

(***************************************************************************)
(* KeepOnly keeps exactly the elements at the positions given, in order.   *)
(***************************************************************************)
LEMMA KeepOnlyProperties ==
    ASSUME NEW T, NEW m \in Seq(T), NEW K \in SUBSET DOMAIN m
    PROVE  /\ KeepOnly(m, K) \in Seq(T)
           /\ Cardinality(K) \in Nat
           /\ Len(KeepOnly(m, K)) = Cardinality(K)
           /\ \E at \in [1 .. Cardinality(K) -> K] :
                /\ \A r \in 1 .. Cardinality(K) : KeepOnly(m, K)[r] = m[at[r]]
                /\ \A q, r \in 1 .. Cardinality(K) : q < r => at[q] < at[r]
                /\ \A k \in K : \E r \in 1 .. Cardinality(K) : at[r] = k
<1>. DEFINE C == Cardinality(K)
            at == [r \in 1 .. C |-> CHOOSE k \in K : Rank(K, k) = r]
<1>1. /\ DOMAIN m = 1 .. Len(m)
      /\ Len(m) \in Nat
      /\ \A i \in DOMAIN m : m[i] \in T
  BY ElementOfSeq
<1>2. K \in SUBSET Nat /\ IsFiniteSet(K)
  <2>1. IsFiniteSet(1 .. Len(m))
    BY <1>1, FS_Interval
  <2>. QED BY <1>1, <2>1, FS_Subset
<1>3. /\ C \in Nat
      /\ \A k \in K : Rank(K, k) \in 1 .. C
      /\ \A j, k \in K : j < k => Rank(K, j) < Rank(K, k)
      /\ \A r \in 1 .. C : \E k \in K : Rank(K, k) = r
  BY <1>2, RankProperties
<1>4. \A r \in 1 .. C : at[r] \in K /\ Rank(K, at[r]) = r
  BY <1>3
<1>5. at \in [1 .. C -> K]
  BY <1>4
<1>6. KeepOnly(m, K) = [r \in 1 .. C |-> m[at[r]]]
  BY DEF KeepOnly
<1>. HIDE DEF at
<1>7. \A r \in 1 .. C : m[at[r]] \in T
  BY <1>1, <1>4
<1>8. KeepOnly(m, K) \in Seq(T) /\ Len(KeepOnly(m, K)) = C
  BY <1>3, <1>6, <1>7, IsASeq
<1>9. ASSUME NEW q \in 1 .. C, NEW r \in 1 .. C, q < r PROVE at[q] < at[r]
  <2>1. at[q] \in Nat /\ at[r] \in Nat /\ at[q] \in K /\ at[r] \in K
    BY <1>2, <1>4
  <2>2. Rank(K, at[q]) = q /\ Rank(K, at[r]) = r
    BY <1>4
  <2>3. ASSUME at[r] < at[q] PROVE FALSE
    <3>1. Rank(K, at[r]) < Rank(K, at[q])
      BY <1>3, <2>1, <2>3
    <3>. QED BY <1>9, <2>2, <3>1
  <2>4. at[r] # at[q]
    BY <1>9, <2>2
  <2>. QED BY <2>1, <2>3, <2>4
<1>10. ASSUME NEW k \in K PROVE \E r \in 1 .. C : at[r] = k
  <2>1. Rank(K, k) \in 1 .. C /\ at[Rank(K, k)] \in K /\ Rank(K, at[Rank(K, k)]) = Rank(K, k)
    BY <1>3, <1>4
  <2>2. k \in Nat /\ at[Rank(K, k)] \in Nat
    BY <1>2, <2>1
  <2>3. ~(k < at[Rank(K, k)]) /\ ~(at[Rank(K, k)] < k)
    BY <1>3, <2>1
  <2>4. at[Rank(K, k)] = k
    BY <2>2, <2>3
  <2>. QED BY <2>1, <2>4
<1>11. \A r \in 1 .. C : KeepOnly(m, K)[r] = m[at[r]]
  BY <1>6
<1>. QED BY <1>3, <1>5, <1>8, <1>9, <1>10, <1>11

----------------------------------------------------------------------------
(* The list of sizes of a6/storage.c. *)

\* An order-preserving map onto a set takes its first element to the first.
LEMMA FirstOfImage ==
    ASSUME NEW A \in SUBSET Nat, NEW B \in SUBSET Nat, A # {}, NEW f \in [A -> B],
           \A i, j \in A : i < j => f[i] < f[j],
           \A b \in B : \E i \in A : f[i] = b
    PROVE  First(A) \in A /\ First(B) = f[First(A)]
<1>1. First(A) \in A /\ \A i \in A : First(A) <= i
  BY LeastExists
<1>2. B # {}
  BY <1>1
<1>3. First(B) \in B /\ \A b \in B : First(B) <= b
  BY <1>2, LeastExists
<1>4. PICK i \in A : f[i] = First(B)
  BY <1>3
<1>5. First(B) <= f[First(A)]
  BY <1>1, <1>3
<1>6. CASE First(A) = i
  BY <1>1, <1>4, <1>6
<1>7. CASE First(A) < i
  <2>1. f[First(A)] < f[i]
    BY <1>1, <1>4, <1>7
  <2>2. f[First(A)] \in Nat /\ f[i] \in Nat
    BY <1>1, <1>4
  <2>. QED BY <1>4, <1>5, <2>1, <2>2
<1>8. First(A) = i \/ First(A) < i
  <2>1. First(A) \in Nat /\ i \in Nat /\ First(A) <= i
    BY <1>1, <1>4
  <2>. QED BY <2>1
<1>. QED BY <1>6, <1>7, <1>8

(***************************************************************************)
(* A name has the same size in two lists that hold the same entries for it *)
(* in the same order.                                                      *)
(***************************************************************************)
LEMMA SizeGetSame ==
    ASSUME NEW T, NEW a \in Seq(T), NEW b \in Seq(T), NEW n,
           NEW f \in [DOMAIN a -> DOMAIN b],
           \A i, j \in DOMAIN a : i < j => f[i] < f[j],
           \A i \in DOMAIN a : a[i].name = n => b[f[i]] = a[i],
           \A k \in DOMAIN b : b[k].name = n => \E i \in DOMAIN a : f[i] = k /\ a[i].name = n
    PROVE  SizeGet(b, n) = SizeGet(a, n)
<1>. DEFINE A == NameAt(a, n)
            B == NameAt(b, n)
<1>1. A \in SUBSET Nat /\ B \in SUBSET Nat /\ A \subseteq DOMAIN a /\ B \subseteq DOMAIN b
  BY DEF NameAt
<1>2. \A i \in A : f[i] \in B /\ b[f[i]] = a[i]
  BY DEF NameAt
<1>3. \A k \in B : \E i \in A : f[i] = k
  BY DEF NameAt
<1>4. \A i, j \in A : i < j => f[i] < f[j]
  BY <1>1
<1>5. CASE A = {}
  <2>1. B = {}
    BY <1>3, <1>5
  <2>. QED BY <1>5, <2>1 DEF SizeGet
<1>6. CASE A # {}
  <2>. DEFINE g == [i \in A |-> f[i]]
  <2>. HIDE DEF A, B
  <2>0. A \in SUBSET Nat /\ B \in SUBSET Nat /\ g \in [A -> B]
    BY <1>1, <1>2
  <2>1. \A i \in A : g[i] = f[i]
    OBVIOUS
  <2>. HIDE DEF g
  <2>2. First(A) \in A /\ First(B) = g[First(A)]
    <3>1. \A i, j \in A : i < j => g[i] < g[j]
      BY <1>4, <2>1
    <3>2. \A k \in B : \E i \in A : g[i] = k
      BY <1>3, <2>1
    <3>. QED BY <1>6, <2>0, <3>1, <3>2, FirstOfImage
  <2>3. B # {} /\ b[First(B)] = a[First(A)]
    BY <1>2, <2>1, <2>2
  <2>. QED BY <1>6, <2>3 DEF SizeGet, A, B
<1>. QED BY <1>5, <1>6

\* Where the scan of size_remember stops in an ordered list.
LEMMA StopAtProperties ==
    ASSUME NEW N \in SUBSET Int, NEW Z, NEW m \in Seq(SizeEntry(N, Z)), NEW n \in N,
           InOrder(m), m # << >>, ~(n < m[1].name)
    PROVE  /\ StopAt(m, n) \in 1 .. Len(m)
           /\ m[StopAt(m, n)].name = n => StopAt(m, n) = 1
           /\ m[StopAt(m, n)].name # n =>
                \A i \in 1 .. Len(m) : IF i <= StopAt(m, n) THEN m[i].name < n ELSE n <= m[i].name
<1>. USE DEF SizeEntry
<1>. DEFINE L == Len(m)
            S == {i \in DOMAIN m : i = L \/ n <= m[i + 1].name}
            k == StopAt(m, n)
<1>1. /\ L \in Nat /\ DOMAIN m = 1 .. L /\ L # 0
      /\ \A i \in 1 .. L : m[i] \in SizeEntry(N, Z)
  <2>. DEFINE Rec == SizeEntry(N, Z)
  <2>1. m \in Seq(Rec)
    OBVIOUS
  <2>. HIDE DEF Rec
  <2>2. /\ L \in Nat /\ DOMAIN m = 1 .. L
        /\ \A i \in DOMAIN m : m[i] \in Rec
        /\ 1 \in DOMAIN m
    BY <2>1, ListBasics
  <2>. QED BY <2>2 DEF Rec
<1>2. n \in Int /\ \A i \in 1 .. L : m[i].name \in Int
  BY <1>1
<1>3. k = First(S) /\ S \in SUBSET Nat /\ L \in S
  BY <1>1 DEF StopAt
<1>. HIDE DEF S, L
<1>4. k \in S /\ \A j \in S : k <= j
  <2>1. First(S) \in S /\ \A j \in S : First(S) <= j
    BY <1>3, LeastExists
  <2>. HIDE DEF k
  <2>. QED BY <1>3, <2>1
<1>5. k \in 1 .. L
  BY <1>1, <1>4 DEF S
<1>. HIDE DEF k
<1>6. ASSUME k # 1 PROVE m[k].name < n
  <2>1. k - 1 \in 1 .. L /\ k - 1 # L /\ (k - 1) + 1 = k
    BY <1>1, <1>5, <1>6
  <2>2. k - 1 \notin S
    BY <1>3, <1>4, <1>5
  <2>3. ~(n <= m[k].name)
    BY <1>1, <2>1, <2>2 DEF S
  <2>. QED BY <1>2, <1>5, <2>3
<1>7. m[k].name = n => k = 1
  BY <1>2, <1>5, <1>6
<1>8. ASSUME m[k].name # n, NEW i \in 1 .. L
      PROVE  IF i <= k THEN m[i].name < n ELSE n <= m[i].name
  <2>1. m[k].name < n
    <3>1. CASE k = 1
      BY <1>2, <1>5, <1>8, <3>1
    <3>. QED BY <1>6, <3>1
  <2>2. \A h \in 1 .. L, j \in 1 .. L : h < j => m[h].name <= m[j].name
    BY <1>1 DEF InOrder
  <2>3. CASE i <= k
    <3>1. m[i].name <= m[k].name
      <4>1. CASE i < k
        BY <1>5, <2>2, <4>1
      <4>2. CASE i = k
        BY <1>2, <1>5, <4>2
      <4>. QED BY <1>5, <2>3, <4>1, <4>2
    <3>. QED BY <1>2, <1>5, <2>1, <2>3, <3>1
  <2>4. CASE ~(i <= k)
    <3>1. k # L /\ k + 1 \in 1 .. L /\ k + 1 <= i
      BY <1>1, <1>5, <2>4
    <3>2. n <= m[k + 1].name
      BY <1>4, <3>1 DEF S
    <3>3. m[k + 1].name <= m[i].name
      <4>1. CASE k + 1 < i
        BY <2>2, <3>1, <4>1
      <4>2. CASE k + 1 = i
        BY <1>2, <4>2
      <4>. QED BY <3>1, <4>1, <4>2
    <3>. QED BY <1>2, <2>4, <3>1, <3>2, <3>3
  <2>. QED BY <2>3, <2>4
<1>. QED BY <1>5, <1>7, <1>8 DEF k, L

(***************************************************************************)
(* An entry that goes into an ordered list where the names before it are   *)
(* smaller and those behind it are not keeps the order, is the one found   *)
(* for its name, and hides no other name's.                                *)
(***************************************************************************)
Inserted(m, b, n, z, k) ==
    /\ k \in 1 .. Len(m) + 1
    /\ Len(b) = Len(m) + 1
    /\ b[k] = [name |-> n, size |-> z]
    /\ \A i \in 1 .. Len(m) : i < k => m[i].name < n /\ b[i] = m[i]
    /\ \A i \in 1 .. Len(m) : ~(i < k) => n <= m[i].name /\ b[i + 1] = m[i]

LEMMA EntryInserted ==
    ASSUME NEW N \in SUBSET Int, NEW Z, NEW m \in Seq(SizeEntry(N, Z)),
           NEW b \in Seq(SizeEntry(N, Z)), NEW n \in N, NEW z \in Z, NEW k,
           InOrder(m), Inserted(m, b, n, z, k)
    PROVE  /\ InOrder(b)
           /\ SizeGet(b, n) = z
           /\ \A n2 \in N \ {n} : SizeGet(b, n2) = SizeGet(m, n2)
<1>. USE DEF SizeEntry
<1>. DEFINE L == Len(m)
            f == [i \in 1 .. L |-> IF i < k THEN i ELSE i + 1]
<1>0. /\ k \in 1 .. Len(m) + 1
      /\ Len(b) = Len(m) + 1
      /\ b[k] = [name |-> n, size |-> z]
      /\ \A i \in 1 .. Len(m) : i < k => m[i].name < n /\ b[i] = m[i]
      /\ \A i \in 1 .. Len(m) : ~(i < k) => n <= m[i].name /\ b[i + 1] = m[i]
  BY DEF Inserted
<1>1. /\ L \in Nat /\ DOMAIN m = 1 .. L /\ DOMAIN b = 1 .. L + 1
      /\ \A i \in 1 .. L : m[i] \in SizeEntry(N, Z)
  <2>. DEFINE Rec == SizeEntry(N, Z)
  <2>1. m \in Seq(Rec)
    OBVIOUS
  <2>. HIDE DEF Rec
  <2>2. L \in Nat /\ DOMAIN m = 1 .. L /\ \A i \in DOMAIN m : m[i] \in Rec
    BY <2>1, ListBasics
  <2>. QED BY <1>0, <2>2 DEF Rec
<1>2. n \in Int /\ \A i \in 1 .. L : m[i].name \in Int
  BY <1>1
<1>3. /\ f \in [1 .. L -> 1 .. L + 1]
      /\ \A i \in 1 .. L : f[i] \in 1 .. L + 1 /\ f[i] # k /\ b[f[i]] = m[i]
      /\ \A i \in 1 .. L : (f[i] < k <=> i < k) /\ (i < k => m[i].name < n) /\ (~(i < k) => n <= m[i].name)
  BY <1>0, <1>1
<1>4. \A i, j \in 1 .. L : i < j <=> f[i] < f[j]
  BY <1>0, <1>1
<1>5. \A h \in 1 .. L + 1 : h # k => \E i \in 1 .. L : f[i] = h
  <2>1. SUFFICES ASSUME NEW h \in 1 .. L + 1, h # k PROVE \E i \in 1 .. L : f[i] = h
    OBVIOUS
  <2>2. CASE h < k
    <3>1. h \in 1 .. L /\ f[h] = h
      BY <1>0, <1>1, <2>2
    <3>. QED BY <3>1
  <2>3. CASE ~(h < k)
    <3>1. h - 1 \in 1 .. L /\ ~(h - 1 < k)
      BY <1>0, <1>1, <2>1, <2>3
    <3>2. f[h - 1] = h
      BY <1>0, <1>1, <3>1
    <3>. QED BY <3>1, <3>2
  <2>. QED BY <2>2, <2>3
<1>. HIDE DEF f
<1>6. InOrder(b)
  <2>1. SUFFICES ASSUME NEW g \in 1 .. L + 1, NEW h \in 1 .. L + 1, g < h
                 PROVE  b[g].name <= b[h].name
    BY <1>1 DEF InOrder
  <2>2. CASE g = k
    <3>1. PICK j \in 1 .. L : f[j] = h
      BY <1>5, <2>1, <2>2
    <3>2. ~(j < k)
      BY <1>3, <2>1, <2>2, <3>1
    <3>. QED BY <1>0, <1>3, <2>2, <3>1, <3>2
  <2>3. CASE h = k
    <3>1. PICK i \in 1 .. L : f[i] = g
      BY <1>5, <2>1, <2>3
    <3>2. i < k
      BY <1>3, <2>1, <2>3, <3>1
    <3>3. b[g] = m[i] /\ m[i].name < n
      BY <1>3, <3>1, <3>2
    <3>. QED BY <1>0, <1>2, <2>3, <3>3
  <2>4. CASE g # k /\ h # k
    <3>1. PICK i \in 1 .. L : f[i] = g
      BY <1>5, <2>4
    <3>2. PICK j \in 1 .. L : f[j] = h
      BY <1>5, <2>4
    <3>3. i < j
      BY <1>4, <2>1, <3>1, <3>2
    <3>4. m[i].name <= m[j].name
      BY <1>1, <3>3 DEF InOrder
    <3>. QED BY <1>3, <3>1, <3>2, <3>4
  <2>. QED BY <2>2, <2>3, <2>4
<1>7. SizeGet(b, n) = z
  <2>. DEFINE at == NameAt(b, n)
  <2>1. at \in SUBSET Nat /\ k \in at
    BY <1>0, <1>1 DEF NameAt
  <2>2. ASSUME NEW h \in at PROVE k <= h
    <3>1. h \in 1 .. L + 1 /\ b[h].name = n
      BY <1>1 DEF NameAt
    <3>2. ASSUME h < k PROVE FALSE
      <4>1. PICK i \in 1 .. L : f[i] = h
        BY <1>5, <3>1, <3>2
      <4>2. m[i].name < n /\ m[i].name = n
        BY <1>3, <3>1, <3>2, <4>1
      <4>. QED BY <1>2, <4>2
    <3>. QED BY <1>0, <3>1, <3>2
  <2>. HIDE DEF at
  <2>3. First(at) \in at /\ \A h \in at : First(at) <= h
    BY <2>1, LeastExists
  <2>4. First(at) = k
    <3>1. First(at) \in Nat /\ First(at) <= k /\ k <= First(at)
      BY <2>1, <2>2, <2>3
    <3>. QED BY <1>0, <3>1
  <2>. QED BY <1>0, <2>1, <2>4 DEF SizeGet, at
<1>8. ASSUME NEW n2 \in N \ {n} PROVE SizeGet(b, n2) = SizeGet(m, n2)
  <2>1. ASSUME NEW h \in DOMAIN b, b[h].name = n2
        PROVE  \E i \in DOMAIN m : f[i] = h /\ m[i].name = n2
    <3>2. h # k
      BY <1>0, <1>8, <2>1
    <3>3. PICK i \in 1 .. L : f[i] = h
      BY <1>1, <1>5, <3>2
    <3>. QED BY <1>1, <1>3, <2>1, <3>3
  <2>2. f \in [DOMAIN m -> DOMAIN b] /\ \A i \in DOMAIN m : b[f[i]] = m[i]
    BY <1>1, <1>3
  <2>3. \A i, j \in DOMAIN m : i < j => f[i] < f[j]
    BY <1>1, <1>4
  <2>. QED BY <2>1, <2>2, <2>3, SizeGetSame
<1>. QED BY <1>6, <1>7, <1>8

(***************************************************************************)
(* size_remember() on an ordered list: the order stays, the size is the    *)
(* one that is read, and other names keep theirs.                          *)
(***************************************************************************)
LEMMA SizeRememberProperties ==
    ASSUME NEW N \in SUBSET Int, NEW Z, NEW m \in Seq(SizeEntry(N, Z)),
           NEW n \in N, NEW z \in Z, InOrder(m)
    PROVE  /\ SizeRemember(m, n, z) \in Seq(SizeEntry(N, Z))
           /\ InOrder(SizeRemember(m, n, z))
           /\ SizeGet(SizeRemember(m, n, z), n) = z
           /\ \A n2 \in N \ {n} : SizeGet(SizeRemember(m, n, z), n2) = SizeGet(m, n2)
<1>. USE DEF SizeEntry
<1>. DEFINE Rec == SizeEntry(N, Z)
            L == Len(m)
            new == [name |-> n, size |-> z]
            k == StopAt(m, n)
<1>1. /\ L \in Nat /\ DOMAIN m = 1 .. L
      /\ \A i \in 1 .. L : m[i] \in Rec
      /\ m # << >> => 1 \in 1 .. L
  <2>1. m \in Seq(Rec)
    OBVIOUS
  <2>. HIDE DEF Rec
  <2>. QED BY <2>1, ListBasics
<1>2. n \in Int /\ (\A i \in 1 .. L : m[i].name \in Int) /\ new \in Rec
  BY <1>1
<1>3. CASE m = << >> \/ n < m[1].name
  <2>. DEFINE b == <<new>> \o m
  <2>1. SizeRemember(m, n, z) = b
    BY <1>3 DEF SizeRemember
  <2>2. /\ b \in Seq(Rec)
        /\ Len(b) = L + 1
        /\ b[1] = new
        /\ \A i \in 1 .. L : b[i + 1] = m[i]
    BY <1>2, PrependProperties
  <2>. HIDE DEF b
  <2>3. ASSUME NEW i \in 1 .. L PROVE n <= m[i].name /\ ~(i < 1)
    <3>1. 1 \in 1 .. L /\ n < m[1].name
      BY <1>1, <1>3
    <3>2. m[1].name <= m[i].name
      <4>1. CASE i = 1
        BY <1>2, <4>1
      <4>2. CASE i # 1
        BY <1>1, <3>1, <4>2 DEF InOrder
      <4>. QED BY <4>1, <4>2
    <3>. QED BY <1>2, <3>1, <3>2
  <2>5. Inserted(m, b, n, z, 1)
    BY <1>1, <2>2, <2>3 DEF Inserted
  <2>6. /\ InOrder(b)
        /\ SizeGet(b, n) = z
        /\ \A n2 \in N \ {n} : SizeGet(b, n2) = SizeGet(m, n2)
    BY <2>2, <2>5, EntryInserted
  <2>. QED BY <2>1, <2>2, <2>6
<1>4. CASE ~(m = << >> \/ n < m[1].name)
  <2>1. /\ k \in 1 .. L
        /\ m[k].name = n => k = 1
        /\ m[k].name # n =>
              \A i \in 1 .. L : IF i <= k THEN m[i].name < n ELSE n <= m[i].name
    BY <1>4, StopAtProperties
  <2>2. CASE m[k].name = n
    <3>. DEFINE b == [m EXCEPT ![k] = new]
    <3>1. SizeRemember(m, n, z) = b
      BY <1>4, <2>2 DEF SizeRemember
    <3>2. k = 1 /\ DOMAIN b = 1 .. L /\ b[1] = new /\ \A i \in 1 .. L : i # 1 => b[i] = m[i]
      BY <1>1, <2>1, <2>2
    <3>3. b \in Seq(Rec)
      BY <1>1, <1>2, <2>1, ExceptSeq
    <3>4. \A i \in 1 .. L : b[i].name = m[i].name
      BY <2>2, <3>2
    <3>. HIDE DEF b, k
    <3>5. InOrder(b)
      BY <1>1, <3>2, <3>4 DEF InOrder
    <3>6. \A n2 : NameAt(b, n2) = NameAt(m, n2)
      BY <1>1, <3>2, <3>4 DEF NameAt
    <3>7. SizeGet(b, n) = z
      <4>. DEFINE at == NameAt(b, n)
      <4>1. at \in SUBSET Nat /\ 1 \in at /\ \A h \in at : 1 <= h
        BY <2>1, <3>2 DEF NameAt
      <4>. HIDE DEF at
      <4>2. First(at) \in at /\ \A h \in at : First(at) <= h
        BY <4>1, LeastExists
      <4>3. First(at) = 1
        <5>1. First(at) \in Nat /\ First(at) <= 1 /\ 1 <= First(at)
          BY <4>1, <4>2
        <5>. QED BY <5>1
      <4>. QED BY <3>2, <4>1, <4>3 DEF SizeGet, at
    <3>8. ASSUME NEW n2 \in N \ {n} PROVE SizeGet(b, n2) = SizeGet(m, n2)
      <4>. DEFINE at == NameAt(m, n2)
      <4>1. at \in SUBSET Nat /\ at \subseteq 1 .. L /\ 1 \notin at
        BY <1>1, <2>2, <3>2, <3>8 DEF NameAt
      <4>. HIDE DEF at
      <4>2. at # {} => First(at) \in at
        BY <4>1, LeastExists
      <4>3. at # {} => b[First(at)] = m[First(at)]
        BY <3>2, <4>1, <4>2
      <4>. QED BY <3>6, <4>3 DEF SizeGet, at
    <3>. QED BY <3>1, <3>3, <3>5, <3>7, <3>8
  <2>3. CASE m[k].name # n
    <3>. DEFINE b == SX!InsertAt(m, k + 1, new)
    <3>1. SizeRemember(m, n, z) = b
      BY <1>4, <2>3 DEF SizeRemember
    <3>. HIDE DEF k
    <3>2. k + 1 \in 1 .. L + 1
      BY <1>1, <2>1
    <3>3. /\ b \in Seq(Rec)
          /\ Len(b) = L + 1
          /\ b[k + 1] = new
          /\ \A i \in 1 .. (k + 1) - 1 : b[i] = m[i]
          /\ \A i \in k + 1 .. L : b[i + 1] = m[i]
      <4>1. m \in Seq(Rec)
        OBVIOUS
      <4>. HIDE DEF Rec, new
      <4>. QED BY <1>2, <3>2, <4>1, InsertAtProperties
    <3>. HIDE DEF b
    <3>4. ASSUME NEW i \in 1 .. L
          PROVE  /\ i < k + 1 => m[i].name < n /\ b[i] = m[i]
                 /\ ~(i < k + 1) => n <= m[i].name /\ b[i + 1] = m[i]
      <4>1. CASE i < k + 1
        <5>1. i <= k /\ i \in 1 .. (k + 1) - 1
          BY <2>1, <4>1
        <5>. QED BY <2>1, <2>3, <3>3, <4>1, <5>1
      <4>2. CASE ~(i < k + 1)
        <5>1. ~(i <= k) /\ i \in k + 1 .. L
          BY <1>1, <2>1, <4>2
        <5>. QED BY <2>1, <2>3, <3>3, <4>2, <5>1
      <4>. QED BY <4>1, <4>2
    <3>5. /\ InOrder(b)
          /\ SizeGet(b, n) = z
          /\ \A n2 \in N \ {n} : SizeGet(b, n2) = SizeGet(m, n2)
      <4>1. Inserted(m, b, n, z, k + 1)
        BY <3>2, <3>3, <3>4 DEF Inserted
      <4>. QED BY <3>3, <4>1, EntryInserted
    <3>. QED BY <3>1, <3>3, <3>5
  <2>. QED BY <2>2, <2>3
<1>. QED BY <1>3, <1>4

(***************************************************************************)
(* size_forget() on an ordered list: the order stays, other names keep     *)
(* their sizes, and a name that is listed loses an entry; the only one, if *)
(* it has only one.                                                        *)
(***************************************************************************)
LEMMA SizeForgetProperties ==
    ASSUME NEW N \in SUBSET Int, NEW Z, NEW m \in Seq(SizeEntry(N, Z)), NEW n, InOrder(m)
    PROVE  /\ SizeForget(m, n) \in Seq(SizeEntry(N, Z))
           /\ InOrder(SizeForget(m, n))
           /\ \A n2 : n2 # n => SizeGet(SizeForget(m, n), n2) = SizeGet(m, n2)
           /\ NameAt(m, n) # {} =>
                /\ Cardinality(NameAt(SizeForget(m, n), n)) < Cardinality(NameAt(m, n))
                /\ Cardinality(NameAt(m, n)) = 1 => SizeGet(SizeForget(m, n), n) = -1
<1>. USE DEF SizeEntry
<1>. DEFINE Rec == SizeEntry(N, Z)
            K == DOMAIN m \ Removed(m, n)
            b == SizeForget(m, n)
            C == Cardinality(K)
<1>0. m \in Seq(Rec)
  OBVIOUS
<1>1. /\ Len(m) \in Nat /\ DOMAIN m = 1 .. Len(m) /\ IsFiniteSet(DOMAIN m)
      /\ \A i \in DOMAIN m : m[i] \in Rec
  <2>. HIDE DEF Rec
  <2>. QED BY <1>0, ListBasics
<1>2. \A i \in DOMAIN m : m[i].name \in Int
  BY <1>1
<1>3. Removed(m, n) \subseteq NameAt(m, n) /\ NameAt(m, n) \subseteq DOMAIN m
  BY DEF Removed, NameAt
<1>4. PICK at \in [1 .. C -> K] :
        /\ b \in Seq(Rec) /\ C \in Nat /\ Len(b) = C
        /\ \A r \in 1 .. C : b[r] = m[at[r]]
        /\ \A q, r \in 1 .. C : q < r => at[q] < at[r]
        /\ \A k \in K : \E r \in 1 .. C : at[r] = k
  <2>1. K \in SUBSET DOMAIN m
    OBVIOUS
  <2>2. b = KeepOnly(m, K)
    BY DEF SizeForget
  <2>. HIDE DEF K, b
  <2>. QED BY <2>1, <2>2, KeepOnlyProperties
<1>. HIDE DEF b, C
<1>5. DOMAIN b = 1 .. C /\ \A r \in 1 .. C : at[r] \in DOMAIN m /\ at[r] \notin Removed(m, n)
  BY <1>4
<1>6. InOrder(b)
  BY <1>4, <1>5 DEF InOrder
<1>7. ASSUME NEW n2, n2 # n PROVE SizeGet(b, n2) = SizeGet(m, n2)
  <2>1. ASSUME NEW k \in DOMAIN m, m[k].name = n2
        PROVE  \E r \in DOMAIN b : at[r] = k /\ b[r].name = n2
    <3>2. k \notin Removed(m, n)
      BY <1>3, <1>7, <2>1 DEF NameAt
    <3>3. PICK r \in 1 .. C : at[r] = k
      BY <1>4, <3>2
    <3>. QED BY <1>4, <1>5, <2>1, <3>3
  <2>2. /\ at \in [DOMAIN b -> DOMAIN m]
        /\ \A r \in DOMAIN b : m[at[r]] = b[r]
        /\ \A q, r \in DOMAIN b : q < r => at[q] < at[r]
    BY <1>4, <1>5
  <2>3. m \in Seq(Rec) /\ b \in Seq(Rec)
    BY <1>0, <1>4
  <2>4. \A k \in DOMAIN m : m[k].name = n2 => \E r \in DOMAIN b : at[r] = k /\ b[r].name = n2
    BY <2>1
  <2>5. \A r \in DOMAIN b : b[r].name = n2 => m[at[r]] = b[r]
    BY <2>2
  <2>. HIDE DEF Rec, K
  <2>6. SizeGet(m, n2) = SizeGet(b, n2)
    BY <2>2, <2>3, <2>4, <2>5, SizeGetSame
  <2>. QED BY <2>6
<1>8. ASSUME NameAt(m, n) # {}
      PROVE  /\ Cardinality(NameAt(b, n)) < Cardinality(NameAt(m, n))
             /\ Cardinality(NameAt(m, n)) = 1 => SizeGet(b, n) = -1
  <2>. DEFINE A == NameAt(m, n)
              B == NameAt(b, n)
              rest == A \ Removed(m, n)
  <2>1. A \in SUBSET Nat /\ IsFiniteSet(A)
    BY <1>1, <1>3, FS_Subset
  <2>2. PICK x \in A : x \in Removed(m, n)
    <3>1. CASE 1 \in A
      BY <3>1 DEF Removed
    <3>2. CASE 1 \notin A
      <4>1. First(A) \in A
        BY <1>8, <2>1, LeastExists
      <4>2. First(A) \in Nat
        BY <2>1, <4>1
      <4>3. (First(A) - First(A)) % 2 = 0
        BY <4>2
      <4>. QED BY <3>2, <4>1, <4>3 DEF Removed
    <3>. QED BY <3>1, <3>2
  <2>3. IsFiniteSet(rest) /\ rest \in SUBSET A /\ rest # A
    BY <2>1, <2>2, FS_Subset
  <2>4. \A r \in B : r \in 1 .. C /\ at[r] \in rest
    BY <1>4, <1>5 DEF NameAt
  <2>. HIDE DEF A, B, rest
  <2>5. Cardinality(rest) < Cardinality(A)
    <3>1. Cardinality(rest) <= Cardinality(A) /\ Cardinality(rest) # Cardinality(A)
      BY <2>1, <2>3, FS_Subset
    <3>2. Cardinality(rest) \in Nat /\ Cardinality(A) \in Nat
      BY <2>1, <2>3, FS_CardinalityType
    <3>. QED BY <3>1, <3>2
  <2>6. IsFiniteSet(B) /\ Cardinality(B) <= Cardinality(rest)
    <3>. DEFINE g == [r \in B |-> at[r]]
    <3>1. g \in [B -> rest]
      BY <2>4
    <3>2. ASSUME NEW q \in B, NEW r \in B, q # r PROVE g[q] # g[r]
      <4>1. q \in 1 .. C /\ r \in 1 .. C
        BY <2>4
      <4>2. \A i \in 1 .. C : at[i] \in Nat
        BY <1>1, <1>5
      <4>3. q < r \/ r < q
        BY <1>4, <3>2, <4>1
      <4>4. at[q] < at[r] \/ at[r] < at[q]
        BY <1>4, <4>1, <4>3
      <4>5. at[q] # at[r]
        BY <4>1, <4>2, <4>4
      <4>. QED BY <4>5
    <3>. HIDE DEF g
    <3>3. g \in Injection(B, rest)
      BY <3>1, <3>2 DEF Injection, IsInjective
    <3>. QED BY <2>3, <3>3, FS_Injection
  <2>7. Cardinality(B) < Cardinality(A)
    <3>1. Cardinality(rest) \in Nat /\ Cardinality(A) \in Nat /\ Cardinality(B) \in Nat
      BY <2>1, <2>3, <2>6, FS_CardinalityType
    <3>. QED BY <2>5, <2>6, <3>1
  <2>8. ASSUME Cardinality(A) = 1 PROVE SizeGet(b, n) = -1
    <3>1. Cardinality(B) = 0
      <4>1. Cardinality(B) \in Nat
        BY <2>6, FS_CardinalityType
      <4>. QED BY <2>7, <2>8, <4>1
    <3>2. B = {}
      BY <2>6, <3>1, FS_EmptySet
    <3>. QED BY <3>2 DEF SizeGet, B
  <2>. QED BY <2>7, <2>8 DEF A, B
<1>. QED BY <1>4, <1>6, <1>7, <1>8 DEF b

----------------------------------------------------------------------------
(***************************************************************************)
(* bits_setrange() of a6/help.c, for words of any width and fields of any  *)
(* size: it never touches a bit that was not meant, and sets all that were *)
(* meant unless its low mask is undefined.                                 *)
(***************************************************************************)

\* A bit lies in its word.
LEMMA WordLemma ==
    ASSUME NEW b \in Nat
    PROVE  /\ Word(b) \in Nat
           /\ FirstBit(Word(b)) <= b /\ b <= FirstBit(Word(b) + 1) - 1
<1>1. Word(b) \in Nat
  BY BitsPerLongAssumption DEF Word
<1>2. b = (BitsPerLong * Word(b)) + (b % BitsPerLong)
  BY BitsPerLongAssumption DEF Word
<1>3. b % BitsPerLong \in 0 .. BitsPerLong - 1
  BY BitsPerLongAssumption
<1>. QED BY <1>1, <1>2, <1>3, BitsPerLongAssumption DEF FirstBit

\* Words are in the order of their bits.
LEMMA WordOrder ==
    ASSUME NEW b \in Nat, NEW c \in Nat, b <= c
    PROVE  /\ Word(b) <= Word(c)
           /\ Word(b) # Word(c) => FirstBit(Word(b) + 1) <= FirstBit(Word(c))
<1>1. /\ Word(b) \in Nat /\ Word(c) \in Nat
      /\ FirstBit(Word(b)) <= b /\ b < FirstBit(Word(b) + 1)
      /\ FirstBit(Word(c)) <= c /\ c < FirstBit(Word(c) + 1)
  BY WordLemma, BitsPerLongAssumption DEF FirstBit
<1>2. \A i, j \in Nat : i <= j => FirstBit(i) <= FirstBit(j)
  BY BitsPerLongAssumption DEF FirstBit
<1>3. ASSUME Word(c) < Word(b) PROVE FALSE
  <2>1. FirstBit(Word(c) + 1) <= FirstBit(Word(b))
    BY <1>1, <1>2, <1>3
  <2>. QED BY <1>1, <2>1, BitsPerLongAssumption DEF FirstBit
<1>. QED BY <1>1, <1>2, <1>3

\* The range that is meant lies in the field.
LEMMA RangeLemma ==
    ASSUME NEW r \in Int \X Int, NEW n \in Nat \ {0}
    PROVE  /\ RangeFirst(r, n) \in 0 .. n - 1 /\ RangeLast(r, n) \in 0 .. n - 1
           /\ RangeFirst(r, n) <= RangeLast(r, n)
  BY DEF RangeFirst, RangeLast, Clamp

(***************************************************************************)
(* What bits_setrange() sets was meant, and what was meant is set if no    *)
(* shift is undefined.                                                     *)
(***************************************************************************)
THEOREM SetRangeExact ==
    ASSUME NEW r \in Int \X Int, NEW n \in Nat \ {0}, NEW lost \in BOOLEAN
    PROVE  /\ SetRange(r, n, lost) \subseteq BitRange(r, n)
           /\ ~(Undefined(r, n) /\ lost) => SetRange(r, n, lost) = BitRange(r, n)
           /\ BitRange(r, n) \subseteq 0 .. n - 1
<1>. DEFINE f == RangeFirst(r, n)
            l == RangeLast(r, n)
            mid == FirstBit(Word(f) + 1)
            high == FirstBit(Word(l))
<1>1. f \in 0 .. n - 1 /\ l \in 0 .. n - 1 /\ f <= l /\ f \in Nat /\ l \in Nat
  BY RangeLemma
<1>2. BitRange(r, n) = f .. l
  BY DEF BitRange
<1>3. CASE Word(f) = Word(l)
  BY <1>1, <1>2, <1>3 DEF SetRange, Undefined
<1>4. CASE Word(f) # Word(l)
  <2>1. /\ mid \in Int /\ high \in Int
        /\ f <= mid - 1 /\ mid <= high /\ high <= l
    <3>1. Word(f) \in Nat /\ Word(l) \in Nat /\ f <= mid - 1 /\ high <= l
      BY <1>1, WordLemma
    <3>2. mid <= high
      BY <1>1, <1>4, WordOrder
    <3>3. mid \in Int /\ high \in Int
      BY <3>1, BitsPerLongAssumption DEF FirstBit
    <3>. QED BY <3>1, <3>2, <3>3
  <2>2. SetRange(r, n, lost) = LowWord(r, n, lost) \cup (mid .. high - 1) \cup (high .. l)
    BY <1>4 DEF SetRange, MiddleWords, HighWord
  <2>3. LowWord(r, n, lost) = IF Undefined(r, n) /\ lost THEN {} ELSE f .. mid - 1
    BY DEF LowWord
  <2>. HIDE DEF f, l, mid, high
  <2>4. (f .. mid - 1) \cup (mid .. high - 1) \cup (high .. l) = f .. l
    BY <1>1, <2>1
  <2>. QED BY <1>1, <1>2, <2>1, <2>2, <2>3, <2>4
<1>. QED BY <1>3, <1>4

=============================================================================
