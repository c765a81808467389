------------------------------ MODULE SharedFacts ------------------------------
(***************************************************************************)
(* What the proofs of several modules rest on: a set of natural numbers    *)
(* has a least one, and a sequence cut and joined.                         *)
(***************************************************************************)
EXTENDS Integers, Sequences, WellFoundedInduction, TLAPS

LEMMA LeastNat ==
  ASSUME NEW D \in SUBSET Nat, D # {}
  PROVE  \E m \in D : \A n \in D : m <= n
<1> DEFINE R == {s \in Nat \X Nat : s[1] < s[2]}
<1>1. IsWellFoundedOn(R, Nat)
  BY NatLessThanWellFounded DEF OpToRel
<1>2. \A i, j \in Nat : i < j => <<i, j>> \in R
  OBVIOUS
<1> HIDE DEF R
<1>3. PICK m \in D : \A n \in D : ~(<<n, m>> \in R)
  BY <1>1, WFMin
<1>4. ASSUME NEW n \in D
      PROVE  m <= n
  <2>1. m \in Nat /\ n \in Nat /\ ~(n < m)
    BY <1>2, <1>3
  <2>2. QED
    BY <2>1
<1>5. QED
  BY <1>4

\* What follows the k-th element.
LEMMA RestIs ==
  ASSUME NEW S, NEW q \in Seq(S), NEW k \in 1 .. Len(q)
  PROVE  LET after == SubSeq(q, k + 1, Len(q))
         IN /\ after \in Seq(S) /\ Len(after) = Len(q) - k
            /\ \A i \in 1 .. Len(q) - k : after[i] = q[i + k]
<1> DEFINE after == SubSeq(q, k + 1, Len(q))
<1>1. Len(q) \in Nat /\ k + 1 \in Nat
  OBVIOUS
<1>2. after \in Seq(S) /\ Len(after) = Len(q) - k
  BY <1>1
<1>3. \A i \in 1 .. Len(q) - k : after[i] = q[i + (k + 1) - 1] /\ i + (k + 1) - 1 = i + k
  BY <1>1
<1>4. QED
  BY <1>2, <1>3

\* Two sequences joined, with the place where the second starts.
LEMMA JoinIs ==
  ASSUME NEW S, NEW s \in Seq(S), NEW t \in Seq(S), NEW m \in Nat, NEW n \in Nat,
         Len(s) = m - 1, Len(t) = n - m
  PROVE  /\ s \o t \in Seq(S) /\ Len(s \o t) = n - 1
         /\ \A i \in 1 .. m - 1 : (s \o t)[i] = s[i]
         /\ \A i \in m .. n - 1 : (s \o t)[i] = t[i - (m - 1)]
<1>1. s \o t \in Seq(S) /\ Len(s \o t) = Len(s) + Len(t)
  OBVIOUS
<1>2. Len(s) \in Nat /\ Len(t) \in Nat
  OBVIOUS
<1>3. \A i \in 1 .. m - 1 : (s \o t)[i] = s[i]
  BY <1>1, <1>2
<1>4. \A i \in m .. n - 1 : (s \o t)[i] = t[i - Len(s)]
  BY <1>1, <1>2
<1>5. QED
  BY SMTT(30), <1>1, <1>2, <1>3, <1>4

\* A sequence without its k-th element.
LEMMA CutIs ==
  ASSUME NEW S, NEW q \in Seq(S), NEW k \in 1 .. Len(q)
  PROVE  LET r == SubSeq(q, 1, k - 1) \o SubSeq(q, k + 1, Len(q))
         IN /\ r \in Seq(S) /\ DOMAIN r = 1 .. Len(q) - 1
            /\ \A i \in 1 .. Len(q) - 1 : r[i] = q[IF i < k THEN i ELSE i + 1]
<1> DEFINE before == SubSeq(q, 1, k - 1)
           after  == SubSeq(q, k + 1, Len(q))
           r      == before \o after
<1>1. k \in Nat /\ Len(q) \in Nat
  OBVIOUS
<1>2. /\ before \in Seq(S) /\ Len(before) = k - 1
      /\ \A i \in 1 .. k - 1 : before[i] = q[i]
  BY <1>1
<1>3. /\ after \in Seq(S) /\ Len(after) = Len(q) - k
      /\ \A i \in 1 .. Len(q) - k : after[i] = q[i + k]
  BY RestIs
<1>4. /\ r \in Seq(S) /\ Len(r) = Len(q) - 1
      /\ \A i \in 1 .. k - 1 : r[i] = before[i]
      /\ \A i \in k .. Len(q) - 1 : r[i] = after[i - (k - 1)]
  <2> HIDE DEF before, after
  <2>1. QED
    BY <1>1, <1>2, <1>3, JoinIs
<1> HIDE DEF before, after, r
<1>5. DOMAIN r = 1 .. Len(q) - 1
  BY <1>4
<1>6. ASSUME NEW i \in 1 .. Len(q) - 1
      PROVE  r[i] = q[IF i < k THEN i ELSE i + 1]
  <2>1. CASE i < k
    <3>1. i \in 1 .. k - 1
      BY <1>1, <2>1
    <3>2. QED
      BY <1>2, <1>4, <2>1, <3>1
  <2>2. CASE ~(i < k)
    <3>1. i - (k - 1) \in 1 .. Len(q) - k /\ (i - (k - 1)) + k = i + 1
      BY <1>1, <2>2
    <3>2. i \in k .. Len(q) - 1
      BY <1>1, <2>2
    <3>3. r[i] = after[i - (k - 1)]
      BY <1>4, <3>2, Zenon
    <3>4. after[i - (k - 1)] = q[i + 1]
      <4>1. after[i - (k - 1)] = q[(i - (k - 1)) + k]
        BY <1>3, <3>1, Zenon
      <4>2. QED
        BY <3>1, <4>1
    <3>5. QED
      BY <2>2, <3>3, <3>4
  <2>3. QED
    BY <2>1, <2>2
<1>7. QED
  BY <1>4, <1>5, <1>6 DEF r, before, after
=============================================================================
