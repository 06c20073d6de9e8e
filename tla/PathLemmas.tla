------------------------------ MODULE PathLemmas ------------------------------
(***************************************************************************)
(* Lemmas that the proofs about paths and listings share: induction over   *)
(* the naturals in a form without operator parameters, and facts about     *)
(* sequences, above all about which path is a prefix of which.             *)
(***************************************************************************)
EXTENDS SequencesExt, SequenceTheorems, WellFoundedInduction, TLAPS

\* A set of naturals that is not empty has a least element.
LEMMA Smallest ==
  ASSUME NEW T, T \subseteq Nat, T # {}
  PROVE  \E x \in T : \A y \in T : x <= y
<1> DEFINE Less == {p \in Nat \X Nat : p[1] < p[2]}
<1>1. IsWellFoundedOn(Less, Nat)
  BY NatLessThanWellFounded, Zenon DEF OpToRel
<1>2. \E x \in T : \A y \in T : ~ (<<y, x>> \in Less)
  <2> HIDE DEF Less
  <2> QED BY <1>1, WFMin
<1>3. \A x, y \in Nat : <<y, x>> \in Less <=> y < x
  OBVIOUS
<1> HIDE DEF Less
<1>4. PICK x \in T : \A y \in T : ~ (<<y, x>> \in Less)
  BY <1>2
<1>5. \A y \in T : ~ (y < x)
  BY <1>3, <1>4
<1>6. \A y \in T : x <= y
  BY <1>5
<1> QED
  BY <1>6

\* Induction, stated about a set so that it needs no operator parameter.
LEMMA SetInduction ==
  ASSUME NEW T, 0 \in T, \A n \in Nat : n \in T => n + 1 \in T
  PROVE  Nat \subseteq T
<1> SUFFICES ASSUME Nat \ T # {} PROVE FALSE
  OBVIOUS
<1>1. PICK x \in Nat \ T : \A y \in Nat \ T : x <= y
  <2> DEFINE U == Nat \ T
  <2>1. U \subseteq Nat /\ U # {}
    OBVIOUS
  <2> HIDE DEF U
  <2>2. \E x \in U : \A y \in U : x <= y
    BY <2>1, Smallest
  <2> QED BY <2>2 DEF U
<1>2. x # 0 /\ x - 1 \in Nat /\ x - 1 \in T
  BY <1>1
<1> QED
  BY <1>1, <1>2
\* A sequence is built from its prefixes.
LEMMA PrefixesOf ==
  ASSUME NEW S, NEW v \in Seq(S)
  PROVE  /\ [k \in 1..0 |-> v[k]] = <<>>
         /\ [k \in 1..Len(v) |-> v[k]] = v
         /\ \A n \in 1..Len(v) :
              Append([k \in 1..(n - 1) |-> v[k]], v[n]) = [k \in 1..n |-> v[k]]
<1>1. Len(v) \in Nat /\ \A k \in 1..Len(v) : v[k] \in S
  OBVIOUS
<1>2. [k \in 1..0 |-> v[k]] = <<>> /\ [k \in 1..Len(v) |-> v[k]] = v
  OBVIOUS
<1>3. ASSUME NEW n \in 1..Len(v)
      PROVE  Append([k \in 1..(n - 1) |-> v[k]], v[n]) = [k \in 1..n |-> v[k]]
  <2> DEFINE a == [k \in 1..(n - 1) |-> v[k]]
             b == [k \in 1..n |-> v[k]]
  <2>1. a \in Seq(S) /\ Len(a) = n - 1 /\ \A k \in 1..(n - 1) : a[k] = v[k]
    BY <1>1
  <2>2. b \in Seq(S) /\ Len(b) = n /\ \A k \in 1..n : b[k] = v[k]
    BY <1>1
  <2>3. v[n] \in S
    BY <1>1
  <2> HIDE DEF a, b
  <2>4. /\ Append(a, v[n]) \in Seq(S)
        /\ Len(Append(a, v[n])) = n
        /\ \A k \in 1..n : Append(a, v[n])[k] = v[k]
    BY <1>1, <2>1, <2>3
  <2>5. Append(a, v[n]) = b
    BY <2>2, <2>4
  <2> QED
    BY <2>5 DEF a, b
<1> QED
  BY <1>2, <1>3

\* A sequence over a set is one over a larger set.
LEMMA SeqWider ==
  ASSUME NEW A, NEW B, A \subseteq B, NEW s \in Seq(A)
  PROVE  s \in Seq(B)
OBVIOUS

-----------------------------------------------------------------------------
(* Prefixes.                                                               *)

\* What IsPrefix compares.
LEMMA PrefixIs ==
  ASSUME NEW S, NEW p \in Seq(S), NEW q \in Seq(S)
  PROVE  IsPrefix(p, q) <=>
           Len(p) <= Len(q) /\ \A k \in 1..Len(p) : p[k] = q[k]
<1>1. ASSUME Len(p) <= Len(q)
      PROVE  SubSeq(p, 1, Len(p)) = SubSeq(q, 1, Len(p)) <=>
               \A k \in 1..Len(p) : p[k] = q[k]
  BY <1>1
<1> QED
  BY <1>1 DEF IsPrefix

\* The path of the collection that something is in.
LEMMA FrontIs ==
  ASSUME NEW S, NEW p \in Seq(S), p # <<>>
  PROVE  /\ Len(p) \in Nat \ {0}
         /\ Front(p) \in Seq(S) /\ Len(Front(p)) = Len(p) - 1
         /\ \A k \in 1..(Len(p) - 1) : Front(p)[k] = p[k]
<1>1. Len(p) \in Nat /\ Len(p) # 0
  OBVIOUS
<1>2. \A k \in 1..(Len(p) - 1) : p[k] \in S
  BY <1>1
<1>3. 1 \in Int /\ Len(p) - 1 \in Int
  BY <1>1
<1> DEFINE n == Len(p) - 1
           f == SubSeq(p, 1, n)
<1>4. /\ f \in Seq(S)
      /\ Len(f) = IF 1 <= n THEN n - 1 + 1 ELSE 0
      /\ \A k \in 1..(n - 1 + 1) : f[k] = p[1 + k - 1]
  <2> HIDE DEF n
  <2> QED
    BY <1>2, <1>3, SubSeqProperties DEF n
<1>5. n \in Nat
  BY <1>1
<1>6. Front(p) = f
  BY DEF Front
<1> HIDE DEF n, f
<1>7. /\ f \in Seq(S) /\ Len(f) = n
      /\ \A k \in 1..n : f[k] = p[k]
  BY <1>4, <1>5
<1> QED
  BY <1>1, <1>6, <1>7 DEF n

\* A proper prefix is one of the collection.
LEMMA PrefixOfFront ==
  ASSUME NEW S, NEW p \in Seq(S), NEW q \in Seq(S)
  PROVE  IsPrefix(p, q) /\ p # q <=> q # <<>> /\ IsPrefix(p, Front(q))
<1>0. Len(p) \in Nat /\ Len(q) \in Nat
  OBVIOUS
<1>1. ASSUME IsPrefix(p, q), p # q
      PROVE  q # <<>> /\ IsPrefix(p, Front(q))
  <2>1. Len(p) <= Len(q) /\ \A k \in 1..Len(p) : p[k] = q[k]
    BY <1>1, PrefixIs
  <2>2. Len(p) # Len(q)
    BY <1>1, <2>1, SeqEqual
  <2>3. Len(p) <= Len(q) - 1 /\ q # <<>>
    BY <1>0, <2>1, <2>2
  <2>4. \A k \in 1..Len(p) : p[k] = Front(q)[k]
    BY <1>0, <2>1, <2>3, FrontIs
  <2> QED
    BY <2>3, <2>4, FrontIs, PrefixIs
<1>2. ASSUME q # <<>>, IsPrefix(p, Front(q))
      PROVE  IsPrefix(p, q) /\ p # q
  <2>1. Len(Front(q)) = Len(q) - 1 /\ Front(q) \in Seq(S)
    BY <1>2, FrontIs
  <2>2. Len(p) <= Len(q) - 1 /\ \A k \in 1..Len(p) : p[k] = Front(q)[k]
    BY <1>2, <2>1, PrefixIs
  <2>3. \A k \in 1..Len(p) : p[k] = q[k]
    BY <1>0, <1>2, <2>2, FrontIs
  <2>4. Len(p) <= Len(q) /\ p # q
    BY <1>0, <2>2
  <2> QED
    BY <2>3, <2>4, PrefixIs
<1> QED
  BY <1>1, <1>2

LEMMA PrefixReflexive ==
  ASSUME NEW S, NEW p \in Seq(S)
  PROVE  IsPrefix(p, p)
BY PrefixIs

LEMMA PrefixTransitive ==
  ASSUME NEW S, NEW p \in Seq(S), NEW q \in Seq(S), NEW r \in Seq(S),
         IsPrefix(p, q), IsPrefix(q, r)
  PROVE  IsPrefix(p, r)
<1>1. /\ Len(p) <= Len(q) /\ \A k \in 1..Len(p) : p[k] = q[k]
      /\ Len(q) <= Len(r) /\ \A k \in 1..Len(q) : q[k] = r[k]
  BY PrefixIs
<1>2. Len(p) <= Len(r) /\ \A k \in 1..Len(p) : p[k] = r[k]
  BY <1>1
<1> QED
  BY <1>2, PrefixIs

\* The first step from a path to what lies below it.
LEMMA FirstStep ==
  ASSUME NEW S, NEW p \in Seq(S), NEW q \in Seq(S), IsPrefix(p, q), p # q
  PROVE  \E a \in Seq(S) : a # <<>> /\ Front(a) = p /\ IsPrefix(a, q)
<1> DEFINE n == Len(p) + 1
           a == [k \in 1..n |-> q[k]]
<1>1. /\ Len(p) \in Nat /\ Len(q) \in Nat
      /\ Len(p) <= Len(q) /\ \A k \in 1..Len(p) : p[k] = q[k]
  BY PrefixIs
<1>2. Len(p) # Len(q)
  BY <1>1, SeqEqual
<1>3. n \in Nat /\ n <= Len(q) /\ n # 0
  BY <1>1, <1>2
<1>4. \A k \in 1..n : q[k] \in S
  BY <1>3
<1> HIDE DEF n
<1>5. a \in Seq(S) /\ Len(a) = n /\ \A k \in 1..n : a[k] = q[k]
  BY <1>3, <1>4
<1> HIDE DEF a
<1>6. a # <<>>
  BY <1>3, <1>5
<1>7. IsPrefix(a, q)
  BY <1>3, <1>5, PrefixIs
<1>8. Front(a) = p
  <2>1. /\ Front(a) \in Seq(S) /\ Len(Front(a)) = n - 1
        /\ \A k \in 1..(n - 1) : Front(a)[k] = a[k]
    BY <1>5, <1>6, FrontIs
  <2>2. n - 1 = Len(p)
    BY <1>1 DEF n
  <2>3. \A k \in 1..Len(p) : Front(a)[k] = p[k]
    BY <1>1, <1>3, <1>5, <2>1, <2>2
  <2> QED
    BY <2>1, <2>2, <2>3, SeqEqual
<1> QED
  BY <1>5, <1>6, <1>7, <1>8
=============================================================================
