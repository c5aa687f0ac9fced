---------------------------- MODULE WindowLemmas ----------------------------
(***************************************************************************)
(* Facts about sequences that the proofs about sliding windows share.      *)
(***************************************************************************)
EXTENDS Naturals, Sequences, SequenceTheorems, WellFoundedInduction, TLAPS

\* A set of natural numbers has a least element.
LEMMA LeastNatural ==
    ASSUME NEW S \in SUBSET Nat, S # {}
    PROVE  \E i \in S : \A j \in S : i <= j
<1>1. \E i \in S : \A j \in S : ~(<<j, i>> \in OpToRel(<, Nat))
  BY NatLessThanWellFounded, WFMin
<1>2. \A i, j \in Nat : <<j, i>> \in OpToRel(<, Nat) <=> j < i
  BY DEF OpToRel
<1>3. PICK i \in S : \A j \in S : ~(<<j, i>> \in OpToRel(<, Nat))
  BY <1>1
<1>4. \A j \in S : ~(j < i)
  BY <1>2, <1>3
<1>5. \A j \in S : i <= j
  BY <1>4
<1> QED BY <1>5

\* The first live position of a sequence, as both pruning functions choose it.
LEMMA FirstLive ==
    ASSUME NEW n \in Nat, NEW live \in SUBSET (1..n), live # {}
    PROVE  LET first == CHOOSE i \in live : \A j \in live : i <= j
           IN  first \in live /\ \A j \in live : first <= j
<1>1. live \in SUBSET Nat
  OBVIOUS
<1>2. \E i \in live : \A j \in live : i <= j
  BY <1>1, LeastNatural
<1> QED BY <1>2

\* What is left of a sequence from position k on.
LEMMA Suffix ==
    ASSUME NEW S, NEW h \in Seq(S), NEW k \in 1..Len(h)
    PROVE  LET t == SubSeq(h, k, Len(h))
           IN  /\ t \in Seq(S)
               /\ Len(t) = Len(h) - k + 1
               /\ \A i \in 1..Len(t) : k + i - 1 \in 1..Len(h) /\ t[i] = h[k + i - 1]
<1>1. h \in [1..Len(h) -> S] /\ Len(h) \in Nat /\ DOMAIN h = 1..Len(h)
  BY LenProperties
<1>2. \A i \in k..Len(h) : h[i] \in S
  BY <1>1
<1>3. /\ SubSeq(h, k, Len(h)) \in Seq(S)
      /\ Len(SubSeq(h, k, Len(h))) = Len(h) - k + 1
      /\ \A i \in 1..(Len(h) - k + 1) : SubSeq(h, k, Len(h))[i] = h[k + i - 1]
  BY <1>1, <1>2, SubSeqProperties
<1>4. \A i \in 1..(Len(h) - k + 1) : k + i - 1 \in 1..Len(h)
  BY <1>1
<1> QED BY <1>3, <1>4
=============================================================================
