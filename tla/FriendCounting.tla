--------------------------- MODULE FriendCounting ---------------------------
(* Facts about numbers of records.  They have a module of their own since  *)
(* the library's theorems on finite sets bring in a Restrict of functions, *)
(* which is not the Restrict of FriendStore.                               *)
EXTENDS Integers, FiniteSets, TLAPS

LOCAL INSTANCE FiniteSetTheorems

LEMMA FewerCount ==
  ASSUME NEW S, IsFiniteSet(S), NEW T, T \subseteq S
  PROVE  /\ IsFiniteSet(T) /\ Cardinality(T) <= Cardinality(S)
         /\ Cardinality(T) \in Nat /\ Cardinality(S) \in Nat
<1>1. T \in SUBSET S
  OBVIOUS
<1>2. IsFiniteSet(T) /\ Cardinality(T) <= Cardinality(S)
  BY <1>1, FS_Subset
<1> QED
  BY <1>2, FS_CardinalityType

LEMMA NoneCount == Cardinality({}) = 0
BY FS_EmptySet

LEMMA OneMoreCount ==
  ASSUME NEW S, IsFiniteSet(S), NEW x, NEW n \in Nat, Cardinality(S) < n,
         NEW T, T \subseteq S \cup {x}
  PROVE  Cardinality(T) <= n
<1>1. /\ IsFiniteSet(S \cup {x})
      /\ Cardinality(S \cup {x})
           = IF x \in S THEN Cardinality(S) ELSE Cardinality(S) + 1
  BY FS_AddElement, Zenon
<1>2. Cardinality(S) \in Nat
  BY FS_CardinalityType
<1>3. /\ Cardinality(T) <= Cardinality(S \cup {x}) /\ Cardinality(T) \in Nat
      /\ Cardinality(S \cup {x}) \in Nat
  BY <1>1, FewerCount
<1> QED
  BY <1>1, <1>2, <1>3

(* Different members of S are named by different members of R, and r names *)
(* none of them.                                                           *)
LEMMA NamedCount ==
  ASSUME NEW R, IsFiniteSet(R), NEW r \in R, NEW S, NEW name,
         \A x \in S : \E q \in R : q # r /\ name[q] = x
  PROVE  Cardinality(S) < Cardinality(R)
<1> DEFINE D == {q \in R : q # r /\ name[q] \in S}
           f == [q \in D |-> name[q]]
<1>1. f \in Surjection(D, S)
  BY DEF Surjection
<1>2. D \subseteq R \ {r} /\ IsFiniteSet(R \ {r})
  BY FewerCount
<1>3. IsFiniteSet(D) /\ Cardinality(D) <= Cardinality(R \ {r})
      /\ Cardinality(D) \in Nat /\ Cardinality(R \ {r}) \in Nat
  BY <1>2, FewerCount
<1>4. IsFiniteSet(S) /\ Cardinality(S) <= Cardinality(D)
  <2> HIDE DEF D, f
  <2> QED
    BY <1>1, <1>3, FS_Surjection
<1>5. Cardinality(R \ {r}) = Cardinality(R) - 1 /\ Cardinality(R) \in Nat
  BY FS_RemoveElement, FS_CardinalityType
<1>6. Cardinality(S) \in Nat
  BY <1>4, FS_CardinalityType
<1> HIDE DEF D
<1> QED
  BY <1>3, <1>4, <1>5, <1>6
=============================================================================
