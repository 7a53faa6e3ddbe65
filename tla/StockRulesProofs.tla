-------------------------- MODULE StockRulesProofs --------------------------
(***************************************************************************)
(* How the reserved pieces change when one reference reserves or releases. *)
(* A sum over the references is the number of their pieces: that can be    *)
(* reasoned about without induction over the references.                   *)
(***************************************************************************)
EXTENDS StockRules, FiniteSets, FiniteSetTheorems, TLAPS

\* The pieces of all references but one.
Others(own, r) == UNION {{s} \X (1..own[s]) : s \in DOMAIN own \ {r}}

\* Each piece belongs to one reference.
LEMMA PiecesOf ==
  ASSUME NEW own, NEW r \in DOMAIN own
  PROVE  /\ Pieces(own) = Others(own, r) \cup ({r} \X (1..own[r]))
         /\ Others(own, r) \cap ({r} \X (1..own[r])) = {}
<1>1. Pieces(own) = Others(own, r) \cup ({r} \X (1..own[r]))
  BY DEF Pieces, Others
<1>2. Others(own, r) \cap ({r} \X (1..own[r])) = {}
  <2> SUFFICES ASSUME NEW s \in DOMAIN own \ {r}, NEW x \in {s} \X (1..own[s]),
                      x \in {r} \X (1..own[r])
               PROVE  FALSE
    BY DEF Others
  <2>1. x[1] = s /\ x[1] = r
    OBVIOUS
  <2>. QED
    BY <2>1
<1>. QED
  BY <1>1, <1>2

\* One reference has as many pieces as it reserves.
LEMMA OwnPieces ==
  ASSUME NEW r, NEW n \in Nat
  PROVE  IsFiniteSet({r} \X (1..n)) /\ Cardinality({r} \X (1..n)) = n
<1>1. IsFiniteSet(1..n) /\ Cardinality(1..n) = n
  BY FS_Interval
<1>2. IsFiniteSet({r}) /\ Cardinality({r}) = 1
  BY FS_Singleton
<1>. QED
  BY <1>1, <1>2, FS_Product

\* The number of pieces is that of the others and the reference's own.
LEMMA CountPieces ==
  ASSUME NEW own, NEW r \in DOMAIN own, own[r] \in Nat, IsFiniteSet(Others(own, r))
  PROVE  /\ IsFiniteSet(Pieces(own))
         /\ Cardinality(Pieces(own)) = Cardinality(Others(own, r)) + own[r]
<1> DEFINE A == Others(own, r)  B == {r} \X (1..own[r])
<1>1. IsFiniteSet(B) /\ Cardinality(B) = own[r]
  BY OwnPieces
<1>2. Pieces(own) = A \cup B /\ A \cap B = {}
  BY PiecesOf
<1>3. Cardinality(A) \in Nat
  BY FS_CardinalityType
<1>. HIDE DEF A, B
<1>4. /\ IsFiniteSet(A \cup B)
      /\ Cardinality(A \cup B) = Cardinality(A) + Cardinality(B) - Cardinality(A \cap B)
  BY <1>1, FS_Union DEF A
<1>5. Cardinality(A \cap B) = 0
  BY <1>2, FS_EmptySet
<1>. QED
  BY <1>1, <1>2, <1>3, <1>4, <1>5 DEF A

\* Nothing but what r reserves changes.
OnlyOf(r, own, own2) ==
  /\ r \in DOMAIN own /\ DOMAIN own2 = DOMAIN own
  /\ own[r] \in Nat /\ own2[r] \in Nat
  /\ \A s \in DOMAIN own \ {r} : own2[s] = own[s]

\* When what one reference reserves changes, the number of pieces changes by
\* as much.
LEMMA PiecesChange ==
  ASSUME NEW own, NEW own2, NEW r, OnlyOf(r, own, own2), IsFiniteSet(Pieces(own))
  PROVE  /\ IsFiniteSet(Pieces(own2))
         /\ Cardinality(Pieces(own)) \in Nat
         /\ Cardinality(Pieces(own2)) = Cardinality(Pieces(own)) - own[r] + own2[r]
<1>1. Others(own2, r) = Others(own, r)
  BY DEF Others, OnlyOf
<1>2. r \in DOMAIN own /\ r \in DOMAIN own2 /\ own[r] \in Nat /\ own2[r] \in Nat
  BY DEF OnlyOf
<1>3. IsFiniteSet(Others(own, r))
  BY <1>2, PiecesOf, FS_Subset
<1>4. Cardinality(Others(own, r)) \in Nat
  BY <1>3, FS_CardinalityType
<1>5. Cardinality(Pieces(own)) = Cardinality(Others(own, r)) + own[r]
  BY <1>2, <1>3, CountPieces
<1>6. /\ IsFiniteSet(Pieces(own2))
      /\ Cardinality(Pieces(own2)) = Cardinality(Others(own, r)) + own2[r]
  BY <1>1, <1>2, <1>3, CountPieces
<1>. QED
  BY <1>2, <1>4, <1>5, <1>6

\* Nothing reserved, no pieces.
LEMMA NoPieces ==
  ASSUME NEW own, \A r \in DOMAIN own : own[r] = 0
  PROVE  IsFiniteSet(Pieces(own)) /\ Cardinality(Pieces(own)) = 0
<1>1. Pieces(own) = {}
  BY DEF Pieces
<1>. QED
  BY <1>1, FS_EmptySet
=============================================================================
