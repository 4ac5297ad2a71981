--------------------- MODULE MeasurementEventMapperProofs ---------------------
(***************************************************************************)
(* The mapper reads its language, whatever the payload: a payload of any   *)
(* length is a reading exactly if it is two assignments with a semicolon   *)
(* between them, and there is one way to read it. The lemmas say of each   *)
(* step of the mapper (cutting, splitting in two, trimming, collecting the *)
(* parameters) what it returns.                                            *)
(***************************************************************************)
EXTENDS MeasurementEventMapper, FiniteSetTheorems, TLAPS

-----------------------------------------------------------------------------
(* Sets of naturals in ascending order.                                    *)

LEMMA Fewer ==
    ASSUME NEW S, IsFiniteSet(S), NEW T, T \subseteq S
    PROVE  /\ IsFiniteSet(T)
           /\ Cardinality(T) \in Nat /\ Cardinality(S) \in Nat
           /\ Cardinality(T) <= Cardinality(S)
           /\ T # S => Cardinality(T) < Cardinality(S)
  <1>1. T \in SUBSET S
    OBVIOUS
  <1>2. /\ IsFiniteSet(T) /\ Cardinality(T) <= Cardinality(S)
        /\ Cardinality(S) = Cardinality(T) => S = T
    BY <1>1, FS_Subset
  <1>3. Cardinality(T) \in Nat /\ Cardinality(S) \in Nat
    BY <1>2, FS_CardinalityType
  <1> QED
    BY <1>2, <1>3

Below(S, i) == {j \in S : j < i}

\* Members of S have as many below them as they are far from the first.
LEMMA BelowCounts ==
    ASSUME NEW S, IsFiniteSet(S), S \subseteq Nat, NEW i \in Nat
    PROVE  /\ IsFiniteSet(Below(S, i)) /\ Cardinality(Below(S, i)) \in Nat
           /\ Cardinality(Below(S, i)) <= Cardinality(S)
           /\ \A j \in Nat : j <= i => Cardinality(Below(S, j)) <= Cardinality(Below(S, i))
           /\ \A j \in S : j < i => Cardinality(Below(S, j)) < Cardinality(Below(S, i))
  <1>1. /\ Below(S, i) \subseteq S
        /\ \A j \in Nat : j <= i => Below(S, j) \subseteq Below(S, i)
        /\ \A j \in S : j < i => j \in Below(S, i) /\ j \notin Below(S, j)
    <2>1. ASSUME NEW j \in Nat, j <= i
          PROVE  Below(S, j) \subseteq Below(S, i)
      <3> SUFFICES ASSUME NEW k \in S, k < j
                   PROVE  k < i
        BY DEF Below
      <3> QED
        BY <2>1
    <2>2. ASSUME NEW j \in S, j < i
          PROVE  j \in Below(S, i) /\ j \notin Below(S, j)
      BY <2>2 DEF Below
    <2> QED
      BY <2>1, <2>2 DEF Below
  <1>2. /\ IsFiniteSet(Below(S, i)) /\ Cardinality(Below(S, i)) \in Nat
        /\ Cardinality(Below(S, i)) <= Cardinality(S)
    BY <1>1, Fewer
  <1>3. \A j \in Nat : j <= i => Cardinality(Below(S, j)) <= Cardinality(Below(S, i))
    BY <1>1, <1>2, Fewer
  <1>4. ASSUME NEW j \in S, j < i
        PROVE  Cardinality(Below(S, j)) < Cardinality(Below(S, i))
    <2>1. Below(S, j) \subseteq Below(S, i) /\ Below(S, j) # Below(S, i)
      BY <1>1, <1>4
    <2> QED
      BY <1>2, <2>1, Fewer
  <1> QED
    BY <1>2, <1>3, <1>4

\* What the definition of Nth chooses is there.
LEMMA NthInPlace ==
    ASSUME NEW S, IsFiniteSet(S), S \subseteq Nat, NEW k \in 0 .. Cardinality(S) - 1
    PROVE  Nth(S, k) \in S /\ Nth(S, k) \in Nat /\ Cardinality(Below(S, Nth(S, k))) = k
  <1> DEFINE n == Cardinality(S)
             rank == [i \in S |-> Cardinality(Below(S, i))]
  <1>1. n \in Nat
    BY FS_CardinalityType
  <1>2. ASSUME NEW i \in S
        PROVE  Cardinality(Below(S, i)) \in 0 .. n - 1
    <2>1. Below(S, i) \subseteq S /\ i \notin Below(S, i) /\ i \in Nat
      BY DEF Below
    <2>2. Below(S, i) # S
      BY <2>1
    <2> QED
      BY <1>1, <2>1, <2>2, Fewer
  <1>3. ASSUME NEW i \in S, NEW j \in S, Cardinality(Below(S, i)) = Cardinality(Below(S, j))
        PROVE  i = j
    <2>1. i \in Nat /\ j \in Nat
      OBVIOUS
    <2>2. i < j => Cardinality(Below(S, i)) < Cardinality(Below(S, j))
      BY <2>1, BelowCounts
    <2>3. j < i => Cardinality(Below(S, j)) < Cardinality(Below(S, i))
      BY <2>1, BelowCounts
    <2>4. Cardinality(Below(S, i)) \in Nat
      BY <1>2
    <2> QED
      BY <1>3, <2>1, <2>2, <2>3, <2>4
  <1>4. rank \in Injection(S, 0 .. n - 1)
    <2>1. rank \in [S -> 0 .. n - 1]
      BY <1>2
    <2>2. IsInjective(rank)
      BY <1>3 DEF IsInjective
    <2> QED
      BY <2>1, <2>2 DEF Injection
  <1>5. IsFiniteSet(0 .. n - 1) /\ Cardinality(0 .. n - 1) = n
    BY <1>1, FS_Interval
  <1>6. rank \in Surjection(S, 0 .. n - 1)
    BY <1>4, <1>5, FS_Injection
  <1>7. \E i \in S : rank[i] = k
    BY <1>6 DEF Surjection
  <1>8. \E i \in S : Cardinality({j \in S : j < i}) = k
    BY <1>7 DEF Below
  <1>9. Nth(S, k) \in S /\ Cardinality(Below(S, Nth(S, k))) = k
    BY <1>8 DEF Nth, Below
  <1> QED
    BY <1>9

\* A member comes as Nth of the number of those below it.
LEMMA NthOfRank ==
    ASSUME NEW S, IsFiniteSet(S), S \subseteq Nat, NEW i \in S
    PROVE  /\ Cardinality(Below(S, i)) \in 0 .. Cardinality(S) - 1
           /\ Nth(S, Cardinality(Below(S, i))) = i
  <1> DEFINE k == Cardinality(Below(S, i))
             j == Nth(S, k)
  <1>1. k \in 0 .. Cardinality(S) - 1
    <2>1. Below(S, i) \subseteq S /\ i \notin Below(S, i) /\ i \in Nat
      BY DEF Below
    <2>2. Below(S, i) # S
      BY <2>1
    <2> QED
      BY <2>1, <2>2, Fewer
  <1>2. j \in S /\ j \in Nat /\ i \in Nat /\ Cardinality(Below(S, j)) = k
    BY <1>1, NthInPlace
  <1>3. i < j => k < Cardinality(Below(S, j))
    BY <1>2, BelowCounts
  <1>4. j < i => Cardinality(Below(S, j)) < k
    BY <1>2, BelowCounts
  <1>5. k \in Nat
    BY <1>1
  <1>6. i = j
    BY <1>2, <1>3, <1>4, <1>5
  <1> QED
    BY <1>1, <1>6

\* Nth ascends and leaves nothing out.
LEMMA NthAscends ==
    ASSUME NEW S, IsFiniteSet(S), S \subseteq Nat,
           NEW k \in 0 .. Cardinality(S) - 1, NEW m \in 0 .. Cardinality(S) - 1
    PROVE  /\ k < m => Nth(S, k) < Nth(S, m)
           /\ k = m - 1 => \A i \in S : i <= Nth(S, k) \/ Nth(S, m) <= i
           /\ k = 0 => \A i \in S : Nth(S, k) <= i
           /\ k = Cardinality(S) - 1 => \A i \in S : i <= Nth(S, k)
  <1>0. Cardinality(S) \in Nat
    BY FS_CardinalityType
  <1>1. /\ Nth(S, k) \in S /\ Nth(S, k) \in Nat /\ Cardinality(Below(S, Nth(S, k))) = k
        /\ Nth(S, m) \in S /\ Nth(S, m) \in Nat /\ Cardinality(Below(S, Nth(S, m))) = m
    BY NthInPlace
  <1>2. ASSUME k < m PROVE Nth(S, k) < Nth(S, m)
    <2>1. Nth(S, m) <= Nth(S, k) => m <= k
      BY <1>1, BelowCounts
    <2> QED
      BY <1>0, <1>1, <1>2, <2>1
  <1>3. ASSUME NEW i \in S
        PROVE  /\ i \in Nat /\ Cardinality(Below(S, i)) \in Nat
               /\ Cardinality(Below(S, i)) <= Cardinality(S) - 1
               /\ Nth(S, k) < i => k < Cardinality(Below(S, i))
               /\ i < Nth(S, m) => Cardinality(Below(S, i)) < m
               /\ i < Nth(S, k) => Cardinality(Below(S, i)) < k
    <2>1. i \in Nat
      OBVIOUS
    <2>2. Cardinality(Below(S, i)) \in 0 .. Cardinality(S) - 1
      BY NthOfRank
    <2>3. Nth(S, k) < i => k < Cardinality(Below(S, i))
      BY <1>1, <2>1, BelowCounts
    <2>4. i < Nth(S, m) => Cardinality(Below(S, i)) < m
      BY <1>1, <2>1, BelowCounts
    <2>5. i < Nth(S, k) => Cardinality(Below(S, i)) < k
      BY <1>1, <2>1, BelowCounts
    <2> QED
      BY <1>0, <2>1, <2>2, <2>3, <2>4, <2>5
  <1>4. \A i \in S : /\ k = m - 1 => i <= Nth(S, k) \/ Nth(S, m) <= i
                     /\ k = 0 => Nth(S, k) <= i
                     /\ k = Cardinality(S) - 1 => i <= Nth(S, k)
    BY <1>0, <1>1, <1>3
  <1> QED
    BY <1>2, <1>4

\* Max and Min of a set that has some naturals.
LEMMA MaxAndMin ==
    ASSUME NEW S, IsFiniteSet(S), S \subseteq Nat, S # {}
    PROVE  /\ Max(S) \in S /\ \A i \in S : i <= Max(S)
           /\ Min(S) \in S /\ \A i \in S : Min(S) <= i
  <1> DEFINE n == Cardinality(S)
  <1>1. n \in Nat /\ n # 0
    BY FS_EmptySet, FS_CardinalityType
  <1>2. 0 \in 0 .. n - 1 /\ n - 1 \in 0 .. n - 1
    BY <1>1
  <1>3. /\ Nth(S, 0) \in S /\ \A i \in S : Nth(S, 0) <= i
        /\ Nth(S, n - 1) \in S /\ \A i \in S : i <= Nth(S, n - 1)
    BY <1>2, NthInPlace, NthAscends
  <1>4. \E i \in S : \A j \in S : i >= j
    BY <1>3
  <1>5. \E i \in S : \A j \in S : i =< j
    BY <1>3
  <1>6. Max(S) \in S /\ \A i \in S : Max(S) >= i
    BY <1>4 DEF Max
  <1>7. Min(S) \in S /\ \A i \in S : Min(S) =< i
    BY <1>5 DEF Min
  <1> QED
    BY <1>6, <1>7

-----------------------------------------------------------------------------
(* Splitting.                                                              *)

\* A part of a sequence.
LEMMA PartOf ==
    ASSUME NEW T, NEW s \in Seq(T), NEW m \in 1 .. Len(s) + 1, NEW n \in 0 .. Len(s)
    PROVE  /\ SubSeq(s, m, n) \in Seq(T)
           /\ Len(SubSeq(s, m, n)) = IF m <= n THEN n - m + 1 ELSE 0
           /\ DOMAIN SubSeq(s, m, n) = 1 .. Len(SubSeq(s, m, n))
           /\ \A i \in DOMAIN SubSeq(s, m, n) : SubSeq(s, m, n)[i] = s[i + m - 1]
           /\ SubSeq(s, m, n) = <<>> <=> n < m
  OBVIOUS

LEMMA CutsShape ==
    ASSUME NEW T, NEW s \in Seq(T), NEW separator, NEW cuts, cuts = Cuts(s, separator)
    PROVE  /\ IsFiniteSet(cuts) /\ cuts \subseteq Nat /\ cuts \subseteq 0 .. Len(s) + 1
           /\ Cardinality(cuts) \in Nat /\ Cardinality(cuts) >= 2
           /\ Nth(cuts, 0) = 0 /\ Nth(cuts, Cardinality(cuts) - 1) = Len(s) + 1
  <1>1. cuts \subseteq 0 .. Len(s) + 1 /\ 0 \in cuts /\ Len(s) + 1 \in cuts
    BY DEF Cuts
  <1>2. IsFiniteSet(0 .. Len(s) + 1)
    BY FS_Interval
  <1>3. IsFiniteSet(cuts) /\ cuts \subseteq Nat
    BY <1>1, <1>2, Fewer
  <1>4. {0, Len(s) + 1} \subseteq cuts /\ Cardinality({0, Len(s) + 1}) = 2
    <2>1. IsFiniteSet({0}) /\ Cardinality({0}) = 1
      BY FS_Singleton
    <2>2. {0, Len(s) + 1} = {0} \cup {Len(s) + 1} /\ Len(s) + 1 \notin {0}
      OBVIOUS
    <2>3. Cardinality({0} \cup {Len(s) + 1}) = 1 + 1
      BY <2>1, <2>2, FS_AddElement
    <2> QED
      BY <1>1, <2>2, <2>3
  <1>5. Cardinality(cuts) \in Nat /\ Cardinality(cuts) >= 2
    BY <1>3, <1>4, Fewer
  <1>6. /\ Nth(cuts, 0) \in cuts /\ Nth(cuts, Cardinality(cuts) - 1) \in cuts
        /\ \A i \in cuts : Nth(cuts, 0) <= i /\ i <= Nth(cuts, Cardinality(cuts) - 1)
    <2>1. 0 \in 0 .. Cardinality(cuts) - 1 /\ Cardinality(cuts) - 1 \in 0 .. Cardinality(cuts) - 1
      BY <1>5
    <2>2. Nth(cuts, 0) \in cuts /\ Nth(cuts, Cardinality(cuts) - 1) \in cuts
      BY <1>3, <2>1, NthInPlace
    <2>3. \A i \in cuts : Nth(cuts, 0) <= i
      BY <1>3, <2>1, NthAscends
    <2>4. \A i \in cuts : i <= Nth(cuts, Cardinality(cuts) - 1)
      BY <1>3, <2>1, NthAscends
    <2> QED
      BY <2>2, <2>3, <2>4
  <1> QED
    BY <1>1, <1>3, <1>5, <1>6

\* The pieces are what is between neighbouring cuts.
Between(s, separator, cuts, pieces) ==
    \A k \in 1 .. Len(pieces) :
        /\ pieces[k] = SubSeq(s, Nth(cuts, k - 1) + 1, Nth(cuts, k) - 1)
        /\ Nth(cuts, k - 1) \in 0 .. Len(s) /\ Nth(cuts, k) \in 1 .. Len(s) + 1
        /\ Nth(cuts, k - 1) < Nth(cuts, k)
        /\ Nth(cuts, k - 1) \in cuts /\ Nth(cuts, k) \in cuts
        /\ \A p \in Nth(cuts, k - 1) + 1 .. Nth(cuts, k) - 1 : s[p] # separator
        /\ pieces[k] = <<>> <=> Nth(cuts, k) = Nth(cuts, k - 1) + 1
        /\ \A p \in cuts : p <= Nth(cuts, k - 1) \/ Nth(cuts, k) <= p

\* There is one piece less than cuts, each of them a text.
LEMMA PieceShape ==
    ASSUME NEW T, NEW s \in Seq(T), NEW separator, NEW cuts, NEW pieces,
           cuts = Cuts(s, separator), pieces = Pieces(s, separator)
    PROVE  /\ pieces \in Seq(Seq(T)) /\ Len(pieces) = Cardinality(cuts) - 1
           /\ Between(s, separator, cuts, pieces)
  <1>1. /\ IsFiniteSet(cuts) /\ cuts \subseteq Nat /\ cuts \subseteq 0 .. Len(s) + 1
        /\ Cardinality(cuts) \in Nat /\ Cardinality(cuts) >= 2
    BY CutsShape
  <1>2. ASSUME NEW m \in 1 .. Cardinality(cuts) - 1
        PROVE  /\ Nth(cuts, m - 1) \in cuts /\ Nth(cuts, m) \in cuts
               /\ Nth(cuts, m - 1) < Nth(cuts, m)
               /\ \A i \in cuts : i <= Nth(cuts, m - 1) \/ Nth(cuts, m) <= i
    <2>1. m - 1 \in 0 .. Cardinality(cuts) - 1 /\ m \in 0 .. Cardinality(cuts) - 1 /\ m - 1 < m
      BY <1>1
    <2> QED
      BY <1>1, <2>1, NthInPlace, NthAscends
  <1>3. ASSUME NEW m \in 1 .. Cardinality(cuts) - 1
        PROVE  /\ SubSeq(s, Nth(cuts, m - 1) + 1, Nth(cuts, m) - 1) \in Seq(T)
               /\ Nth(cuts, m - 1) \in 0 .. Len(s) /\ Nth(cuts, m) \in 1 .. Len(s) + 1
               /\ SubSeq(s, Nth(cuts, m - 1) + 1, Nth(cuts, m) - 1) = <<>>
                     <=> Nth(cuts, m) = Nth(cuts, m - 1) + 1
    <2>1. Nth(cuts, m - 1) \in 0 .. Len(s) /\ Nth(cuts, m) \in 1 .. Len(s) + 1
      BY <1>1, <1>2
    <2>2. Nth(cuts, m - 1) + 1 \in 1 .. Len(s) + 1 /\ Nth(cuts, m) - 1 \in 0 .. Len(s)
      BY <2>1
    <2>3. /\ SubSeq(s, Nth(cuts, m - 1) + 1, Nth(cuts, m) - 1) \in Seq(T)
          /\ SubSeq(s, Nth(cuts, m - 1) + 1, Nth(cuts, m) - 1) = <<>>
                <=> Nth(cuts, m) - 1 < Nth(cuts, m - 1) + 1
      BY <2>2, PartOf
    <2> QED
      BY <1>2, <2>1, <2>3
  <1>4. pieces = [m \in 1 .. Cardinality(cuts) - 1 |->
                     SubSeq(s, Nth(cuts, m - 1) + 1, Nth(cuts, m) - 1)]
    BY DEF Pieces
  <1>5. pieces \in Seq(Seq(T)) /\ Len(pieces) = Cardinality(cuts) - 1
    <2>1. pieces \in [1 .. Cardinality(cuts) - 1 -> Seq(T)]
      BY <1>3, <1>4
    <2> QED
      BY <1>1, <2>1
  <1>6. ASSUME NEW m \in 1 .. Cardinality(cuts) - 1,
               NEW p \in Nth(cuts, m - 1) + 1 .. Nth(cuts, m) - 1, s[p] = separator
        PROVE  FALSE
    <2>1. PICK a, b : a = Nth(cuts, m - 1) /\ b = Nth(cuts, m)
      OBVIOUS
    <2>2. a \in 0 .. Len(s) /\ b \in 1 .. Len(s) + 1
      BY <1>3, <2>1
    <2>3. p \in 1 .. Len(s) /\ a < p /\ p < b
      BY <1>6, <2>1, <2>2
    <2>4. p \in cuts
      BY <1>6, <2>3 DEF Cuts
    <2>5. p <= a \/ b <= p
      BY <1>2, <2>1, <2>4
    <2> QED
      BY <2>2, <2>3, <2>5
  <1>7. ASSUME NEW m \in 1 .. Cardinality(cuts) - 1
        PROVE  pieces[m] = SubSeq(s, Nth(cuts, m - 1) + 1, Nth(cuts, m) - 1)
    BY <1>4, Zenon
  <1>8. 1 .. Len(pieces) = 1 .. Cardinality(cuts) - 1
    BY <1>5, Zenon
  <1>9. Between(s, separator, cuts, pieces)
    BY <1>2, <1>3, <1>6, <1>7, <1>8, Zenon DEF Between
  <1> QED
    BY <1>5, <1>9

\* The first m of some.
LEMMA PrefixOf ==
    ASSUME NEW T, NEW s \in Seq(T), NEW m \in 0 .. Len(s)
    PROVE  /\ SubSeq(s, 1, m) \in Seq(T) /\ Len(SubSeq(s, 1, m)) = m
           /\ \A k \in 1 .. m : SubSeq(s, 1, m)[k] = s[k]
  OBVIOUS

\* What is left without the empty pieces at the end are two pieces exactly if
\* the second is not empty and all after it are.
LEMMA TwoAreLeft ==
    ASSUME NEW U, NEW pieces \in Seq(U), Len(pieces) >= 1, NEW parts, parts = Remaining(pieces)
    PROVE  /\ parts \in Seq(U)
           /\ Len(parts) = 2 <=> /\ Len(pieces) >= 2 /\ pieces[2] # <<>>
                                 /\ \A k \in 3 .. Len(pieces) : pieces[k] = <<>>
           /\ Len(parts) = 2 => parts[1] = pieces[1] /\ parts[2] = pieces[2]
  <1> DEFINE filled == {k \in DOMAIN pieces : pieces[k] # <<>>}
  <1>0. Len(pieces) \in Nat /\ DOMAIN pieces = 1 .. Len(pieces)
    OBVIOUS
  <1>1. CASE Len(pieces) = 1
    BY <1>0, <1>1 DEF Remaining
  <1>2. CASE Len(pieces) # 1
    <2>1. PICK m : m = Max(filled \cup {0})
      OBVIOUS
    <2>2. m \in filled \cup {0} /\ \A k \in filled \cup {0} : k <= m
      <3>1. filled \cup {0} \subseteq 0 .. Len(pieces)
        BY <1>0
      <3>2. IsFiniteSet(0 .. Len(pieces))
        BY <1>0, FS_Interval
      <3>3. IsFiniteSet(filled \cup {0})
        BY <3>1, <3>2, Fewer
      <3>4. filled \cup {0} \subseteq Nat /\ filled \cup {0} # {}
        BY <3>1
      <3> QED
        BY <2>1, <3>3, <3>4, MaxAndMin
    <2>3. /\ m \in 0 .. Len(pieces)
          /\ m > 0 => pieces[m] # <<>>
          /\ \A k \in 1 .. Len(pieces) : pieces[k] # <<>> => k <= m
      BY <1>0, <2>2
    <2>4. parts = SubSeq(pieces, 1, m)
      BY <1>2, <2>1, Zenon DEF Remaining
    <2>5. /\ parts \in Seq(U) /\ Len(parts) = m
          /\ \A k \in 1 .. m : parts[k] = pieces[k]
      <3>1. /\ SubSeq(pieces, 1, m) \in Seq(U) /\ Len(SubSeq(pieces, 1, m)) = m
            /\ \A k \in 1 .. m : SubSeq(pieces, 1, m)[k] = pieces[k]
        BY <2>3, PrefixOf
      <3> QED
        BY <2>4, <3>1, Zenon
    <2>6. ASSUME m = 2
          PROVE  /\ Len(pieces) >= 2 /\ pieces[2] # <<>>
                 /\ \A k \in 3 .. Len(pieces) : pieces[k] = <<>>
      BY <1>0, <2>3, <2>6
    <2>7. ASSUME Len(pieces) >= 2, pieces[2] # <<>>,
                 \A k \in 3 .. Len(pieces) : pieces[k] = <<>>
          PROVE  m = 2
      <3>1. 2 <= m
        BY <1>0, <2>3, <2>7
      <3>2. m \in 1 .. Len(pieces) /\ pieces[m] # <<>>
        BY <2>3, <3>1
      <3> QED
        BY <1>0, <2>7, <3>1, <3>2
    <2>8. m = 2 => parts[1] = pieces[1] /\ parts[2] = pieces[2]
      <3>1. m = 2 => 1 \in 1 .. m /\ 2 \in 1 .. m
        OBVIOUS
      <3> QED
        BY <2>5, <3>1, Zenon
    <2>9. Len(parts) = 2 <=> m = 2
      BY <2>5
    <2> QED
      BY <2>5, <2>6, <2>7, <2>8, <2>9, Zenon
  <1> QED
    BY <1>1, <1>2

LEMMA SplitShape ==
    ASSUME NEW T, NEW s \in Seq(T), NEW separator, NEW pieces, NEW parts,
           pieces = Pieces(s, separator), parts = Split(s, separator)
    PROVE  /\ parts \in Seq(Seq(T))
           /\ Len(parts) = 2 <=> /\ Len(pieces) >= 2 /\ pieces[2] # <<>>
                                 /\ \A k \in 3 .. Len(pieces) : pieces[k] = <<>>
           /\ Len(parts) = 2 => parts[1] = pieces[1] /\ parts[2] = pieces[2]
  <1>1. pieces \in Seq(Seq(T)) /\ Len(pieces) >= 1
    <2> DEFINE cuts == Cuts(s, separator)
    <2>1. Cardinality(cuts) \in Nat /\ Cardinality(cuts) >= 2
      BY CutsShape
    <2>2. pieces \in Seq(Seq(T)) /\ Len(pieces) = Cardinality(cuts) - 1
      BY PieceShape
    <2> QED
      BY <2>1, <2>2
  <1>2. parts = Remaining(pieces)
    BY Zenon DEF Split
  <1> QED
    BY <1>1, <1>2, TwoAreLeft

\* s is cut in two at i, and again after j, where nothing but separators are.
InTwo(s, separator, i, j) ==
    /\ i \in DOMAIN s /\ j \in i + 1 .. Len(s)
    /\ s[i] = separator
    /\ Free(SubSeq(s, 1, i - 1), separator)
    /\ Free(SubSeq(s, i + 1, j), separator)
    /\ Only(SubSeq(s, j + 1, Len(s)), {separator})

LEMMA PlacesOf ==
    ASSUME NEW T, NEW s \in Seq(T)
    PROVE  DOMAIN s = 1 .. Len(s) /\ \A k \in DOMAIN s : s[k] \in T
  OBVIOUS

\* Each of two parts is a sequence.
LEMMA TwoParts ==
    ASSUME NEW T, NEW s \in Seq(T), NEW separator, Len(Split(s, separator)) = 2
    PROVE  /\ DOMAIN Split(s, separator) = {1, 2}
           /\ \A k \in {1, 2} : Split(s, separator)[k] \in Seq(T)
  <1>1. PICK parts : parts = Split(s, separator)
    OBVIOUS
  <1>2. parts \in Seq(Seq(T)) /\ Len(parts) = 2
    BY <1>1, SplitShape
  <1>3. DOMAIN parts = {1, 2} /\ \A k \in {1, 2} : parts[k] \in Seq(T)
    <2>1. DOMAIN parts = 1 .. Len(parts) /\ \A k \in DOMAIN parts : parts[k] \in Seq(T)
      BY <1>2, PlacesOf
    <2> QED
      BY <1>2, <2>1
  <1> QED
    BY <1>1, <1>3

\* Free and Only, of a part of s, by places of s.
LEMMA PartIs ==
    ASSUME NEW T, NEW s \in Seq(T), NEW m \in 1 .. Len(s) + 1, NEW n \in 0 .. Len(s)
    PROVE  /\ \A t : Free(SubSeq(s, m, n), t) <=> \A p \in m .. n : s[p] # t
           /\ \A U : Only(SubSeq(s, m, n), U) <=> \A p \in m .. n : s[p] \in U
  <1> DEFINE q == SubSeq(s, m, n)
  <1>1. /\ DOMAIN q = 1 .. IF m <= n THEN n - m + 1 ELSE 0
        /\ \A i \in DOMAIN q : q[i] = s[i + m - 1]
    BY PartOf
  <1>2. \A p \in m .. n : p - m + 1 \in DOMAIN q /\ q[p - m + 1] = s[p]
    <2>1. \A p \in m .. n : p - m + 1 \in DOMAIN q /\ (p - m + 1) + m - 1 = p
      BY <1>1
    <2> QED
      BY <1>1, <2>1
  <1>3. \A i \in DOMAIN q : i + m - 1 \in m .. n
    BY <1>1
  <1> HIDE DEF q
  <1>4. ASSUME NEW t
        PROVE  Free(q, t) <=> \A p \in m .. n : s[p] # t
    BY <1>1, <1>2, <1>3, Zenon DEF Free
  <1>5. ASSUME NEW U
        PROVE  Only(q, U) <=> \A p \in m .. n : s[p] \in U
    BY <1>1, <1>2, <1>3, Zenon DEF Only
  <1> QED
    BY <1>4, <1>5 DEF q

LEMMA InTwoPlaces ==
    ASSUME NEW T, NEW s \in Seq(T), NEW separator, NEW i \in 1 .. Len(s), NEW j \in i + 1 .. Len(s)
    PROVE  InTwo(s, separator, i, j) <=>
              /\ s[i] = separator
              /\ \A p \in 1 .. i - 1 : s[p] # separator
              /\ \A p \in i + 1 .. j : s[p] # separator
              /\ \A p \in j + 1 .. Len(s) : s[p] = separator
  <1>1. Free(SubSeq(s, 1, i - 1), separator) <=> \A p \in 1 .. i - 1 : s[p] # separator
    <2>1. 1 \in 1 .. Len(s) + 1 /\ i - 1 \in 0 .. Len(s)
      OBVIOUS
    <2> QED
      BY <2>1, PartIs
  <1>2. Free(SubSeq(s, i + 1, j), separator) <=> \A p \in i + 1 .. j : s[p] # separator
    <2>1. i + 1 \in 1 .. Len(s) + 1 /\ j \in 0 .. Len(s)
      OBVIOUS
    <2> QED
      BY <2>1, PartIs
  <1>3. Only(SubSeq(s, j + 1, Len(s)), {separator}) <=> \A p \in j + 1 .. Len(s) : s[p] = separator
    <2>1. j + 1 \in 1 .. Len(s) + 1 /\ Len(s) \in 0 .. Len(s)
      OBVIOUS
    <2>2. Only(SubSeq(s, j + 1, Len(s)), {separator})
             <=> \A p \in j + 1 .. Len(s) : s[p] \in {separator}
      BY <2>1, PartIs
    <2> QED
      BY <2>2
  <1>4. i \in DOMAIN s /\ j \in i + 1 .. Len(s)
    OBVIOUS
  <1> QED
    BY <1>1, <1>2, <1>3, <1>4, Zenon DEF InTwo

\* A number that is not in S is between two neighbours, if some is above it.
LEMMA BetweenNeighbours ==
    ASSUME NEW S, IsFiniteSet(S), S \subseteq Nat, NEW p \in Nat, p \notin S,
           NEW k, k = Cardinality(Below(S, p)), \E top \in S : p < top
    PROVE  /\ k \in 0 .. Cardinality(S) - 1 /\ p < Nth(S, k)
           /\ k > 0 => Nth(S, k - 1) < p
           /\ \A m \in 0 .. Cardinality(S) - 1 : Nth(S, m) < p => m < k
  <1>0. Cardinality(S) \in Nat
    BY FS_CardinalityType
  <1>1. k \in 0 .. Cardinality(S) - 1
    <2>1. Below(S, p) \subseteq S /\ \E top \in S : top \notin Below(S, p)
      BY DEF Below
    <2>2. Below(S, p) # S
      BY <2>1
    <2> QED
      BY <1>0, <2>1, <2>2, Fewer
  <1>2. ASSUME NEW m \in 0 .. Cardinality(S) - 1
        PROVE  /\ Nth(S, m) \in S /\ Nth(S, m) \in Nat /\ Nth(S, m) # p
               /\ Nth(S, m) < p => m < k
               /\ p < Nth(S, m) => k <= m
    <2>1. /\ Nth(S, m) \in S /\ Nth(S, m) \in Nat /\ Nth(S, m) # p
          /\ Cardinality(Below(S, Nth(S, m))) = m
      BY NthInPlace
    <2>2. Nth(S, m) < p => Cardinality(Below(S, Nth(S, m))) < Cardinality(Below(S, p))
      BY <2>1, BelowCounts
    <2>3. p <= Nth(S, m) => Cardinality(Below(S, p)) <= Cardinality(Below(S, Nth(S, m)))
      BY <2>1, BelowCounts
    <2> QED
      BY <2>1, <2>2, <2>3
  <1>3. p < Nth(S, k)
    BY <1>1, <1>2
  <1>4. k > 0 => Nth(S, k - 1) < p
    <2> SUFFICES ASSUME k > 0 PROVE Nth(S, k - 1) < p
      OBVIOUS
    <2>1. k - 1 \in 0 .. Cardinality(S) - 1 /\ ~(k <= k - 1)
      BY <1>0, <1>1
    <2> QED
      BY <1>2, <2>1
  <1> QED
    BY <1>1, <1>2, <1>3, <1>4

\* The cuts and the pieces, from one end of the text to the other.
LEMMA PiecesBetweenCuts ==
    ASSUME NEW T, NEW s \in Seq(T), NEW separator, NEW cuts, NEW pieces,
           cuts = Cuts(s, separator), pieces = Pieces(s, separator)
    PROVE  /\ IsFiniteSet(cuts) /\ cuts \subseteq Nat /\ cuts \subseteq 0 .. Len(s) + 1
           /\ Cardinality(cuts) \in Nat /\ Cardinality(cuts) >= 2
           /\ Nth(cuts, 0) = 0 /\ Nth(cuts, Cardinality(cuts) - 1) = Len(s) + 1
           /\ Len(pieces) = Cardinality(cuts) - 1
           /\ Between(s, separator, cuts, pieces)
  BY CutsShape, PieceShape

\* What split returns if it returns two parts, and when it does.
LEMMA SplitTwoOnly ==
    ASSUME NEW T, NEW s \in Seq(T), NEW separator, Len(Split(s, separator)) = 2
    PROVE  \E i \in 1 .. Len(s) : \E j \in i + 1 .. Len(s) :
              /\ InTwo(s, separator, i, j)
              /\ Split(s, separator)[1] = SubSeq(s, 1, i - 1)
              /\ Split(s, separator)[2] = SubSeq(s, i + 1, j)
  <1>1. PICK cuts, pieces, parts : /\ cuts = Cuts(s, separator) /\ pieces = Pieces(s, separator)
                                   /\ parts = Split(s, separator)
    OBVIOUS
  <1>2. /\ IsFiniteSet(cuts) /\ cuts \subseteq Nat /\ cuts \subseteq 0 .. Len(s) + 1
        /\ Cardinality(cuts) \in Nat /\ Cardinality(cuts) >= 2
        /\ Nth(cuts, 0) = 0 /\ Nth(cuts, Cardinality(cuts) - 1) = Len(s) + 1
        /\ Len(pieces) = Cardinality(cuts) - 1
    BY <1>1, PiecesBetweenCuts
  <1>3. /\ Len(pieces) >= 2 /\ pieces[2] # <<>>
        /\ \A k \in 3 .. Len(pieces) : pieces[k] = <<>>
        /\ parts[1] = pieces[1] /\ parts[2] = pieces[2]
    BY <1>1, SplitShape
  <1>4. \A k \in 1 .. Len(pieces) :
           /\ pieces[k] = SubSeq(s, Nth(cuts, k - 1) + 1, Nth(cuts, k) - 1)
           /\ Nth(cuts, k - 1) \in 0 .. Len(s) /\ Nth(cuts, k) \in 1 .. Len(s) + 1
           /\ Nth(cuts, k - 1) < Nth(cuts, k)
           /\ Nth(cuts, k - 1) \in cuts /\ Nth(cuts, k) \in cuts
           /\ \A p \in Nth(cuts, k - 1) + 1 .. Nth(cuts, k) - 1 : s[p] # separator
           /\ pieces[k] = <<>> <=> Nth(cuts, k) = Nth(cuts, k - 1) + 1
           /\ \A p \in cuts : p <= Nth(cuts, k - 1) \/ Nth(cuts, k) <= p
    <2>1. Between(s, separator, cuts, pieces)
      BY <1>1, PiecesBetweenCuts
    <2> QED
      BY <2>1, Zenon DEF Between
  <1>6. PICK i, j : i = Nth(cuts, 1) /\ j = Nth(cuts, 2) - 1
    OBVIOUS
  <1>7. /\ pieces[1] = SubSeq(s, 1, i - 1) /\ i \in 1 .. Len(s) + 1 /\ i \in cuts
        /\ \A p \in 1 .. i - 1 : s[p] # separator
    <2>1. 1 \in 1 .. Len(pieces) /\ 1 - 1 = 0 /\ 0 + 1 = 1
      BY <1>2, <1>3
    <2>2. /\ pieces[1] = SubSeq(s, Nth(cuts, 0) + 1, i - 1) /\ i \in 1 .. Len(s) + 1 /\ i \in cuts
          /\ \A p \in Nth(cuts, 0) + 1 .. i - 1 : s[p] # separator
      BY <1>4, <1>6, <2>1
    <2> QED
      BY <1>2, <2>1, <2>2
  <1>8. /\ pieces[2] = SubSeq(s, i + 1, j) /\ i \in 0 .. Len(s) /\ j \in Int /\ j + 1 \in 1 .. Len(s) + 1
        /\ i < j + 1 /\ j + 1 \in cuts /\ j + 1 # i + 1 /\ j + 1 = Nth(cuts, 2)
        /\ \A p \in i + 1 .. j : s[p] # separator
    <2>1. 2 \in 1 .. Len(pieces) /\ 2 - 1 = 1
      BY <1>2, <1>3
    <2>2. Nth(cuts, 2) \in 1 .. Len(s) + 1
      BY <1>4, <2>1
    <2>3. j \in Int /\ j + 1 = Nth(cuts, 2)
      BY <1>6, <2>2
    <2> QED
      BY <1>3, <1>4, <1>6, <2>1, <2>3
  <1>9. i \in 1 .. Len(s) /\ j \in i + 1 .. Len(s) /\ s[i] = separator
    <2>1. i \in 1 .. Len(s) /\ j \in i + 1 .. Len(s)
      BY <1>7, <1>8
    <2> QED
      BY <1>1, <1>7, <2>1 DEF Cuts
  <1>10. ASSUME NEW p \in j + 1 .. Len(s), s[p] # separator
         PROVE  FALSE
    <2>1. p \in 1 .. Len(s) /\ p \in Nat /\ p \notin cuts /\ j + 1 < p
      <3>1. p \in 1 .. Len(s)
        BY <1>9
      <3>2. p \notin cuts
        BY <1>1, <1>10, <3>1 DEF Cuts
      <3>3. p # j + 1
        BY <1>8, <3>2
      <3> QED
        BY <1>9, <3>1, <3>2, <3>3
    <2>2. PICK k : k = Cardinality(Below(cuts, p))
      OBVIOUS
    <2>3. \E top \in cuts : p < top
      BY <1>1, <2>1 DEF Cuts
    <2>4. /\ k \in 0 .. Cardinality(cuts) - 1 /\ p < Nth(cuts, k)
          /\ k > 0 => Nth(cuts, k - 1) < p
          /\ \A m \in 0 .. Cardinality(cuts) - 1 : Nth(cuts, m) < p => m < k
      <3>1. IsFiniteSet(cuts) /\ cuts \subseteq Nat /\ p \in Nat /\ p \notin cuts
        BY <1>2, <2>1
      <3> QED
        BY <2>2, <2>3, <3>1, BetweenNeighbours
    <2>5. 2 < k
      <3>1. 2 \in 0 .. Cardinality(cuts) - 1
        BY <1>2, <1>3
      <3> QED
        BY <1>8, <2>1, <2>4, <3>1
    <2>6. k \in 3 .. Len(pieces) /\ k \in 1 .. Len(pieces)
      BY <1>2, <2>4, <2>5
    <2>7. /\ Nth(cuts, k) = Nth(cuts, k - 1) + 1
          /\ Nth(cuts, k - 1) \in 0 .. Len(s)
      BY <1>3, <1>4, <2>6
    <2>8. Nth(cuts, k - 1) < p
      BY <2>4, <2>5
    <2> QED
      BY <2>1, <2>4, <2>7, <2>8
  <1>11. InTwo(s, separator, i, j)
    BY <1>7, <1>8, <1>9, <1>10, InTwoPlaces
  <1> QED
    BY <1>1, <1>3, <1>7, <1>8, <1>9, <1>11

LEMMA SplitTwoWhenInTwo ==
    ASSUME NEW T, NEW s \in Seq(T), NEW separator,
           NEW i \in 1 .. Len(s), NEW j \in i + 1 .. Len(s), InTwo(s, separator, i, j)
    PROVE  /\ Len(Split(s, separator)) = 2
           /\ Split(s, separator)[1] = SubSeq(s, 1, i - 1)
           /\ Split(s, separator)[2] = SubSeq(s, i + 1, j)
  <1>1. PICK cuts, pieces, parts : /\ cuts = Cuts(s, separator) /\ pieces = Pieces(s, separator)
                                   /\ parts = Split(s, separator)
    OBVIOUS
  <1>2. /\ IsFiniteSet(cuts) /\ cuts \subseteq Nat /\ cuts \subseteq 0 .. Len(s) + 1
        /\ Cardinality(cuts) \in Nat /\ Cardinality(cuts) >= 2
        /\ Nth(cuts, 0) = 0 /\ Nth(cuts, Cardinality(cuts) - 1) = Len(s) + 1
        /\ Len(pieces) = Cardinality(cuts) - 1
    BY <1>1, PiecesBetweenCuts
  <1>3. /\ s[i] = separator
        /\ \A p \in 1 .. i - 1 : s[p] # separator
        /\ \A p \in i + 1 .. j : s[p] # separator
        /\ \A p \in j + 1 .. Len(s) : s[p] = separator
    BY InTwoPlaces
  <1>4. \A k \in 1 .. Len(pieces) :
           /\ pieces[k] = SubSeq(s, Nth(cuts, k - 1) + 1, Nth(cuts, k) - 1)
           /\ Nth(cuts, k - 1) \in 0 .. Len(s) /\ Nth(cuts, k) \in 1 .. Len(s) + 1
           /\ Nth(cuts, k - 1) < Nth(cuts, k)
           /\ Nth(cuts, k - 1) \in cuts /\ Nth(cuts, k) \in cuts
           /\ \A p \in Nth(cuts, k - 1) + 1 .. Nth(cuts, k) - 1 : s[p] # separator
           /\ pieces[k] = <<>> <=> Nth(cuts, k) = Nth(cuts, k - 1) + 1
           /\ \A p \in cuts : p <= Nth(cuts, k - 1) \/ Nth(cuts, k) <= p
    <2>1. Between(s, separator, cuts, pieces)
      BY <1>1, PiecesBetweenCuts
    <2> QED
      BY <2>1, Zenon DEF Between
  <1>6. i \in cuts /\ j + 1 \in cuts
    BY <1>1, <1>3 DEF Cuts
  <1>7. \A p \in cuts : p # 0 /\ p # Len(s) + 1 => p \in 1 .. Len(s) /\ s[p] = separator
    BY <1>1 DEF Cuts
  <1>8. Nth(cuts, 1) = i
    <2>1. 1 \in 1 .. Len(pieces) /\ 1 - 1 = 0
      BY <1>2
    <2>2. Nth(cuts, 1) \in 1 .. Len(s) + 1 /\ Nth(cuts, 1) \in cuts /\ 0 < Nth(cuts, 1) /\ (i <= 0 \/ Nth(cuts, 1) <= i)
      BY <1>2, <1>4, <1>6, <2>1
    <2>3. Nth(cuts, 1) \in 1 .. i
      BY <1>2, <2>2
    <2> QED
      BY <1>3, <1>7, <2>2, <2>3
  <1>9. Len(pieces) >= 2
    BY <1>2, <1>8
  <1>10. Nth(cuts, 2) = j + 1
    <2>1. 2 \in 1 .. Len(pieces) /\ 2 - 1 = 1
      BY <1>2, <1>9
    <2>2. Nth(cuts, 2) \in 1 .. Len(s) + 1 /\ Nth(cuts, 2) \in cuts /\ i < Nth(cuts, 2) /\ (j + 1 <= i \/ Nth(cuts, 2) <= j + 1)
      BY <1>4, <1>6, <1>8, <2>1
    <2>3. Nth(cuts, 2) \in i + 1 .. j + 1
      BY <1>2, <2>2
    <2> QED
      BY <1>3, <1>7, <2>2, <2>3
  <1>11. pieces[1] = SubSeq(s, 1, i - 1)
    <2>1. 1 \in 1 .. Len(pieces) /\ 1 - 1 = 0 /\ 0 + 1 = 1
      BY <1>2
    <2> QED
      BY <1>2, <1>4, <1>8, <2>1
  <1>12. pieces[2] = SubSeq(s, i + 1, j) /\ pieces[2] # <<>>
    <2>1. 2 \in 1 .. Len(pieces) /\ 2 - 1 = 1 /\ j + 1 - 1 = j /\ j + 1 # i + 1
      BY <1>2, <1>9
    <2>2. /\ pieces[2] = SubSeq(s, Nth(cuts, 1) + 1, Nth(cuts, 2) - 1)
          /\ pieces[2] = <<>> <=> Nth(cuts, 2) = Nth(cuts, 1) + 1
      BY <1>4, <2>1
    <2> QED
      BY <1>8, <1>10, <2>1, <2>2
  <1>13. ASSUME NEW k \in 3 .. Len(pieces)
         PROVE  pieces[k] = <<>>
    <2> DEFINE a == Nth(cuts, k - 1)
               b == Nth(cuts, k)
    <2>1. k \in 1 .. Len(pieces)
      BY <1>2
    <2>2. /\ a \in 0 .. Len(s) /\ b \in 1 .. Len(s) + 1 /\ a < b
          /\ \A p \in a + 1 .. b - 1 : s[p] # separator
          /\ pieces[k] = <<>> <=> b = a + 1
      BY <1>4, <2>1
    <2>3. j + 1 <= a
      <3>1. k - 1 \in 0 .. Cardinality(cuts) - 1 /\ 2 \in 0 .. Cardinality(cuts) - 1
        BY <1>2
      <3>2. 2 < k - 1 => Nth(cuts, 2) < a
        BY <1>2, <3>1, NthAscends
      <3>3. k - 1 = 2 \/ 2 < k - 1
        BY <1>2
      <3> QED
        BY <1>10, <2>2, <3>2, <3>3
    <2>4. b # a + 1 => a + 1 \in a + 1 .. b - 1 /\ a + 1 \in j + 1 .. Len(s)
      BY <2>2, <2>3
    <2> QED
      BY <1>3, <2>2, <2>4
  <1>14. Len(parts) = 2 /\ parts[1] = pieces[1] /\ parts[2] = pieces[2]
    <2>1. /\ Len(pieces) >= 2 /\ pieces[2] # <<>>
          /\ \A k \in 3 .. Len(pieces) : pieces[k] = <<>>
      BY <1>9, <1>12, <1>13
    <2> QED
      BY <1>1, <2>1, SplitShape
  <1> QED
    BY <1>1, <1>11, <1>12, <1>14

-----------------------------------------------------------------------------
(* Trimming.                                                               *)

\* s is text with blanks around it exactly if trim returns text.
LEMMA TrimIsPadded ==
    ASSUME NEW T, NEW s \in Seq(T), NEW text
    PROVE  Padded(s, text) <=> text = Trim(s)
  <1> DEFINE filled == {i \in DOMAIN s : s[i] # Blank}
             Around(i, j) == /\ SubSeq(s, i + 1, j) = text
                             /\ Only(SubSeq(s, 1, i), {Blank})
                             /\ Only(SubSeq(s, j + 1, Len(s)), {Blank})
                             /\ text # <<>> => text[1] # Blank /\ Last(text) # Blank
  <1>0. Len(s) \in Nat /\ DOMAIN s = 1 .. Len(s)
    OBVIOUS
  <1>1. ASSUME NEW i \in 0 .. Len(s), NEW j \in i .. Len(s)
        PROVE  Around(i, j) <=>
                  /\ SubSeq(s, i + 1, j) = text
                  /\ \A p \in 1 .. i : s[p] = Blank
                  /\ \A p \in j + 1 .. Len(s) : s[p] = Blank
                  /\ i < j => s[i + 1] # Blank /\ s[j] # Blank
    <2>1. /\ 1 \in 1 .. Len(s) + 1 /\ i \in 0 .. Len(s) /\ i + 1 \in 1 .. Len(s) + 1
          /\ j \in 0 .. Len(s) /\ j + 1 \in 1 .. Len(s) + 1 /\ Len(s) \in 0 .. Len(s)
      OBVIOUS
    <2>2. Only(SubSeq(s, 1, i), {Blank}) <=> \A p \in 1 .. i : s[p] \in {Blank}
      BY <2>1, PartIs
    <2>3. Only(SubSeq(s, j + 1, Len(s)), {Blank}) <=> \A p \in j + 1 .. Len(s) : s[p] \in {Blank}
      BY <2>1, PartIs
    <2>4. ASSUME SubSeq(s, i + 1, j) = text
          PROVE  /\ text # <<>> <=> i < j
                 /\ i < j => text[1] = s[i + 1] /\ Last(text) = s[j]
      <3>1. /\ Len(text) = IF i + 1 <= j THEN j - (i + 1) + 1 ELSE 0
            /\ DOMAIN text = 1 .. Len(text)
            /\ \A p \in DOMAIN text : text[p] = s[p + (i + 1) - 1]
            /\ text = <<>> <=> j < i + 1
        BY <2>1, <2>4, PartOf
      <3>2. i < j => 1 \in DOMAIN text /\ Len(text) \in DOMAIN text /\ Len(text) = j - i
        BY <3>1
      <3> QED
        BY <3>1, <3>2 DEF Last
    <2> QED
      BY <2>2, <2>3, <2>4
  <1>2. Padded(s, text) <=> \E i \in 0 .. Len(s) : \E j \in i .. Len(s) : Around(i, j)
    BY DEF Padded
  <1> HIDE DEF Around
  <1>5. Trim(s) = IF filled = {} THEN <<>> ELSE SubSeq(s, Min(filled), Max(filled))
    BY Zenon DEF Trim
  <1>6. /\ filled \subseteq 1 .. Len(s)
        /\ \A p \in filled : s[p] # Blank
        /\ \A p \in 1 .. Len(s) : s[p] # Blank => p \in filled
    BY <1>0
  <1> HIDE DEF filled
  <1>3. CASE filled = {}
    <2>1. Trim(s) = <<>> /\ \A p \in 1 .. Len(s) : s[p] = Blank
      BY <1>3, <1>5, <1>6
    <2>2. ASSUME NEW i \in 0 .. Len(s), NEW j \in i .. Len(s), Around(i, j)
          PROVE  text = <<>>
      BY <1>0, <1>1, <2>1, <2>2
    <2>3. text = <<>> => Around(0, 0)
      BY <1>0, <1>1, <2>1
    <2> QED
      BY <1>0, <1>2, <2>1, <2>2, <2>3
  <1>4. CASE filled # {}
    <2>1. PICK a, b : a = Min(filled) /\ b = Max(filled)
      OBVIOUS
    <2>2. Trim(s) = SubSeq(s, a, b)
      BY <1>0, <1>5, <1>4, <2>1
    <2>3. a \in filled /\ b \in filled /\ \A p \in filled : a <= p /\ p <= b
      <3>1. IsFiniteSet(1 .. Len(s))
        BY <1>0, FS_Interval
      <3>2. IsFiniteSet(filled)
        BY <1>6, <3>1, Fewer
      <3>3. filled \subseteq Nat
        BY <1>6
      <3> QED
        BY <1>4, <2>1, <3>2, <3>3, MaxAndMin
    <2>4. /\ a \in 1 .. Len(s) /\ b \in a .. Len(s) /\ s[a] # Blank /\ s[b] # Blank
          /\ \A p \in 1 .. Len(s) : p < a \/ b < p => s[p] = Blank
      BY <1>0, <1>6, <2>3
    <2>5. ASSUME NEW i \in 0 .. Len(s), NEW j \in i .. Len(s), Around(i, j)
          PROVE  i = a - 1 /\ j = b /\ text = SubSeq(s, a, b)
      <3>1. /\ SubSeq(s, i + 1, j) = text
            /\ \A p \in 1 .. i : s[p] = Blank
            /\ \A p \in j + 1 .. Len(s) : s[p] = Blank
            /\ i < j => s[i + 1] # Blank /\ s[j] # Blank
        BY <1>0, <1>1, <2>5
      <3>2. i < a /\ b <= j
        BY <1>0, <2>4, <3>1
      <3>3. i + 1 = a /\ j = b
        BY <1>0, <2>4, <3>1, <3>2
      <3> QED
        BY <1>0, <2>4, <3>1, <3>3
    <2>6. text = SubSeq(s, a, b) => Around(a - 1, b)
      <3>1. a - 1 \in 0 .. Len(s) /\ b \in a - 1 .. Len(s) /\ a - 1 + 1 = a
        BY <1>0, <2>4
      <3>2. /\ \A p \in 1 .. a - 1 : s[p] = Blank
            /\ \A p \in b + 1 .. Len(s) : s[p] = Blank
        BY <1>0, <2>4
      <3> QED
        BY <1>0, <1>1, <2>4, <3>1, <3>2
    <2>7. a - 1 \in 0 .. Len(s) /\ b \in a - 1 .. Len(s)
      BY <1>0, <2>4
    <2> QED
      BY <1>0, <1>2, <2>2, <2>5, <2>6, <2>7
  <1> QED
    BY <1>3, <1>4

-----------------------------------------------------------------------------
(* Assignments and readings.                                               *)

LEMMA TokensDiffer ==
    /\ Blank # Equals
    /\ "sensor_id" # Equals /\ "value" # Equals /\ "sensor_id" # "value"
  <1>1. Blank # Equals
    BY Zenon DEF Blank, Equals
  <1>2. "sensor_id" \in Words /\ "value" \in Words /\ Punctuation \cap Words = {}
    BY WordsAssumption
  <1>3. Equals \in Punctuation
    BY Zenon DEF Punctuation
  <1> QED
    BY <1>1, <1>2, <1>3

\* Nothing but blanks surrounds a padded key.
LEMMA PaddedIsFree ==
    ASSUME NEW T, NEW s \in Seq(T), NEW key, Padded(s, <<key>>),
           NEW t, key # t, Blank # t
    PROVE  Free(s, t)
  <1>0. Len(s) \in Nat /\ DOMAIN s = 1 .. Len(s)
    OBVIOUS
  <1>1. PICK i, j :
           /\ i \in 0 .. Len(s) /\ j \in i .. Len(s)
           /\ SubSeq(s, i + 1, j) = <<key>>
           /\ Only(SubSeq(s, 1, i), {Blank})
           /\ Only(SubSeq(s, j + 1, Len(s)), {Blank})
    BY Zenon DEF Padded
  <1>2. /\ 1 \in 1 .. Len(s) + 1 /\ i \in 0 .. Len(s) /\ i + 1 \in 1 .. Len(s) + 1
        /\ j \in 0 .. Len(s) /\ j + 1 \in 1 .. Len(s) + 1 /\ Len(s) \in 0 .. Len(s)
        /\ j \in i .. Len(s)
    <2>1. i \in 0 .. Len(s) /\ j \in i .. Len(s)
      BY <1>1
    <2> QED
      BY <1>0, <2>1
  <1>3. j = i + 1 /\ s[j] = key
    <2>1. PICK q : q = SubSeq(s, i + 1, j)
      OBVIOUS
    <2>2. /\ Len(q) = IF i + 1 <= j THEN j - (i + 1) + 1 ELSE 0
          /\ DOMAIN q = 1 .. Len(q) /\ \A p \in DOMAIN q : q[p] = s[p + (i + 1) - 1]
      BY <1>2, <2>1, PartOf
    <2>3. Len(q) = 1 /\ q[1] = key
      <3>1. q = <<key>>
        BY <1>1, <2>1, Zenon
      <3> QED
        BY <3>1
    <2>4. j = i + 1
      <3>1. (IF i + 1 <= j THEN j - (i + 1) + 1 ELSE 0) = 1
        BY <2>2, <2>3, Zenon
      <3>2. i \in Int /\ j \in Int
        BY <1>0, <1>2
      <3> QED
        BY <3>1, <3>2
    <2>5. 1 \in DOMAIN q /\ 1 + (i + 1) - 1 = j
      BY <1>2, <2>2, <2>3, <2>4
    <2> QED
      BY <2>2, <2>3, <2>4, <2>5
  <1>4. \A p \in 1 .. i : s[p] \in {Blank}
    BY <1>1, <1>2, PartIs
  <1>5. \A p \in j + 1 .. Len(s) : s[p] \in {Blank}
    BY <1>1, <1>2, PartIs
  <1>6. ASSUME NEW p \in 1 .. Len(s)
        PROVE  s[p] # t
    <2>1. p \in 1 .. i \/ p = j \/ p \in j + 1 .. Len(s)
      BY <1>0, <1>2, <1>3
    <2> QED
      BY <1>3, <1>4, <1>5, <2>1
  <1> QED
    BY <1>0, <1>6 DEF Free

\* An assignment is what split and trim take for one.
LEMMA AssignsIsSplit ==
    ASSUME NEW T, NEW s \in Seq(T), NEW key, key # Equals, NEW value
    PROVE  Assigns(s, key, value) <=>
              /\ Len(Split(s, Equals)) = 2
              /\ Trim(Split(s, Equals)[1]) = <<key>>
              /\ Trim(Split(s, Equals)[2]) = value
  <1>0. Len(s) \in Nat /\ DOMAIN s = 1 .. Len(s)
    OBVIOUS
  <1>1. ASSUME NEW i \in 1 .. Len(s), NEW j \in i + 1 .. Len(s)
        PROVE  /\ SubSeq(s, 1, i - 1) \in Seq(T) /\ SubSeq(s, i + 1, j) \in Seq(T)
               /\ Padded(SubSeq(s, 1, i - 1), <<key>>) <=> <<key>> = Trim(SubSeq(s, 1, i - 1))
               /\ Padded(SubSeq(s, i + 1, j), value) <=> value = Trim(SubSeq(s, i + 1, j))
    <2>1. /\ 1 \in 1 .. Len(s) + 1 /\ i - 1 \in 0 .. Len(s)
          /\ i + 1 \in 1 .. Len(s) + 1 /\ j \in 0 .. Len(s)
      BY <1>0
    <2>2. SubSeq(s, 1, i - 1) \in Seq(T) /\ SubSeq(s, i + 1, j) \in Seq(T)
      BY <2>1, PartOf
    <2> QED
      BY <2>2, TrimIsPadded
  <1>2. ASSUME Assigns(s, key, value)
        PROVE  /\ Len(Split(s, Equals)) = 2
               /\ Trim(Split(s, Equals)[1]) = <<key>>
               /\ Trim(Split(s, Equals)[2]) = value
    <2>1. PICK i, j :
             /\ i \in DOMAIN s /\ j \in i + 1 .. Len(s)
             /\ s[i] = Equals
             /\ Padded(SubSeq(s, 1, i - 1), <<key>>)
             /\ Padded(SubSeq(s, i + 1, j), value)
             /\ Free(SubSeq(s, i + 1, j), Equals)
             /\ Only(SubSeq(s, j + 1, Len(s)), {Equals})
      BY <1>2, Zenon DEF Assigns
    <2>2. i \in 1 .. Len(s) /\ j \in i + 1 .. Len(s)
      BY <1>0, <2>1, Zenon
    <2>3. Free(SubSeq(s, 1, i - 1), Equals)
      BY <1>1, <2>1, <2>2, PaddedIsFree, TokensDiffer
    <2>4. InTwo(s, Equals, i, j)
      BY <2>1, <2>3, Zenon DEF InTwo
    <2> QED
      BY <1>1, <2>1, <2>2, <2>4, SplitTwoWhenInTwo
  <1>3. ASSUME Len(Split(s, Equals)) = 2, Trim(Split(s, Equals)[1]) = <<key>>,
               Trim(Split(s, Equals)[2]) = value
        PROVE  Assigns(s, key, value)
    <2>1. PICK i, j :
             /\ i \in 1 .. Len(s) /\ j \in i + 1 .. Len(s)
             /\ InTwo(s, Equals, i, j)
             /\ Split(s, Equals)[1] = SubSeq(s, 1, i - 1)
             /\ Split(s, Equals)[2] = SubSeq(s, i + 1, j)
      BY <1>3, SplitTwoOnly
    <2>2. Padded(SubSeq(s, 1, i - 1), <<key>>) /\ Padded(SubSeq(s, i + 1, j), value)
      BY <1>1, <1>3, <2>1
    <2> QED
      BY <1>0, <2>1, <2>2, Zenon DEF Assigns, InTwo
  <1> QED
    BY <1>2, <1>3

\* A reading is two assignments that split takes apart.
LEMMA ReadsIsSplit ==
    ASSUME NEW T, NEW s \in Seq(T), NEW sensor, NEW word
    PROVE  Reads(s, sensor, word) <=>
              LET parts == Split(s, Semicolon) IN
              /\ Len(parts) = 2
              /\ \/ Assigns(parts[1], "sensor_id", sensor) /\ Assigns(parts[2], "value", <<word>>)
                 \/ Assigns(parts[2], "sensor_id", sensor) /\ Assigns(parts[1], "value", <<word>>)
  <1> DEFINE parts == Split(s, Semicolon)
             Pair(left, right) ==
                 \/ Assigns(left, "sensor_id", sensor) /\ Assigns(right, "value", <<word>>)
                 \/ Assigns(right, "sensor_id", sensor) /\ Assigns(left, "value", <<word>>)
  <1>0. DOMAIN s = 1 .. Len(s)
    OBVIOUS
  <1>1. Reads(s, sensor, word) <=>
           \E i \in DOMAIN s : \E j \in i + 1 .. Len(s) :
              InTwo(s, Semicolon, i, j) /\ Pair(SubSeq(s, 1, i - 1), SubSeq(s, i + 1, j))
    <2>1. ASSUME NEW i \in DOMAIN s, NEW j \in i + 1 .. Len(s)
          PROVE  InTwo(s, Semicolon, i, j) <=>
                    /\ s[i] = Semicolon
                    /\ Free(SubSeq(s, 1, i - 1), Semicolon)
                    /\ Free(SubSeq(s, i + 1, j), Semicolon)
                    /\ Only(SubSeq(s, j + 1, Len(s)), {Semicolon})
      BY Zenon DEF InTwo
    <2> QED
      BY <2>1, Zenon DEF Reads
  <1> HIDE DEF Pair
  <1>2. ASSUME NEW i \in 1 .. Len(s), NEW j \in i + 1 .. Len(s), InTwo(s, Semicolon, i, j)
        PROVE  /\ Len(parts) = 2
               /\ parts[1] = SubSeq(s, 1, i - 1) /\ parts[2] = SubSeq(s, i + 1, j)
    BY <1>2, SplitTwoWhenInTwo
  <1>3. ASSUME Len(parts) = 2
        PROVE  \E i \in 1 .. Len(s) : \E j \in i + 1 .. Len(s) :
                  /\ InTwo(s, Semicolon, i, j)
                  /\ parts[1] = SubSeq(s, 1, i - 1) /\ parts[2] = SubSeq(s, i + 1, j)
    BY <1>3, SplitTwoOnly
  <1>4. Reads(s, sensor, word) <=> Len(parts) = 2 /\ Pair(parts[1], parts[2])
    <2> HIDE DEF parts
    <2> QED
      BY <1>0, <1>1, <1>2, <1>3, Zenon
  <1> QED
    BY <1>4, Zenon DEF Pair

-----------------------------------------------------------------------------
(* The parameters.                                                         *)

\* The two parts of a payload that are entries of different keys are its
\* parameters.
LEMMA TwoParameters ==
    ASSUME NEW T, NEW s \in Seq(T), NEW key, NEW other, key # other,
           NEW a \in {1, 2}, NEW b \in {1, 2},
           Len(Split(s, Semicolon)) = 2,
           Len(Split(Split(s, Semicolon)[a], Equals)) = 2,
           Len(Split(Split(s, Semicolon)[b], Equals)) = 2,
           Trim(Split(Split(s, Semicolon)[a], Equals)[1]) = key,
           Trim(Split(Split(s, Semicolon)[b], Equals)[1]) = other
    PROVE  /\ {key, other} \subseteq DOMAIN Parameters(s)
           /\ Parameters(s)[key] = Trim(Split(Split(s, Semicolon)[a], Equals)[2])
           /\ Parameters(s)[other] = Trim(Split(Split(s, Semicolon)[b], Equals)[2])
  <1> DEFINE parts == Split(s, Semicolon)
             entries == [k \in DOMAIN parts |-> Split(parts[k], Equals)]
             named == {k \in DOMAIN parts : Len(parts) = 2 /\ Len(entries[k]) = 2}
             Named(word) == {k \in named : Trim(entries[k][1]) = word}
  <1>1. Parameters(s) = [word \in {Trim(entries[k][1]) : k \in named} |->
                            Trim(entries[Max(Named(word))][2])]
    BY Zenon DEF Parameters
  <1>2. DOMAIN parts = {1, 2} /\ Len(parts) = 2
    BY TwoParts, Zenon
  <1>3. entries[a] = Split(parts[a], Equals) /\ entries[b] = Split(parts[b], Equals)
    BY <1>2, Zenon
  <1>4. /\ Len(entries[a]) = 2 /\ Len(entries[b]) = 2
        /\ Trim(entries[a][1]) = key /\ Trim(entries[b][1]) = other
    BY <1>3, Zenon
  <1>5. a # b
    BY <1>4
  <1> HIDE DEF parts, entries
  <1>6. Named(key) = {a} /\ Named(other) = {b} /\ a \in named /\ b \in named
    <2>1. named = {1, 2}
      BY <1>2, <1>4, <1>5
    <2> HIDE DEF named
    <2> QED
      BY <1>4, <1>5, <2>1
  <1>7. Max(Named(key)) = a /\ Max(Named(other)) = b
    <2>1. \A k \in {1, 2} : k \in Nat /\ IsFiniteSet({k})
      BY FS_Singleton
    <2>2. \A k \in {1, 2} : {k} \subseteq Nat /\ {k} # {} /\ Max({k}) \in {k}
      BY <2>1, MaxAndMin
    <2> QED
      BY <1>6, <2>2
  <1>8. key \in {Trim(entries[k][1]) : k \in named} /\ other \in {Trim(entries[k][1]) : k \in named}
    BY <1>4, <1>6
  <1> HIDE DEF named, Named
  <1>9. /\ key \in DOMAIN Parameters(s) /\ other \in DOMAIN Parameters(s)
        /\ Parameters(s)[key] = Trim(entries[a][2])
        /\ Parameters(s)[other] = Trim(entries[b][2])
    BY <1>1, <1>7, <1>8, Zenon
  <1> QED
    BY <1>3, <1>9, Zenon DEF parts

\* A parameter comes from one of the two parts.
LEMMA ParameterOfPart ==
    ASSUME NEW T, NEW s \in Seq(T), NEW key \in DOMAIN Parameters(s)
    PROVE  /\ Len(Split(s, Semicolon)) = 2
           /\ \E a \in {1, 2} :
                 /\ Len(Split(Split(s, Semicolon)[a], Equals)) = 2
                 /\ Trim(Split(Split(s, Semicolon)[a], Equals)[1]) = key
  <1> DEFINE parts == Split(s, Semicolon)
             entries == [k \in DOMAIN parts |-> Split(parts[k], Equals)]
             named == {k \in DOMAIN parts : Len(parts) = 2 /\ Len(entries[k]) = 2}
  <1>1. DOMAIN Parameters(s) = {Trim(entries[k][1]) : k \in named}
    BY Zenon DEF Parameters
  <1>2. PICK a \in named : key = Trim(entries[a][1])
    BY <1>1, Zenon
  <1>3. a \in DOMAIN parts /\ Len(parts) = 2 /\ Len(entries[a]) = 2
    BY Zenon
  <1>4. entries[a] = Split(parts[a], Equals)
    BY <1>3, Zenon
  <1>5. a \in {1, 2}
    <2>1. DOMAIN parts = {1, 2}
      BY <1>3, TwoParts, Zenon
    <2> QED
      BY <1>3, <2>1, Zenon
  <1> QED
    BY <1>2, <1>3, <1>4, <1>5, Zenon

\* A payload is read as the sensor and the word that its parameters hold.
LEMMA ReadsItsParameters ==
    ASSUME NEW T, NEW s \in Seq(T), NEW sensor, NEW word
    PROVE  Reads(s, sensor, word) <=>
              /\ {<<"sensor_id">>, <<"value">>} \subseteq DOMAIN Parameters(s)
              /\ Parameters(s)[<<"sensor_id">>] = sensor
              /\ Parameters(s)[<<"value">>] = <<word>>
  <1> DEFINE parts == Split(s, Semicolon)
             Entry(a, key) == /\ Len(Split(parts[a], Equals)) = 2
                              /\ Trim(Split(parts[a], Equals)[1]) = key
             Entered(a) == Trim(Split(parts[a], Equals)[2])
             From(a, b) == /\ Entry(a, <<"sensor_id">>) /\ Entered(a) = sensor
                           /\ Entry(b, <<"value">>) /\ Entered(b) = <<word>>
  <1>1. <<"sensor_id">> # <<"value">> /\ <<"value">> # <<"sensor_id">>
    BY TokensDiffer
  <1>2. ASSUME Len(parts) = 2, NEW a \in {1, 2}
        PROVE  /\ \A value : Assigns(parts[a], "sensor_id", value) <=>
                                Entry(a, <<"sensor_id">>) /\ Entered(a) = value
               /\ \A value : Assigns(parts[a], "value", value) <=>
                                Entry(a, <<"value">>) /\ Entered(a) = value
    <2>1. parts[a] \in Seq(T)
      BY <1>2, TwoParts, Zenon
    <2> QED
      BY <2>1, AssignsIsSplit, TokensDiffer
  <1>3. Reads(s, sensor, word) <=> Len(parts) = 2 /\ (From(1, 2) \/ From(2, 1))
    <2>1. Reads(s, sensor, word) <=>
             /\ Len(parts) = 2
             /\ \/ Assigns(parts[1], "sensor_id", sensor) /\ Assigns(parts[2], "value", <<word>>)
                \/ Assigns(parts[2], "sensor_id", sensor) /\ Assigns(parts[1], "value", <<word>>)
      BY ReadsIsSplit, Zenon
    <2> HIDE DEF parts, Entry, Entered
    <2> QED
      BY <1>2, <2>1
  <1>4. ASSUME Len(parts) = 2, NEW a \in {1, 2}, NEW b \in {1, 2},
               Entry(a, <<"sensor_id">>), Entry(b, <<"value">>)
        PROVE  /\ {<<"sensor_id">>, <<"value">>} \subseteq DOMAIN Parameters(s)
               /\ Parameters(s)[<<"sensor_id">>] = Entered(a)
               /\ Parameters(s)[<<"value">>] = Entered(b)
    BY <1>1, <1>4, TwoParameters
  <1>5. ASSUME {<<"sensor_id">>, <<"value">>} \subseteq DOMAIN Parameters(s)
        PROVE  /\ Len(parts) = 2
               /\ \E a \in {1, 2} : Entry(a, <<"sensor_id">>)
               /\ \E b \in {1, 2} : Entry(b, <<"value">>)
    BY <1>5, ParameterOfPart
  <1>6. \A a \in {1, 2} : ~(Entry(a, <<"sensor_id">>) /\ Entry(a, <<"value">>))
    BY <1>1
  <1> HIDE DEF parts, Entry, Entered
  <1> QED
    BY <1>3, <1>4, <1>5, <1>6

\* A part of a sequence is a subtext of it, and so is a part of a subtext.
LEMMA SubtextsOf ==
    ASSUME NEW T, NEW s \in Seq(T)
    PROVE  /\ \A m \in 1 .. Len(s) + 1, n \in 0 .. Len(s) : SubSeq(s, m, n) \in Subtexts(s)
           /\ \A q \in Subtexts(s) : q \in Seq(T) /\ Subtexts(q) \subseteq Subtexts(s)
  <1>0. Len(s) \in Nat
    OBVIOUS
  <1>1. ASSUME NEW i \in 0 .. Len(s), NEW j \in 0 .. Len(s)
        PROVE  SubSeq(s, i + 1, j) \in Subtexts(s)
    BY SMT DEF Subtexts
  <1>2. ASSUME NEW m \in 1 .. Len(s) + 1, NEW n \in 0 .. Len(s)
        PROVE  SubSeq(s, m, n) \in Subtexts(s)
    <2>1. m - 1 \in 0 .. Len(s) /\ m = m - 1 + 1
      BY <1>0
    <2>2. SubSeq(s, m - 1 + 1, n) \in Subtexts(s)
      BY <1>1, <2>1
    <2> QED
      BY <2>1, <2>2
  <1>3. ASSUME NEW i \in 0 .. Len(s), NEW j \in 0 .. Len(s), NEW q, q = SubSeq(s, i + 1, j),
               NEW k \in 0 .. Len(q), NEW l \in 0 .. Len(q)
        PROVE  SubSeq(q, k + 1, l) \in Subtexts(s)
    <2>1. i + 1 \in 1 .. Len(s) + 1 /\ j \in 0 .. Len(s)
      BY <1>0
    <2>2. /\ q \in Seq(T) /\ Len(q) = IF i + 1 <= j THEN j - (i + 1) + 1 ELSE 0
          /\ \A p \in DOMAIN q : q[p] = s[p + (i + 1) - 1]
          /\ DOMAIN q = 1 .. Len(q)
      BY <1>3, <2>1, PartOf
    <2>3. CASE l <= k
      <3>1. 1 \in 1 .. Len(s) + 1 /\ 0 \in 0 .. Len(s) /\ 0 < 1
        BY <1>0
      <3>2. SubSeq(s, 1, 0) = <<>> /\ SubSeq(s, 1, 0) \in Subtexts(s)
        BY <1>2, <3>1, PartOf
      <3>3. k + 1 \in 1 .. Len(q) + 1 /\ l < k + 1
        BY <2>2, <2>3
      <3>4. SubSeq(q, k + 1, l) = <<>>
        BY <2>2, <3>3, PartOf
      <3> QED
        BY <3>2, <3>4, Zenon
    <2>4. CASE k < l
      <3>1. i + k + 1 \in 1 .. Len(s) + 1 /\ i + l \in 0 .. Len(s)
        BY <1>0, <2>2, <2>4
      <3>2. SubSeq(q, k + 1, l) = SubSeq(s, i + k + 1, i + l)
        <4>1. k + 1 \in 1 .. Len(q) + 1 /\ l \in 0 .. Len(q) /\ k + 1 <= l /\ i + k + 1 <= i + l
          BY <1>0, <2>2, <2>4
        <4>2. PICK u, v : u = SubSeq(q, k + 1, l) /\ v = SubSeq(s, i + k + 1, i + l)
          OBVIOUS
        <4>3. /\ u \in Seq(T) /\ Len(u) = l - k /\ DOMAIN u = 1 .. Len(u)
              /\ \A p \in DOMAIN u : u[p] = q[p + k]
          BY <2>2, <4>1, <4>2, PartOf
        <4>4. /\ v \in Seq(T) /\ Len(v) = l - k /\ DOMAIN v = 1 .. Len(v)
              /\ \A p \in DOMAIN v : v[p] = s[p + (i + k)]
          <5>1. PICK m, n : /\ m = i + k + 1 /\ n = i + l
                            /\ m \in 1 .. Len(s) + 1 /\ n \in 0 .. Len(s) /\ m <= n
            BY <3>1, <4>1
          <5>2. /\ v \in Seq(T) /\ Len(v) = n - m + 1 /\ DOMAIN v = 1 .. Len(v)
                /\ \A p \in DOMAIN v : v[p] = s[p + m - 1]
            BY <4>2, <5>1, PartOf
          <5> QED
            BY <1>0, <5>1, <5>2
        <4>5. ASSUME NEW p \in 1 .. Len(u) PROVE u[p] = v[p]
          <5>1. p + k \in DOMAIN q /\ p + k + (i + 1) - 1 = p + (i + k)
            BY <2>2, <4>1, <4>3
          <5> QED
            BY <2>2, <4>3, <4>4, <5>1
        <4> QED
          <5>1. u \in Seq(T) /\ v \in Seq(T) /\ Len(u) = Len(v)
            BY <4>3, <4>4
          <5>2. u = v
            BY ONLY <4>5, <5>1
          <5> QED
            BY <4>2, <5>2, Zenon
      <3>3. SubSeq(s, i + k + 1, i + l) \in Subtexts(s)
        BY <1>2, <3>1
      <3> QED
        BY <3>2, <3>3, Zenon
    <2> QED
      BY <2>2, <2>3, <2>4
  <1>4. ASSUME NEW q \in Subtexts(s)
        PROVE  q \in Seq(T) /\ Subtexts(q) \subseteq Subtexts(s)
    <2>1. PICK i \in 0 .. Len(s), j \in 0 .. Len(s) : q = SubSeq(s, i + 1, j)
      BY <1>4, SMT DEF Subtexts
    <2>2. q \in Seq(T)
      <3>1. i + 1 \in 1 .. Len(s) + 1
        BY <1>0
      <3> QED
        BY <2>1, <3>1, PartOf
    <2>3. ASSUME NEW r \in Subtexts(q)
          PROVE  r \in Subtexts(s)
      <3>1. PICK k \in 0 .. Len(q), l \in 0 .. Len(q) : r = SubSeq(q, k + 1, l)
        BY <2>3, SMT DEF Subtexts
      <3> QED
        BY <1>3, <2>1, <3>1, Zenon
    <2> QED
      BY <2>2, <2>3, Zenon
  <1> QED
    BY <1>2, <1>4

LEMMA TwoPartsAreSubtexts ==
    ASSUME NEW T, NEW s \in Seq(T), NEW separator, Len(Split(s, separator)) = 2,
           NEW k \in {1, 2}
    PROVE  Split(s, separator)[k] \in Subtexts(s)
  <1>0. Len(s) \in Nat
    OBVIOUS
  <1>1. PICK i, j :
           /\ i \in 1 .. Len(s) /\ j \in i + 1 .. Len(s)
           /\ Split(s, separator)[1] = SubSeq(s, 1, i - 1)
           /\ Split(s, separator)[2] = SubSeq(s, i + 1, j)
    BY SplitTwoOnly
  <1>2. /\ 1 \in 1 .. Len(s) + 1 /\ i - 1 \in 0 .. Len(s)
        /\ i + 1 \in 1 .. Len(s) + 1 /\ j \in 0 .. Len(s)
    BY <1>0, <1>1
  <1>3. SubSeq(s, 1, i - 1) \in Subtexts(s) /\ SubSeq(s, i + 1, j) \in Subtexts(s)
    BY <1>2, SubtextsOf
  <1> QED
    BY <1>1, <1>3

LEMMA TrimIsSubtext ==
    ASSUME NEW T, NEW s \in Seq(T)
    PROVE  Trim(s) \in Subtexts(s)
  <1>0. Len(s) \in Nat
    OBVIOUS
  <1>1. Padded(s, Trim(s))
    BY TrimIsPadded
  <1>2. PICK i \in 0 .. Len(s) : \E j \in i .. Len(s) : SubSeq(s, i + 1, j) = Trim(s)
    BY <1>1, Zenon DEF Padded
  <1>3. PICK j \in i .. Len(s) : SubSeq(s, i + 1, j) = Trim(s)
    BY <1>2
  <1>4. i + 1 \in 1 .. Len(s) + 1 /\ j \in 0 .. Len(s)
    BY <1>0
  <1>5. SubSeq(s, i + 1, j) \in Subtexts(s)
    BY <1>4, SubtextsOf
  <1> QED
    BY <1>3, <1>5, Zenon

LEMMA ParameterIsSubtext ==
    ASSUME NEW T, NEW s \in Seq(T), NEW key \in DOMAIN Parameters(s)
    PROVE  Parameters(s)[key] \in Subtexts(s) /\ Parameters(s)[key] \in Seq(T)
  <1> DEFINE parts == Split(s, Semicolon)
             entries == [k \in DOMAIN parts |-> Split(parts[k], Equals)]
             named == {k \in DOMAIN parts : Len(parts) = 2 /\ Len(entries[k]) = 2}
             Named == {k \in named : Trim(entries[k][1]) = key}
  <1>1. PICK last : last = Max(Named)
    OBVIOUS
  <1>2. key \in {Trim(entries[k][1]) : k \in named}
    BY Zenon DEF Parameters
  <1>3. Parameters(s)[key] = Trim(entries[last][2])
    BY <1>1, <1>2, Zenon DEF Parameters
  <1>4. Named # {}
    BY <1>2, Zenon
  <1>5. Named \subseteq named
    BY Zenon
  <1>6. Len(parts) = 2 /\ named \subseteq DOMAIN parts
    BY <1>4, Zenon
  <1>7. DOMAIN parts = {1, 2}
    BY <1>6, TwoParts, Zenon
  <1> HIDE DEF Named
  <1>8. last \in named
    <2>1. Named \subseteq 1 .. 2
      <3>1. {1, 2} = 1 .. 2
        OBVIOUS
      <3> QED
        BY <1>5, <1>6, <1>7, <3>1, Zenon
    <2> HIDE DEF named
    <2>2. IsFiniteSet(1 .. 2)
      <3>1. 1 \in Int /\ 2 \in Int
        OBVIOUS
      <3> QED
        BY <3>1, FS_Interval, Zenon
    <2>3. IsFiniteSet(Named)
      BY <2>1, <2>2, Fewer
    <2>4. Named \subseteq Nat
      BY <2>1
    <2>5. last \in Named
      BY <1>1, <1>4, <2>3, <2>4, MaxAndMin
    <2> QED
      BY <1>5, <2>5
  <1>9. last \in {1, 2} /\ Len(entries[last]) = 2 /\ entries[last] = Split(parts[last], Equals)
    BY <1>7, <1>8, Zenon
  <1>10. parts[last] \in Seq(T) /\ parts[last] \in Subtexts(s)
    BY <1>6, <1>9, TwoParts, TwoPartsAreSubtexts, Zenon
  <1> HIDE DEF parts, entries, named
  <1>11. entries[last][2] \in Seq(T) /\ entries[last][2] \in Subtexts(parts[last])
    <2>1. 2 \in {1, 2} /\ Len(Split(parts[last], Equals)) = 2
      BY <1>9
    <2>2. /\ Split(parts[last], Equals)[2] \in Seq(T)
          /\ Split(parts[last], Equals)[2] \in Subtexts(parts[last])
      BY <1>10, <2>1, TwoParts, TwoPartsAreSubtexts, Zenon
    <2> QED
      BY <1>9, <2>2, Zenon
  <1>12. Trim(entries[last][2]) \in Subtexts(entries[last][2])
    BY <1>11, TrimIsSubtext, Zenon
  <1>13. Trim(entries[last][2]) \in Subtexts(s)
    BY <1>10, <1>11, <1>12, SubtextsOf, Zenon
  <1>14. Trim(entries[last][2]) \in Seq(T)
    BY <1>13, SubtextsOf, Zenon
  <1> QED
    BY <1>3, <1>13, <1>14, Zenon

-----------------------------------------------------------------------------
(* What handle makes of a payload.                                         *)

HandlesAsRead(s) ==
    {Handle(s)} =
        LET readings == {r \in Subtexts(s) \X DOMAIN IntOf : Reads(s, r[1], r[2])}
        IN  IF readings = {} THEN {[payload |-> s]}
            ELSE {[sensorId |-> r[1], value |-> IntOf[r[2]]] : r \in readings}

LEMMA HandlesWhatItReads ==
    ASSUME NEW T, NEW s \in Seq(T)
    PROVE  HandlesAsRead(s)
  <1> DEFINE sensor == Parameters(s)[<<"sensor_id">>]
             value == Parameters(s)[<<"value">>]
             given == {<<"sensor_id">>, <<"value">>} \subseteq DOMAIN Parameters(s)
             readings == {r \in Subtexts(s) \X DOMAIN IntOf : Reads(s, r[1], r[2])}
  <1>1. Rejected(s) <=> ~(given /\ ParseableInt(value))
    BY Zenon DEF Rejected
  <1>2. \A x, w : Reads(s, x, w) <=> given /\ sensor = x /\ value = <<w>>
    BY ReadsItsParameters, Zenon
  <1>3. CASE Rejected(s)
    <2>1. readings = {}
      <3> SUFFICES ASSUME NEW w \in DOMAIN IntOf, given, value = <<w>>
                   PROVE  FALSE
        BY <1>2
      <3>1. Len(value) = 1 /\ value[1] = w
        <4> HIDE DEF value
        <4> QED
          OBVIOUS
      <3>2. ParseableInt(value)
        BY <3>1, Zenon DEF ParseableInt
      <3> QED
        BY <1>1, <1>3, <3>2, Zenon
    <2>2. Handle(s) = [payload |-> s]
      BY <1>3, Zenon DEF Handle
    <2> QED
      BY <2>1, <2>2, Zenon DEF HandlesAsRead
  <1>4. CASE ~Rejected(s)
    <2>1. given /\ ParseableInt(value)
      BY <1>1, <1>4, Zenon
    <2>2. sensor \in Subtexts(s) /\ value \in Seq(T)
      BY <2>1, ParameterIsSubtext, Zenon
    <2>3. PICK w \in DOMAIN IntOf : value = <<w>> /\ w = value[1]
      <3>1. Len(value) = 1 /\ value[1] \in DOMAIN IntOf
        BY <2>1, Zenon DEF ParseableInt
      <3>2. value = <<value[1]>>
        <4> HIDE DEF value
        <4> QED
          BY <2>2, <3>1
      <3> QED
        BY <3>1, <3>2, Zenon
    <2>4. \A x, u : Reads(s, x, u) <=> x = sensor /\ u = w
      <3>1. \A u : <<w>> = <<u>> <=> u = w
        OBVIOUS
      <3> QED
        BY <1>2, <2>1, <2>3, <3>1, Zenon
    <2>5. readings = {<<sensor, w>>}
      <3> HIDE DEF sensor
      <3> QED
        BY <2>2, <2>3, <2>4
    <2>6. Handle(s) = [sensorId |-> sensor, value |-> IntOf[w]]
      BY <1>4, <2>3, Zenon DEF Handle, EventOf
    <2>7. {[sensorId |-> r[1], value |-> IntOf[r[2]]] : r \in {<<sensor, w>>}} =
          {[sensorId |-> sensor, value |-> IntOf[w]]}
      <3> HIDE DEF sensor
      <3> QED
        OBVIOUS
    <2>8. readings # {}
      BY <2>5
    <2> QED
      BY <2>5, <2>6, <2>7, <2>8, Zenon DEF HandlesAsRead
  <1> QED
    BY <1>3, <1>4

\* MeasurementEventMapper.from accepts its language and nothing else, and reads
\* a payload in one way, for payloads of any length over any words, after any
\* number of edits of any well-formed payload.
THEOREM MapperReadsItsLanguage == Spec => []ReadsItsLanguage
  <1> DEFINE Texts == payload \in Seq(Tokens)
  <1>1. Init => Texts
    <2>1. WellFormed \in Seq(Tokens)
      BY WellFormedAssumption, Zenon DEF Tokenized
    <2> QED
      BY <2>1, Zenon DEF Init
  <1>2. Texts /\ [Next]_vars => Texts'
    <2>1. WellFormed \in Seq(Tokens)
      BY WellFormedAssumption, Zenon DEF Tokenized
    <2>2. \A edited : Edit(edited) => Texts'
      BY Zenon DEF Edit, Tokenized, Tokens
    <2>3. Next => Texts'
      BY <2>1, <2>2, Zenon DEF Next, Insert, Delete, Replace, NextPayload, Tokens
    <2>4. Texts /\ UNCHANGED vars => Texts'
      BY Zenon DEF vars, Tokens
    <2> QED
      BY <2>3, <2>4, Zenon
  <1>3. Texts => ReadsItsLanguage
    BY HandlesWhatItReads, Zenon DEF HandlesAsRead, ReadsItsLanguage
  <1> QED
    BY <1>1, <1>2, <1>3, PTL DEF Spec
=============================================================================
