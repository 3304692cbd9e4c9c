---------------------------- MODULE Units_proofs ----------------------------
(***************************************************************************)
(* Facts about totals: what changing one row of a table does to its sum.   *)
(***************************************************************************)
EXTENDS Units, Integers, FiniteSetTheorems, TLAPS

\* The units of one row are as many as the row says.
LEMMA BlockCardinality ==
  ASSUME NEW r, NEW n \in Nat
  PROVE  /\ IsFiniteSet({r} \X (1..n))
         /\ Cardinality({r} \X (1..n)) = n
<1>1. IsFiniteSet({r}) /\ Cardinality({r}) = 1
  BY FS_Singleton
<1>2. IsFiniteSet(1..n) /\ Cardinality(1..n) = n
  BY FS_Interval
<1>3. /\ IsFiniteSet({r} \X (1..n))
      /\ Cardinality({r} \X (1..n)) = Cardinality({r}) * Cardinality(1..n)
  BY <1>1, <1>2, FS_Product
<1> QED
  BY <1>1, <1>2, <1>3

\* A table with finitely many rows has finitely many units.
LEMMA UnitsFinite ==
  ASSUME NEW S, IsFiniteSet(S), NEW f \in [S -> Nat]
  PROVE  /\ IsFiniteSet(Units(f))
         /\ Total(f) \in Nat
<1> DEFINE B == {{r} \X (1..f[r]) : r \in S}
           g == [r \in S |-> {r} \X (1..f[r])]
<1>1. g \in Surjection(S, B)
  BY DEF Surjection
<1>2. IsFiniteSet(B)
  BY <1>1, FS_Surjection
<1>3. ASSUME NEW T \in B
      PROVE  IsFiniteSet(T)
  <2>1. PICK r \in S : T = {r} \X (1..f[r])
    OBVIOUS
  <2>2. f[r] \in Nat
    OBVIOUS
  <2> QED
    BY <2>1, <2>2, BlockCardinality
<1>4. IsFiniteSet(UNION B)
  BY <1>2, <1>3, FS_UNION
<1>5. Units(f) = UNION B
  BY DEF Units
<1> QED
  BY <1>4, <1>5, FS_CardinalityType DEF Total

\* A table of zeros has no units.
LEMMA TotalOfZeros ==
  ASSUME NEW S
  PROVE  Total([r \in S |-> 0]) = 0
<1>1. Units([r \in S |-> 0]) = {}
  <2>1. \A r \in S : {r} \X (1..0) = {}
    OBVIOUS
  <2> QED
    BY <2>1 DEF Units
<1> QED
  BY <1>1, FS_EmptySet DEF Total

\* A table that says less in every row has a smaller sum.
LEMMA TotalMonotone ==
  ASSUME NEW S, IsFiniteSet(S), NEW f \in [S -> Nat], NEW g \in [S -> Nat],
         \A s \in S : f[s] <= g[s]
  PROVE  Total(f) <= Total(g)
<1>1. Units(f) \subseteq Units(g)
  <2> SUFFICES ASSUME NEW s \in S, NEW n \in 1..f[s]
               PROVE  <<s, n>> \in Units(g)
    BY DEF Units
  <2>1. n \in 1..g[s]
    OBVIOUS
  <2> QED
    BY <2>1 DEF Units
<1> QED
  BY <1>1, UnitsFinite, FS_Subset DEF Total

\* Taking the row r out of the table takes its units out.
LEMMA TotalSplit ==
  ASSUME NEW S, IsFiniteSet(S), NEW f \in [S -> Nat], NEW r \in S
  PROVE  LET rest == [s \in S \ {r} |-> f[s]]
         IN  /\ Total(rest) \in Nat
             /\ Total(f) = Total(rest) + f[r]
<1> DEFINE rest == [s \in S \ {r} |-> f[s]]
           block == {r} \X (1..f[r])
<1>1. IsFiniteSet(S \ {r})
  BY FS_Difference
<1>2. rest \in [S \ {r} -> Nat]
  OBVIOUS
<1>3. IsFiniteSet(Units(rest)) /\ Total(rest) \in Nat
  BY <1>1, <1>2, UnitsFinite
<1>4. IsFiniteSet(block) /\ Cardinality(block) = f[r]
  BY BlockCardinality
<1>5. Units(f) = Units(rest) \union block
  <2>1. Units(f) = UNION {{s} \X (1..f[s]) : s \in S}
    BY DEF Units
  <2>2. Units(rest) = UNION {{s} \X (1..f[s]) : s \in S \ {r}}
    BY DEF Units
  <2> QED
    BY <2>1, <2>2
<1>6. Units(rest) \intersect block = {}
  BY DEF Units
<1>7. Cardinality(Units(f)) = Cardinality(Units(rest)) + Cardinality(block)
                                - Cardinality(Units(rest) \intersect block)
  BY <1>3, <1>4, <1>5, FS_Union
<1>8. Cardinality(Units(rest) \intersect block) = 0
  BY <1>6, FS_EmptySet
<1> HIDE DEF block
<1> QED
  BY <1>3, <1>4, <1>7, <1>8 DEF Total

\* Changing the row r changes the sum by as much; and no row exceeds the sum.
THEOREM TotalUpdate ==
  ASSUME NEW S, IsFiniteSet(S), NEW f \in [S -> Nat], NEW g \in [S -> Nat],
         NEW r \in S, \A s \in S \ {r} : g[s] = f[s]
  PROVE  /\ Total(f) \in Nat
         /\ f[r] <= Total(f)
         /\ Total(g) = Total(f) - f[r] + g[r]
<1>1. /\ Total([s \in S \ {r} |-> f[s]]) \in Nat
      /\ Total(f) = Total([s \in S \ {r} |-> f[s]]) + f[r]
  BY TotalSplit
<1>2. Total(g) = Total([s \in S \ {r} |-> g[s]]) + g[r]
  BY TotalSplit
<1>3. [s \in S \ {r} |-> g[s]] = [s \in S \ {r} |-> f[s]]
  OBVIOUS
<1>4. f[r] \in Nat /\ g[r] \in Nat
  OBVIOUS
<1> QED
  BY <1>1, <1>2, <1>3, <1>4

\* Units that go from one row to another leave the sum as it is.
LEMMA TotalMove ==
  ASSUME NEW S, IsFiniteSet(S), NEW f \in [S -> Nat], NEW g \in [S -> Nat],
         NEW a \in S, NEW b \in S, a # b, NEW n \in Nat,
         g[a] = f[a] - n, g[b] = f[b] + n, \A s \in S \ {a, b} : g[s] = f[s]
  PROVE  Total(g) = Total(f)
<1> DEFINE h == [f EXCEPT ![b] = f[b] + n]
<1>1. h \in [S -> Nat] /\ h[b] = f[b] + n /\ h[a] = f[a]
  OBVIOUS
<1>2. Total(h) = Total(f) - f[b] + h[b] /\ Total(f) \in Nat
  <2>1. \A s \in S \ {b} : h[s] = f[s]
    OBVIOUS
  <2> HIDE DEF h
  <2> QED
    BY <1>1, <2>1, TotalUpdate
<1>3. Total(g) = Total(h) - h[a] + g[a]
  <2>1. \A s \in S \ {a} : g[s] = h[s]
    OBVIOUS
  <2> HIDE DEF h
  <2> QED
    BY <1>1, <2>1, TotalUpdate
<1> QED
  BY <1>1, <1>2, <1>3
=============================================================================
