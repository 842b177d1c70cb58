---------------------------- MODULE TreeHash_proofs ----------------------------
(***************************************************************************)
(* Theorems about the Merkle tree circuit: the numbering of nodes by       *)
(* subcircuits, the trace's agreement with the constraints, the hash on    *)
(* every wire and where it is used, and the proving keys.  They hold for   *)
(* every power of two of leaves, every number of portals and of workers.   *)
(***************************************************************************)
EXTENDS TreeHash, FiniteSetTheorems, WellFoundedInduction, TLAPS

-----------------------------------------------------------------------------
(* Numbers.                                                                 *)

\* A set of natural numbers has a least element.
LEMMA Least ==
  ASSUME NEW T, T \subseteq Nat, T # {}
  PROVE  \E x \in T : \A y \in T : x <= y
<1> DEFINE R == OpToRel(<, Nat)
<1>1. IsWellFoundedOn(R, Nat)
  BY NatLessThanWellFounded
<1>2. \A x, y \in Nat : <<y, x>> \in R <=> y < x
  BY DEF OpToRel
<1> HIDE DEF R
<1>3. PICK x \in T : \A y \in T : ~(<<y, x>> \in R)
  BY <1>1, WFMin
<1>4. \A y \in T : ~(y < x)
  BY <1>2, <1>3
<1> QED  BY <1>3, <1>4

\* Induction up to a bound, on the set of numbers that have a property.
LEMMA UpTo ==
  ASSUME NEW b \in Nat, NEW S, 0 \in S, \A n \in 0 .. b - 1 : n \in S => n + 1 \in S
  PROVE  \A n \in 0 .. b : n \in S
<1> DEFINE T == {n \in 0 .. b : n \notin S}
<1> SUFFICES ASSUME T # {} PROVE FALSE
  OBVIOUS
<1>1. T \subseteq Nat
  OBVIOUS
<1> HIDE DEF T
<1>2. PICK m \in T : \A y \in T : m <= y
  BY <1>1, Least
<1> USE DEF T
<1>3. m \in 0 .. b /\ m # 0 /\ m \notin S
  BY <1>2
<1>4. m - 1 \in 0 .. b - 1 /\ m - 1 \in 0 .. b /\ ~(m <= m - 1) /\ (m - 1) + 1 = m
  BY <1>3
<1>5. m - 1 \in S
  BY <1>2, <1>4
<1> QED  BY <1>3, <1>4, <1>5

\* Induction over the natural numbers.
LEMMA Induction ==
  ASSUME NEW S, 0 \in S, \A n \in Nat : n \in S => n + 1 \in S
  PROVE  \A n \in Nat : n \in S
<1> TAKE b \in Nat
<1>1. \A n \in 0 .. b - 1 : n \in S => n + 1 \in S
  OBVIOUS
<1>2. \A n \in 0 .. b : n \in S
  BY <1>1, UpTo
<1> QED  BY <1>2

\* The powers of two, from the number of subsets.
LEMMA PowerIs == ASSUME NEW n \in Nat PROVE 2^n \in Nat \ {0}
<1>1. IsFiniteSet(1 .. n) /\ Cardinality(1 .. n) = n
  BY FS_Interval
<1>2. IsFiniteSet(SUBSET (1 .. n)) /\ Cardinality(SUBSET (1 .. n)) = 2^n
  BY <1>1, FS_SUBSET
<1>3. SUBSET (1 .. n) # {}
  OBVIOUS
<1> QED  BY <1>2, <1>3, FS_CardinalityType, FS_EmptySet

\* Powers of two.
LEMMA PowerZero == 2^0 = 1
<1>1. IsFiniteSet({}) /\ Cardinality({}) = 0
  BY FS_EmptySet
<1>2. Cardinality(SUBSET {}) = 2^0
  BY <1>1, FS_SUBSET
<1>3. SUBSET {} = {{}}
  OBVIOUS
<1>4. Cardinality({{}}) = 1
  BY FS_Singleton
<1> QED  BY <1>2, <1>3, <1>4

LEMMA PowerNext == ASSUME NEW n \in Nat PROVE 2^(n + 1) = 2 * 2^n
<1> DEFINE A == 1 .. n
           B == 1 .. n + 1
           x == n + 1
           P == SUBSET A
           Q == {T \cup {x} : T \in P}
           f == [T \in P |-> T \cup {x}]
<1>1. IsFiniteSet(P) /\ Cardinality(P) = 2^n
  <2>1. IsFiniteSet(A) /\ Cardinality(A) = n
    BY FS_Interval
  <2> HIDE DEF A
  <2> QED  BY <2>1, FS_SUBSET
<1>2. IsFiniteSet(B) /\ Cardinality(B) = n + 1
  BY FS_Interval
<1>2a. Cardinality(SUBSET B) = 2^(n + 1)
  <2>1. Cardinality(SUBSET B) = 2^Cardinality(B)
    BY <1>2, FS_SUBSET
  <2> HIDE DEF B
  <2> QED  BY <1>2, <2>1
<1>3. B = A \cup {x} /\ x \notin A
  OBVIOUS
<1> HIDE DEF A, B, x
<1>4. f \in Surjection(P, Q)
  BY DEF Surjection
<1>5. f \in Injection(P, Q)
  <2>1. \A S, T \in P : S \cup {x} = T \cup {x} => S = T
    BY <1>3
  <2>2. \A S, T \in P : f[S] = f[T] => S = T
    BY <2>1
  <2> QED  BY <1>4, <2>2 DEF Surjection, Injection, IsInjective
<1> HIDE DEF f
<1>6. IsFiniteSet(Q) /\ Cardinality(Q) = Cardinality(P)
  <2> HIDE DEF P, Q
  <2> QED  BY <1>1, <1>4, <1>5, FS_Surjection
<1>7. SUBSET B = P \cup Q
  <2>1. ASSUME NEW T \in SUBSET B PROVE T \in P \cup Q
    <3>1. CASE x \in T
      <4>1. T \ {x} \in P /\ (T \ {x}) \cup {x} = T
        BY <1>3, <3>1
      <4> QED  BY <4>1
    <3>2. CASE x \notin T
      BY <1>3, <3>2
    <3> QED  BY <3>1, <3>2
  <2>2. P \cup Q \subseteq SUBSET B
    BY <1>3
  <2> QED  BY <2>1, <2>2
<1>8. P \cap Q = {}
  BY <1>3
<1>9. Cardinality(P \cup Q) = Cardinality(P) + Cardinality(Q) - 0
  <2> HIDE DEF P, Q
  <2>1. Cardinality(P \cap Q) = 0
    BY <1>8, FS_EmptySet
  <2> QED  BY <1>1, <1>6, <2>1, FS_Union
<1> HIDE DEF P, Q
<1>10. 2^n \in Nat
  BY PowerIs
<1> DEFINE p == 2^n
<1>11. p \in Nat /\ Cardinality(P) = p /\ Cardinality(Q) = p
  BY <1>1, <1>6, <1>10
<1> HIDE DEF p
<1>12. Cardinality(P) + Cardinality(Q) - 0 = 2 * p
  BY <1>11
<1>13. Cardinality(SUBSET B) = 2 * p
  BY <1>7, <1>9, <1>12
<1> QED  BY <1>2a, <1>13 DEF p

LEMMA PowerSum == ASSUME NEW a \in Nat, NEW b \in Nat PROVE 2^(a + b) = 2^a * 2^b
<1> DEFINE S == {n \in Nat : 2^(a + n) = 2^a * 2^n}
<1>1. 0 \in S
  <2> DEFINE p == 2^a
  <2>1. p \in Nat /\ a + 0 = a
    BY PowerIs
  <2> HIDE DEF p
  <2>2. p * 1 = p
    BY <2>1
  <2> QED  BY <2>1, <2>2, PowerZero DEF p
<1>2. ASSUME NEW n \in Nat, n \in S PROVE n + 1 \in S
  <2> DEFINE p == 2^a
             q == 2^n
             m == a + n
  <2>1. p \in Nat /\ q \in Nat /\ m \in Nat /\ a + (n + 1) = m + 1
    BY PowerIs
  <2>2. 2^(m + 1) = 2 * 2^m /\ 2^(n + 1) = 2 * q
    <3> HIDE DEF m
    <3> QED  BY <2>1, PowerNext
  <2>3. 2^m = p * q
    BY <1>2
  <2> HIDE DEF p, q
  <2>4. 2 * (p * q) = p * (2 * q)
    BY <2>1
  <2>5. 2^(a + (n + 1)) = p * 2^(n + 1)
    <3> HIDE DEF m
    <3> QED  BY <2>1, <2>2, <2>3, <2>4
  <2> QED  BY <2>5 DEF p
<1> HIDE DEF S
<1>3. b \in S
  BY <1>1, <1>2, Induction
<1> QED  BY <1>3 DEF S

LEMMA PowerGrows ==
  ASSUME NEW a \in Nat, NEW b \in Nat, a < b
  PROVE  \E m \in Nat \ {0} : 2^b = 2^(a + 1) * m
<1> DEFINE c == b - (a + 1)
           d == a + 1
<1>1. c \in Nat /\ d \in Nat /\ d + c = b
  OBVIOUS
<1> HIDE DEF c
<1>2. 2^(d + c) = 2^d * 2^c /\ 2^c \in Nat \ {0}
  <2> HIDE DEF d
  <2> QED  BY <1>1, PowerSum, PowerIs
<1> QED  BY <1>1, <1>2

LEMMA PowerMonotonic ==
  ASSUME NEW a \in Nat, NEW b \in Nat, a < b
  PROVE  2 * 2^a <= 2^b
<1>1. PICK m \in Nat \ {0} : 2^b = 2^(a + 1) * m
  BY PowerGrows
<1> DEFINE p == 2^a
           q == 2^b
<1>2. p \in Nat /\ q \in Nat /\ q = (2 * p) * m
  BY <1>1, PowerIs, PowerNext
<1> HIDE DEF p, q
<1>3. 2 * p <= (2 * p) * m
  BY <1>2
<1>4. 2 * p <= q
  BY <1>2, <1>3
<1> QED  BY <1>4 DEF p, q

LEMMA PowerExceeds == ASSUME NEW b \in Nat PROVE b < 2^b
<1> DEFINE S == {n \in Nat : n < 2^n}
<1>1. 0 \in S
  BY PowerZero
<1>2. ASSUME NEW n \in Nat, n \in S PROVE n + 1 \in S
  <2> DEFINE p == 2^n
  <2>1. p \in Nat /\ n < p /\ 2^(n + 1) = 2 * p
    BY <1>2, PowerIs, PowerNext
  <2> HIDE DEF p
  <2>2. n + 1 < 2 * p
    BY <2>1
  <2> QED  BY <2>1, <2>2
<1> HIDE DEF S
<1>3. b \in S
  BY <1>1, <1>2, Induction
<1> QED  BY <1>3 DEF S

\* log2 finds the power of two below a number.
LEMMA Log2Is ==
  ASSUME NEW h \in Nat, NEW x \in Nat, 2^h <= x, x < 2^(h + 1)
  PROVE  Log2(x) = h
<1> DEFINE W(k) == 2^k <= x /\ x < 2^(k + 1)
<1>1. h < 2^h /\ 2^h \in Nat \ {0}
  BY PowerExceeds, PowerIs
<1>2. x # 0 /\ h \in 0 .. x
  <2> DEFINE p == 2^h
  <2>1. p \in Nat \ {0} /\ h < p /\ p <= x
    BY <1>1
  <2> HIDE DEF p
  <2> QED  BY <2>1
<1>3. ASSUME NEW k \in 0 .. x, W(k) PROVE k = h
  <2> DEFINE p == 2^h
             q == 2^k
  <2>1. p \in Nat /\ q \in Nat /\ k \in Nat
    BY PowerIs
  <2>2. 2^(h + 1) = 2 * p /\ 2^(k + 1) = 2 * q
    BY <2>1, PowerNext
  <2>3. p <= x /\ x < 2 * p /\ q <= x /\ x < 2 * q
    BY <1>3, <2>2
  <2>4. h < k => 2 * p <= q
    BY <2>1, PowerMonotonic
  <2>5. k < h => 2 * q <= p
    BY <2>1, PowerMonotonic
  <2> HIDE DEF p, q, W
  <2> QED  BY <2>1, <2>3, <2>4, <2>5
<1>4. W(h)
  OBVIOUS
<1>5. Log2(x) = CHOOSE k \in 0 .. x : W(k)
  BY <1>2 DEF Log2
<1> HIDE DEF W
<1> QED  BY <1>2, <1>3, <1>4, <1>5

\* Division with remainder.
LEMMA Remainder ==
  ASSUME NEW q \in Nat, NEW p \in Nat \ {0}, NEW r \in 0 .. p - 1
  PROVE  (q * p + r) % p = r /\ (q * p + r) \div p = q
<1>1. (q * p + r) % p = r
  OBVIOUS
<1>2. (q * p + r) \div p = q
  OBVIOUS
<1> QED  BY <1>1, <1>2

\* Quotient and remainder of a multiple plus something smaller.
LEMMA DivMod ==
  ASSUME NEW n \in Nat, NEW p \in Nat \ {0}
  PROVE  n \div p \in Nat /\ (n % p) \in 0 .. p - 1 /\ n = (n \div p) * p + (n % p)
<1>1. n \div p \in Nat
  OBVIOUS
<1>2. (n % p) \in 0 .. p - 1
  OBVIOUS
<1>3. n = (n \div p) * p + (n % p)
  OBVIOUS
<1> QED  BY <1>1, <1>2, <1>3

-----------------------------------------------------------------------------
(* The nodes of a level.                                                    *)

\* The node of a level with a given upper half.
NodeAt(l, u) == u * 2^(l + 1) + 2^l - 1

\* The trailing ones of the u-th node of level l.
LEMMA TrailingOnes ==
  ASSUME NEW l \in Nat, NEW u \in Nat, NEW k \in Nat, k < l
  PROVE  NodeAt(l, u) % 2^(k + 1) = 2^(k + 1) - 1
<1> DEFINE p == 2^(k + 1)
           q == 2^l
<1>1. p \in Nat \ {0} /\ q \in Nat \ {0} /\ 2^(l + 1) = 2 * q
  BY PowerIs, PowerNext
<1>2. PICK m \in Nat \ {0} : q = p * m
  BY PowerGrows
<1>3. NodeAt(l, u) = u * (2 * q) + q - 1
  BY <1>1 DEF NodeAt
<1> DEFINE a == u * (2 * m) + m - 1
<1> HIDE DEF p, q
<1>4. a \in Nat /\ p - 1 \in 0 .. p - 1
  BY <1>1, <1>2
<1>5. u * (2 * q) = (u * (2 * m)) * p
  BY <1>1, <1>2
<1>6. a * p = (u * (2 * m)) * p + m * p - p
  <2> DEFINE b == u * (2 * m)
  <2>1. b \in Nat
    OBVIOUS
  <2> HIDE DEF b
  <2>2. (b + m - 1) * p = b * p + m * p - p
    BY <1>1, <2>1
  <2> QED  BY <2>2 DEF b
<1>7. NodeAt(l, u) = a * p + (p - 1)
  <2>1. m * p = q
    BY <1>1, <1>2
  <2> DEFINE b == u * (2 * q)
             c == (u * (2 * m)) * p
  <2>2. b \in Nat /\ b = c
    BY <1>1, <1>5
  <2>3. a * p = c + q - p /\ NodeAt(l, u) = b + q - 1
    BY <1>3, <1>6, <2>1
  <2> HIDE DEF a, b, c
  <2> QED  BY <1>1, <1>4, <2>2, <2>3
<1>8. (a * p + (p - 1)) % p = p - 1
  <2> HIDE DEF a
  <2> QED  BY <1>1, <1>4, Remainder
<1> QED  BY <1>7, <1>8 DEF p

\* Nodes are natural numbers.
LEMMA NodeAtNat ==
  ASSUME NEW l \in Nat, NEW u \in Nat
  PROVE  NodeAt(l, u) \in Nat /\ l <= NodeAt(l, u)
<1> DEFINE q == 2^l
           p == 2^(l + 1)
           b == u * p
<1>1. q \in Nat \ {0} /\ p \in Nat /\ l < q
  BY PowerIs, PowerExceeds
<1>2. b \in Nat
  BY <1>1
<1>3. NodeAt(l, u) = b + q - 1
  BY DEF NodeAt
<1> HIDE DEF p, q, b
<1> QED  BY <1>1, <1>2, <1>3

\* The level of a node is the one it is the u-th of.
LEMMA LevelAt ==
  ASSUME NEW l \in Nat, NEW u \in Nat
  PROVE  Level(NodeAt(l, u)) = l
<1> DEFINE n == NodeAt(l, u)
           W(k) == n % 2^(k + 1) = 2^k - 1
<1>1. n \in Nat /\ l \in 0 .. n
  BY NodeAtNat
<1>2. ASSUME NEW j \in Nat, NEW v \in Nat PROVE NodeAt(j, v) % 2^(j + 1) = 2^j - 1
  <2> DEFINE p == 2^(j + 1)
             q == 2^j
  <2>1. p \in Nat \ {0} /\ q \in Nat \ {0} /\ p = 2 * q
    BY PowerIs, PowerNext
  <2>2. NodeAt(j, v) = v * p + (q - 1)
    <3> DEFINE b == v * p
    <3>1. b \in Nat /\ NodeAt(j, v) = b + q - 1
      BY <2>1 DEF NodeAt
    <3> HIDE DEF b, p, q
    <3>2. NodeAt(j, v) = b + (q - 1)
      BY <2>1, <3>1
    <3> QED  BY <3>2 DEF b
  <2> HIDE DEF p, q
  <2>3. q - 1 \in 0 .. p - 1
    BY <2>1
  <2> DEFINE r == q - 1
             t == v * p + r
  <2>4. t % p = r
    <3> HIDE DEF r
    <3>1. r \in 0 .. p - 1
      BY <2>3 DEF r
    <3> QED  BY <2>1, <3>1, Remainder
  <2>5. NodeAt(j, v) = t
    BY <2>2
  <2> HIDE DEF t
  <2>6. NodeAt(j, v) % p = r
    BY <2>4, <2>5
  <2> QED  BY <2>6 DEF p, q
<1>3. W(l)
  BY <1>2
<1>4. \A j \in Nat : 2^(j + 1) - 1 # 2^j - 1
  <2> TAKE j \in Nat
  <2> DEFINE p == 2^(j + 1)
             q == 2^j
  <2>1. p \in Nat \ {0} /\ q \in Nat \ {0} /\ p = 2 * q
    BY PowerIs, PowerNext
  <2> HIDE DEF p, q
  <2>2. p - 1 # q - 1
    BY <2>1
  <2> QED  BY <2>2 DEF p, q
<1>5. ASSUME NEW k \in 0 .. n, W(k) PROVE k = l
  <2>1. CASE k < l
    <3>1. n % 2^(k + 1) = 2^(k + 1) - 1
      BY <1>1, <2>1, TrailingOnes
    <3> QED  BY <1>4, <1>5, <3>1
  <2>2. CASE k > l
    <3> DEFINE p == 2^(k + 1)
               q == 2^k
               b == n \div p
               m == n % p
    <3>1. k \in Nat /\ p \in Nat \ {0} /\ q \in Nat \ {0}
      BY <1>1, PowerIs
    <3>2. b \in Nat /\ n = b * p + m
      <4> HIDE DEF p, n
      <4> QED  BY <1>1, <3>1, DivMod
    <3>3. m = q - 1
      BY <1>5
    <3>4. NodeAt(k, b) = b * p + q - 1
      BY DEF NodeAt
    <3>5. n = NodeAt(k, b)
      <4> DEFINE c == b * p
      <4>1. c \in Nat
        <5> HIDE DEF b, p
        <5> QED  BY <3>1, <3>2
      <4>2. n = c + m /\ NodeAt(k, b) = c + q - 1
        BY <3>2, <3>4
      <4> HIDE DEF b, c, m, n, p, q
      <4> QED  BY <3>1, <3>3, <4>1, <4>2
    <3>6. n % 2^(l + 1) = 2^(l + 1) - 1
      <4> HIDE DEF n, b
      <4> QED  BY <2>2, <3>1, <3>2, <3>5, TrailingOnes
    <3> QED  BY <1>3, <1>4, <3>6
  <2> QED  BY <1>1, <2>1, <2>2
<1>6. Level(n) = CHOOSE k \in 0 .. n : W(k)
  BY DEF Level
<1> HIDE DEF W, n
<1>7. Level(n) = l
  BY <1>1, <1>3, <1>5, <1>6
<1> QED  BY <1>7 DEF n

\* The children of the u-th node of a level are number 2u and 2u + 1 of the level below.
LEMMA ChildrenAt ==
  ASSUME NEW l \in Nat \ {0}, NEW u \in Nat
  PROVE  /\ LeftChild(NodeAt(l, u)) = NodeAt(l - 1, 2 * u)
         /\ RightChild(NodeAt(l, u)) = NodeAt(l - 1, 2 * u + 1)
<1> DEFINE k == l - 1
           q == 2^k
<1>1. k \in Nat /\ k + 1 = l
  OBVIOUS
<1>2. q \in Nat \ {0} /\ 2^(k + 1) = 2 * q
  <2> HIDE DEF k
  <2> QED  BY <1>1, PowerIs, PowerNext
<1>3. 2^l = 2 * q
  <2> HIDE DEF k, q
  <2> QED  BY <1>1, <1>2
<1>4. 2^(l + 1) = 4 * q
  <2> DEFINE r == 2^l
  <2>1. 2^(l + 1) = 2 * r
    BY PowerNext
  <2> HIDE DEF r, q
  <2>2. 2 * r = 4 * q
    BY <1>2, <1>3 DEF r
  <2> QED  BY <2>1, <2>2
<1>5. NodeAt(l, u) = u * (4 * q) + 2 * q - 1
  BY <1>3, <1>4 DEF NodeAt
<1>6. \A v \in Nat : NodeAt(k, v) = v * (2 * q) + q - 1
  <2> HIDE DEF k
  <2> QED  BY <1>1, <1>2 DEF NodeAt, k
<1>7. Level(NodeAt(l, u)) - 1 = k
  BY LevelAt
<1>8. LeftChild(NodeAt(l, u)) = NodeAt(l, u) - q /\ RightChild(NodeAt(l, u)) = NodeAt(l, u) + q
  BY <1>7 DEF LeftChild, RightChild
<1>9. NodeAt(k, 2 * u) = (2 * u) * (2 * q) + q - 1 /\ NodeAt(k, 2 * u + 1) = (2 * u + 1) * (2 * q) + q - 1
  BY <1>6
<1> DEFINE a == u * (4 * q)
           b == (2 * u) * (2 * q)
           c == (2 * u + 1) * (2 * q)
           n == NodeAt(l, u)
<1>10. a \in Nat /\ b = a /\ c = a + 2 * q
  <2> HIDE DEF k, q
  <2> QED  BY <1>2
<1>11. /\ n = a + 2 * q - 1 /\ NodeAt(k, 2 * u) = b + q - 1
       /\ NodeAt(k, 2 * u + 1) = c + q - 1
  BY <1>5, <1>9
<1> HIDE DEF k, q, a, b, c, n
<1>12. n - q = NodeAt(k, 2 * u) /\ n + q = NodeAt(k, 2 * u + 1)
  BY <1>2, <1>10, <1>11
<1> QED  BY <1>8, <1>12 DEF k, n

-----------------------------------------------------------------------------
(* The numbering of the nodes by subcircuits.                               *)

ParamsInv == params \in [leaves : LeafCounts, portals : PortalCounts, binary : Binary]

Height == Log2(NumLeaves)

\* The circuit's sizes: a power of two of leaves, and twice as many subcircuits.
LEMMA SizeIs ==
  ASSUME ParamsInv
  PROVE  /\ NumLeaves \in Nat /\ NumLeaves >= 2
         /\ Height \in Nat \ {0} /\ 2^Height = NumLeaves
         /\ NumSubcircuits \in Nat /\ NumSubcircuits = 2 * NumLeaves
<1> DEFINE L == NumLeaves
<1>1. L \in Nat /\ \E h \in 1 .. L : L = 2^h
  BY ParamsAssumption DEF ParamsInv, NumLeaves
<1>2. PICK h \in 1 .. L : L = 2^h
  BY <1>1
<1>3. h \in Nat \ {0} /\ h < 2^h
  <2>1. h \in Nat \ {0}
    BY <1>1
  <2> QED  BY <2>1, PowerExceeds
<1>4. L >= 2
  <2> HIDE DEF L
  <2> QED  BY <1>1, <1>2, <1>3
<1>5. Log2(L) = h
  <2> HIDE DEF L
  <2>1. 2^(h + 1) = 2 * L
    BY <1>2, <1>3, PowerNext
  <2> QED  BY <1>1, <1>2, <1>3, <1>4, <2>1, Log2Is
<1> QED  BY <1>1, <1>2, <1>3, <1>4, <1>5 DEF Height, NumSubcircuits

\* Every level has half the nodes of the one below, one at least.
LEMMA LevelSizes ==
  ASSUME ParamsInv, NEW l \in 0 .. Height
  PROVE  /\ l \in Nat
         /\ LevelSize(l) \in Nat \ {0} /\ LevelSize(l) * 2^l = NumLeaves
         /\ \A m \in 0 .. Height : l < m => 2 * LevelSize(m) <= LevelSize(l)
         /\ l > 0 => l - 1 \in 0 .. Height /\ LevelSize(l - 1) = 2 * LevelSize(l)
<1> DEFINE H == Height
<1>1. H \in Nat \ {0} /\ 2^H = NumLeaves /\ \A m : LevelSize(m) = 2^(H - m)
  BY SizeIs DEF Height, LevelSize
<1>2. l \in Nat /\ H - l \in Nat
  BY <1>1
<1> HIDE DEF H
<1>3. LevelSize(l) \in Nat \ {0}
  BY <1>1, <1>2, PowerIs
<1>4. LevelSize(l) * 2^l = NumLeaves
  <2> DEFINE c == H - l
  <2>1. c \in Nat /\ c + l = H
    BY <1>1, <1>2
  <2> HIDE DEF c
  <2>2. 2^H = 2^c * 2^l
    BY <1>2, <2>1, PowerSum
  <2> QED  BY <1>1, <2>2 DEF c
<1>5. ASSUME NEW m \in 0 .. H, l < m PROVE 2 * LevelSize(m) <= LevelSize(l)
  <2> DEFINE a == H - m
             b == H - l
  <2>1. a \in Nat /\ b \in Nat /\ a < b
    BY <1>1, <1>2, <1>5
  <2> HIDE DEF a, b
  <2>2. 2 * 2^a <= 2^b
    BY <2>1, PowerMonotonic
  <2> QED  BY <1>1, <2>2 DEF a, b
<1>6. ASSUME l > 0 PROVE l - 1 \in 0 .. H /\ LevelSize(l - 1) = 2 * LevelSize(l)
  <2> DEFINE a == H - l
             b == H - (l - 1)
  <2>1. a \in Nat /\ b = a + 1 /\ l - 1 \in 0 .. H
    BY <1>1, <1>2, <1>6 DEF H
  <2> HIDE DEF a, b
  <2>2. 2^b = 2 * 2^a
    BY <2>1, PowerNext
  <2> QED  BY <1>1, <2>1, <2>2 DEF a, b
<1> QED  BY <1>2, <1>3, <1>4, <1>5, <1>6 DEF H

\* The lowest and the highest level.
LEMMA LevelEnds ==
  ASSUME ParamsInv
  PROVE  /\ Height \in 0 .. Height /\ LevelSize(Height) = 1 /\ LevelStart(Height) = NumSubcircuits - 2
         /\ 0 \in 0 .. Height /\ LevelSize(0) = NumLeaves /\ LevelStart(0) = 0
<1>1. Height \in Nat /\ Height - Height = 0 /\ Height - 0 = Height
  BY SizeIs
<1>2. LevelSize(Height) = 1
  BY <1>1, PowerZero DEF LevelSize, Height
<1>3. LevelSize(0) = NumLeaves
  BY <1>1, SizeIs DEF LevelSize, Height
<1> QED  BY <1>1, <1>2, <1>3, SizeIs DEF LevelStart

\* The root is the one node of the highest level.
LEMMA RootAt ==
  ASSUME ParamsInv
  PROVE  /\ RootIdx(NumLeaves) = NodeAt(Height, 0)
         /\ Level(RootIdx(NumLeaves)) = Height
<1> DEFINE L == NumLeaves
           H == Height
           x == 2 * (L - 1) + 1
<1>1. L \in Nat /\ L >= 2 /\ H \in Nat /\ 2^H = L
  BY SizeIs
<1> HIDE DEF L, H
<1>2. x \in Nat /\ L <= x /\ x < 2 * L
  BY <1>1
<1>3. 2^(H + 1) = 2 * L
  BY <1>1, PowerNext
<1> HIDE DEF x
<1>4. Log2(x) = H
  BY <1>1, <1>2, <1>3, Log2Is
<1>5. RootIdx(L) = L - 1
  BY <1>1, <1>4 DEF RootIdx, x
<1>6. NodeAt(H, 0) = L - 1
  <2>1. 0 * 2^(H + 1) = 0
    BY <1>1, <1>3
  <2> QED  BY <1>1, <2>1 DEF NodeAt
<1>7. Level(NodeAt(H, 0)) = H
  BY <1>1, LevelAt
<1> QED  BY <1>5, <1>6, <1>7 DEF L, H

\* The subcircuit with a place on a level has the node there.
LEMMA SubcircuitAt ==
  ASSUME ParamsInv, NEW l \in 0 .. Height, NEW u \in 0 .. LevelSize(l) - 1
  PROVE  /\ LevelStart(l) + u \in 0 .. NumSubcircuits - 2
         /\ SubcircuitIdxToNodeIdx(LevelStart(l) + u) = NodeAt(l, u)
<1> DEFINE i == LevelStart(l) + u
           Within(k) == i \in LevelStart(k) .. LevelStart(k) + LevelSize(k) - 1
           N == NumSubcircuits
<1>1. N \in Nat /\ \A k \in 0 .. Height : LevelSize(k) \in Nat \ {0} /\ 2 * LevelSize(k) <= N
  <2>1. \A k \in 0 .. Height : LevelSize(k) \in Nat \ {0} /\ (k > 0 => 2 * LevelSize(k) <= LevelSize(0))
    <3>1. \A k \in 0 .. Height : 0 < k => 2 * LevelSize(k) <= LevelSize(0)
      BY LevelEnds, LevelSizes
    <3> QED  BY <3>1, LevelSizes
  <2>2. \A k \in 0 .. Height : k \in Nat
    BY LevelSizes
  <2> QED  BY <2>1, <2>2, LevelEnds, SizeIs
<1>2. \A k : LevelStart(k) = N - 2 * LevelSize(k)
  BY DEF LevelStart
<1>3. i \in 0 .. N - 2 /\ Within(l)
  BY <1>1, <1>2
<1>4. ASSUME NEW k \in 0 .. Height, Within(k) PROVE k = l
  <2> DEFINE a == LevelSize(k)
             b == LevelSize(l)
  <2>1. k \in Nat /\ l \in Nat /\ a \in Nat \ {0} /\ b \in Nat \ {0}
    BY <1>1, LevelSizes
  <2>2. k < l => 2 * b <= a
    BY LevelSizes
  <2>3. l < k => 2 * a <= b
    BY LevelSizes
  <2>4. i = N - 2 * b + u /\ N - 2 * a <= i /\ i <= N - 2 * a + a - 1
    BY <1>2, <1>4, <1>1
  <2>5. u \in 0 .. b - 1
    OBVIOUS
  <2> HIDE DEF a, b, i, N
  <2> QED  BY <1>1, <2>1, <2>2, <2>3, <2>4, <2>5
<1>5. SubcircuitIdxToNodeIdx(i)
        = LET level == CHOOSE k \in 0 .. Height : Within(k)
          IN  (i - LevelStart(level)) * 2^(level + 1) + 2^level - 1
  BY RootAt DEF SubcircuitIdxToNodeIdx
<1>6. (CHOOSE k \in 0 .. Height : Within(k)) = l
  <2> HIDE DEF Within
  <2> QED  BY <1>3, <1>4
<1>7. i - LevelStart(l) = u
  BY <1>1, <1>2
<1>8. SubcircuitIdxToNodeIdx(i) = NodeAt(l, u)
  <2> HIDE DEF i, Within
  <2> QED  BY <1>5, <1>6, <1>7 DEF NodeAt
<1> QED  BY <1>3, <1>8

\* Every subcircuit but the padding has such a place.
LEMMA PlaceOf ==
  ASSUME ParamsInv, NEW i \in 0 .. NumSubcircuits - 2
  PROVE  \E l \in 0 .. Height : \E u \in 0 .. LevelSize(l) - 1 : i = LevelStart(l) + u
<1> DEFINE N == NumSubcircuits
           T == {k \in 0 .. Height : i <= N - LevelSize(k) - 1}
<1>1. N \in Nat /\ i \in 0 .. N - 2 /\ Height \in Nat
  BY SizeIs
<1>2. Height \in T
  BY <1>1, LevelEnds
<1>3. T \subseteq Nat
  BY <1>1
<1> HIDE DEF T
<1>4. PICK l \in T : \A k \in T : l <= k
  BY <1>2, <1>3, Least
<1> USE DEF T
<1>5. l \in 0 .. Height /\ l \in Nat /\ LevelSize(l) \in Nat \ {0} /\ i <= N - LevelSize(l) - 1
  BY <1>4, LevelSizes
<1>6. LevelStart(l) <= i
  <2>1. CASE l = 0
    BY <1>1, <2>1, LevelEnds
  <2>2. CASE l > 0
    <3>1. l - 1 \in 0 .. Height /\ LevelSize(l - 1) = 2 * LevelSize(l)
      BY <1>5, <2>2, LevelSizes
    <3>2. l - 1 \notin T
      BY <1>4, <1>5
    <3>3. ~(i <= N - 2 * LevelSize(l) - 1)
      BY <3>1, <3>2
    <3> QED  BY <1>1, <1>5, <3>3 DEF LevelStart
  <2> QED  BY <1>5, <2>1, <2>2
<1> DEFINE u == i - LevelStart(l)
<1>7. u \in 0 .. LevelSize(l) - 1 /\ i = LevelStart(l) + u
  <2>1. LevelStart(l) = N - 2 * LevelSize(l)
    BY DEF LevelStart
  <2> QED  BY <1>1, <1>5, <1>6, <2>1
<1> QED  BY <1>5, <1>7

\* What a node's place in its level is, from its number.
LEMMA QuotientAt ==
  ASSUME NEW l \in Nat, NEW u \in Nat
  PROVE  NodeAt(l, u) \div 2^(l + 1) = u
<1> DEFINE p == 2^(l + 1)
           q == 2^l
           r == q - 1
           t == u * p + r
<1>1. p \in Nat \ {0} /\ q \in Nat \ {0} /\ p = 2 * q
  BY PowerIs, PowerNext
<1>2. NodeAt(l, u) = t
  <2> DEFINE b == u * p
  <2>1. b \in Nat /\ NodeAt(l, u) = b + q - 1
    BY <1>1 DEF NodeAt
  <2> HIDE DEF b, p, q
  <2>2. NodeAt(l, u) = b + (q - 1)
    BY <1>1, <2>1
  <2> QED  BY <2>2 DEF b
<1>3. t \div p = u
  <2> HIDE DEF p, q
  <2>1. r \in 0 .. p - 1
    BY <1>1
  <2> HIDE DEF r
  <2> QED  BY <1>1, <2>1, Remainder
<1> HIDE DEF t
<1> QED  BY <1>2, <1>3

\* Two levels have no node in common, two places of a level neither.
LEMMA NodeAtInjective ==
  ASSUME NEW l \in Nat, NEW u \in Nat, NEW m \in Nat, NEW v \in Nat,
         NodeAt(l, u) = NodeAt(m, v)
  PROVE  l = m /\ u = v
<1>1. l = m
  BY LevelAt
<1>2. NodeAt(l, v) = NodeAt(m, v)
  BY <1>1
<1>3. u = NodeAt(l, u) \div 2^(l + 1) /\ v = NodeAt(l, v) \div 2^(l + 1)
  BY QuotientAt
<1>4. NodeAt(l, u) = NodeAt(l, v)
  BY <1>2
<1> QED  BY ONLY <1>1, <1>3, <1>4, Zenon

\* The leaves are the even nodes.
LEMMA LowestAt == \A u \in Nat : NodeAt(0, u) = 2 * u
<1>1. 2^(0 + 1) = 2 /\ 2^0 = 1
  BY PowerZero, PowerNext
<1> QED  BY <1>1 DEF NodeAt

\* A tree of some height has no nodes but these.
LEMMA NodesOfHeight ==
  ASSUME NEW h \in Nat, NEW n \in 0 .. 2 * 2^h - 2
  PROVE  \E l \in 0 .. h : \E u \in 0 .. 2^(h - l) - 1 : n = NodeAt(l, u)
<1> DEFINE Has(g, k) == \E l \in 0 .. g : \E u \in 0 .. 2^(g - l) - 1 : k = NodeAt(l, u)
           S == {g \in Nat : \A k \in 0 .. 2 * 2^g - 2 : Has(g, k)}
<1>1. 0 \in S
  <2>1. NodeAt(0, 0) = 0 /\ 2^0 = 1
    BY LowestAt, PowerZero
  <2>2. Has(0, 0)
    <3>1. 0 \in 0 .. 2^(0 - 0) - 1
      BY <2>1
    <3>2. 0 \in 0 .. 0
      OBVIOUS
    <3> QED  BY <2>1, <3>1, <3>2
  <2>3. \A k \in 0 .. 2 * 2^0 - 2 : k = 0
    BY <2>1
  <2> HIDE DEF Has
  <2> QED  BY <2>2, <2>3
<1>2. ASSUME NEW g \in Nat, g \in S PROVE g + 1 \in S
  <2> DEFINE p == 2^g
  <2>1. p \in Nat \ {0} /\ 2^(g + 1) = 2 * p
    BY PowerIs, PowerNext
  <2>2. ASSUME NEW k \in 0 .. 2 * (2 * p) - 2 PROVE Has(g + 1, k)
    <3> HIDE DEF p
    <3>1. k \in Nat /\ k \div 2 \in Nat /\ (k = 2 * (k \div 2) \/ k = 2 * (k \div 2) + 1)
      BY <2>1
    <3> DEFINE m == k \div 2
    <3> HIDE DEF m
    <3>2. CASE k = 2 * m
      <4>1. m \in 0 .. 2 * p - 1
        BY <2>1, <2>2, <3>1, <3>2 DEF m
      <4>2. (g + 1) - 0 = g + 1 /\ 0 \in 0 .. g + 1
        OBVIOUS
      <4>3. m \in 0 .. 2^((g + 1) - 0) - 1
        BY <2>1, <4>1, <4>2
      <4>4. k = NodeAt(0, m)
        BY <3>2, <4>1, LowestAt
      <4> QED  BY <4>2, <4>3, <4>4
    <3>3. CASE k = 2 * m + 1
      <4>1. m \in 0 .. 2 * p - 2
        BY <2>1, <2>2, <3>1, <3>3 DEF m
      <4>2. Has(g, m)
        <5> HIDE DEF Has
        <5> QED  BY <1>2, <4>1 DEF p
      <4>3. PICK l \in 0 .. g : \E u \in 0 .. 2^(g - l) - 1 : m = NodeAt(l, u)
        BY <4>2
      <4>4. PICK u \in 0 .. 2^(g - l) - 1 : m = NodeAt(l, u)
        BY <4>3
      <4>5. l + 1 \in 0 .. g + 1 /\ (g + 1) - (l + 1) = g - l /\ l \in Nat /\ g - l \in Nat
        OBVIOUS
      <4>6. u \in 0 .. 2^((g + 1) - (l + 1)) - 1
        BY <4>5
      <4>7. u \in Nat
        <5>1. 2^(g - l) \in Nat
          BY <4>5, PowerIs
        <5> QED  BY <5>1
      <4>8. k = NodeAt(l + 1, u)
        <5> DEFINE q == 2^l
                   j == l + 1
        <5>1. q \in Nat \ {0} /\ 2^j = 2 * q
          BY <4>5, PowerIs, PowerNext
        <5>2. 2^(j + 1) = 2 * (2 * q)
          <6>1. j \in Nat
            BY <4>5
          <6> HIDE DEF j
          <6> QED  BY <5>1, <6>1, PowerNext
        <5> HIDE DEF q
        <5>3. m = u * (2 * q) + q - 1
          BY <4>4, <5>1 DEF NodeAt, q
        <5>4. NodeAt(j, u) = u * (2 * (2 * q)) + 2 * q - 1
          <6> HIDE DEF j
          <6> QED  BY <5>1, <5>2 DEF NodeAt
        <5> DEFINE b == u * (2 * q)
                   c == u * (2 * (2 * q))
        <5>5. b \in Nat /\ c = 2 * b
          BY <4>7, <5>1
        <5>6. m = b + q - 1 /\ NodeAt(j, u) = c + 2 * q - 1
          BY <5>3, <5>4
        <5> HIDE DEF b, c, j
        <5>7. k = NodeAt(j, u)
          BY <3>3, <5>1, <5>5, <5>6
        <5> QED  BY <5>7 DEF j
      <4> QED  BY <4>5, <4>6, <4>8
    <3> HIDE DEF Has
    <3> QED  BY <3>1, <3>2, <3>3 DEF m
  <2> HIDE DEF p, Has
  <2>3. \A k \in 0 .. 2 * 2^(g + 1) - 2 : Has(g + 1, k)
    BY <2>1, <2>2
  <2> QED  BY <2>3
<1> HIDE DEF S
<1>3. h \in S
  BY <1>1, <1>2, Induction
<1> USE DEF S
<1>4. Has(h, n)
  <2> HIDE DEF Has
  <2> QED  BY <1>3
<1> QED  BY <1>4

-----------------------------------------------------------------------------
(* Nodes by subcircuit.                                                     *)

NodeOf(i) == SubcircuitIdxToNodeIdx(i)
Places == 0 .. NumSubcircuits - 2

\* The subcircuits of the children: the numbering doubles from level to level.
LeftSub(i) == 2 * (i - NumLeaves)
RightSub(i) == 2 * (i - NumLeaves) + 1

\* Two subcircuits have different nodes.
LEMMA NodeInjective ==
  ASSUME ParamsInv, NEW i \in Places, NEW j \in Places, NodeOf(i) = NodeOf(j)
  PROVE  i = j
<1>1. PICK l \in 0 .. Height : \E u \in 0 .. LevelSize(l) - 1 : i = LevelStart(l) + u
  BY PlaceOf DEF Places
<1>2. PICK u \in 0 .. LevelSize(l) - 1 : i = LevelStart(l) + u
  BY <1>1
<1>3. PICK m \in 0 .. Height : \E v \in 0 .. LevelSize(m) - 1 : j = LevelStart(m) + v
  BY PlaceOf DEF Places
<1>4. PICK v \in 0 .. LevelSize(m) - 1 : j = LevelStart(m) + v
  BY <1>3
<1>5. NodeAt(l, u) = NodeAt(m, v)
  BY <1>2, <1>4, SubcircuitAt DEF NodeOf
<1>6. l \in Nat /\ m \in Nat /\ u \in Nat /\ v \in Nat
  BY LevelSizes
<1>7. l = m /\ u = v
  BY <1>5, <1>6, NodeAtInjective
<1> QED  BY <1>2, <1>4, <1>7

\* And every node has a subcircuit.
LEMMA NodeSurjective ==
  ASSUME ParamsInv, NEW n \in Node
  PROVE  \E i \in Places : NodeOf(i) = n
<1>1. Height \in Nat /\ n \in 0 .. 2 * 2^Height - 2
  BY SizeIs DEF Node
<1>2. PICK l \in 0 .. Height : \E u \in 0 .. 2^(Height - l) - 1 : n = NodeAt(l, u)
  BY <1>1, NodesOfHeight
<1>3. PICK u \in 0 .. 2^(Height - l) - 1 : n = NodeAt(l, u)
  BY <1>2
<1>4. u \in 0 .. LevelSize(l) - 1
  BY DEF LevelSize, Height
<1> QED  BY <1>3, <1>4, SubcircuitAt DEF NodeOf, Places

\* What a subcircuit's node is: a leaf or not, its children, the root or not.
LEMMA NodeIs ==
  ASSUME ParamsInv, NEW i \in Places
  PROVE  /\ NodeOf(i) \in Node
         /\ Level(NodeOf(i)) = 0 <=> i < NumLeaves
         /\ i < NumLeaves => LeafIdx(NodeOf(i)) = i + 1
         /\ i >= NumLeaves =>
              /\ LeftSub(i) \in Places /\ RightSub(i) \in Places
              /\ LeftSub(i) < i /\ RightSub(i) < i
              /\ LeftChild(NodeOf(i)) = NodeOf(LeftSub(i))
              /\ RightChild(NodeOf(i)) = NodeOf(RightSub(i))
         /\ NodeOf(i) = RootIdx(NumLeaves) <=> i = NumSubcircuits - 2
<1> DEFINE L == NumLeaves
           N == NumSubcircuits
<1>1. L \in Nat /\ L >= 2 /\ N = 2 * L /\ Height \in Nat \ {0} /\ i \in 0 .. N - 2
  BY SizeIs DEF Places
<1>2. PICK l \in 0 .. Height : \E u \in 0 .. LevelSize(l) - 1 : i = LevelStart(l) + u
  BY PlaceOf DEF Places
<1>3. PICK u \in 0 .. LevelSize(l) - 1 : i = LevelStart(l) + u
  BY <1>2
<1> DEFINE s == LevelSize(l)
<1>4. l \in Nat /\ u \in Nat /\ s \in Nat \ {0} /\ u <= s - 1 /\ LevelStart(l) = N - 2 * s
  BY <1>1, LevelSizes DEF LevelStart
<1>5. NodeOf(i) = NodeAt(l, u)
  BY <1>3, SubcircuitAt DEF NodeOf
<1>6. NodeOf(i) \in Node
  <2> DEFINE p == 2^l
             b == u * (2 * p)
             c == s * p
             d == (s - 1) * (2 * p)
  <2>1. p \in Nat \ {0} /\ 2^(l + 1) = 2 * p /\ c = L
    BY <1>4, LevelSizes, PowerIs, PowerNext
  <2>2. NodeAt(l, u) = b + p - 1
    BY <2>1 DEF NodeAt
  <2> HIDE DEF p, s
  <2>3. b \in Nat /\ c \in Nat /\ d = 2 * c - 2 * p
    BY <1>4, <2>1
  <2>4. b <= d
    BY <1>4, <2>1
  <2> HIDE DEF b, c, d
  <2>5. b + p - 1 \in 0 .. N - 2
    BY <1>1, <2>1, <2>3, <2>4
  <2> QED  BY <1>5, <2>2, <2>5 DEF Node
<1>7. Level(NodeOf(i)) = l
  BY <1>4, <1>5, LevelAt
<1>8. l = 0 <=> i < L
  <2>1. l = 0 => i = u /\ s = L
    BY <1>1, <1>3, <1>4, LevelEnds
  <2>2. 0 < l => 2 * s <= L
    <3>1. 0 < l => 2 * LevelSize(l) <= LevelSize(0)
      BY LevelEnds, LevelSizes
    <3> QED  BY <3>1, LevelEnds
  <2> HIDE DEF L, N, s
  <2> QED  BY <1>1, <1>3, <1>4, <2>1, <2>2
<1>9. ASSUME i < L PROVE LeafIdx(NodeOf(i)) = i + 1
  <2>1. l = 0 /\ u = i
    BY <1>1, <1>3, <1>4, <1>8, <1>9, LevelEnds
  <2>2. NodeOf(i) = 2 * i
    BY <1>4, <1>5, <2>1, LowestAt
  <2> QED  BY <1>1, <2>2 DEF LeafIdx
<1>10. ASSUME i >= L
       PROVE  /\ LeftSub(i) \in Places /\ RightSub(i) \in Places
              /\ LeftSub(i) < i /\ RightSub(i) < i
              /\ LeftChild(NodeOf(i)) = NodeOf(LeftSub(i))
              /\ RightChild(NodeOf(i)) = NodeOf(RightSub(i))
  <2> DEFINE k == l - 1
             t == LevelSize(k)
  <2>1. l \in Nat \ {0} /\ k \in 0 .. Height /\ t = 2 * s
    BY <1>1, <1>4, <1>8, <1>10, LevelSizes
  <2>2. LevelStart(k) = N - 2 * t /\ i = N - 2 * s + u
    BY <1>3, <1>4 DEF LevelStart
  <2> HIDE DEF k, t, s
  <2>3. LeftSub(i) = LevelStart(k) + 2 * u /\ RightSub(i) = LevelStart(k) + (2 * u + 1)
    BY <1>1, <1>4, <2>1, <2>2 DEF LeftSub, RightSub
  <2>4. 2 * u \in 0 .. t - 1 /\ 2 * u + 1 \in 0 .. t - 1
    BY <1>4, <2>1
  <2> DEFINE v == 2 * u
             w == 2 * u + 1
  <2>4a. v \in 0 .. LevelSize(k) - 1 /\ w \in 0 .. LevelSize(k) - 1
    BY <2>4 DEF t
  <2>5. NodeOf(LeftSub(i)) = NodeAt(k, v) /\ NodeOf(RightSub(i)) = NodeAt(k, w)
    <3> HIDE DEF v, w
    <3>1. SubcircuitIdxToNodeIdx(LevelStart(k) + v) = NodeAt(k, v)
      BY <2>1, <2>4a, SubcircuitAt
    <3>2. SubcircuitIdxToNodeIdx(LevelStart(k) + w) = NodeAt(k, w)
      BY <2>1, <2>4a, SubcircuitAt
    <3> QED  BY <2>3, <3>1, <3>2 DEF NodeOf, v, w
  <2>6. LeftChild(NodeAt(l, u)) = NodeAt(k, v) /\ RightChild(NodeAt(l, u)) = NodeAt(k, w)
    BY <1>4, <2>1, ChildrenAt DEF k
  <2>7. LeftSub(i) < i /\ RightSub(i) < i /\ LeftSub(i) \in Places /\ RightSub(i) \in Places
    BY <1>1, <1>10 DEF LeftSub, RightSub, Places
  <2> QED  BY <1>5, <2>5, <2>6, <2>7
<1>11. NodeOf(i) = RootIdx(L) <=> i = N - 2
  <2>1. 0 \in 0 .. LevelSize(Height) - 1 /\ N - 2 = LevelStart(Height) + 0 /\ N - 2 \in Places
    BY <1>1, LevelEnds DEF Places
  <2>2. NodeOf(N - 2) = NodeAt(Height, 0)
    BY <2>1, LevelEnds, SubcircuitAt DEF NodeOf
  <2>3. NodeOf(N - 2) = RootIdx(L)
    BY <2>2, RootAt
  <2> HIDE DEF N, L
  <2>4. NodeOf(i) = NodeOf(N - 2) => i = N - 2
    BY <2>1, NodeInjective
  <2> QED  BY <2>3, <2>4
<1> QED  BY <1>6, <1>7, <1>8, <1>9, <1>10, <1>11

\* The kinds of subcircuits are ranges.
LEMMA KindIs ==
  ASSUME ParamsInv, NEW i \in Subcircuit
  PROVE  /\ NumLeaves \in Nat /\ NumLeaves >= 2 /\ NumSubcircuits = 2 * NumLeaves /\ i \in Nat
         /\ i \in Places <=> i # NumSubcircuits - 1
         /\ IsPadding(i) <=> i = NumSubcircuits - 1
         /\ IsLeaf(i) <=> i < NumLeaves
         /\ IsRoot(i) <=> i = NumSubcircuits - 2
         /\ IsParent(i) <=> NumLeaves <= i /\ i < NumSubcircuits - 1
<1>1. NumLeaves \in Nat /\ NumLeaves >= 2 /\ NumSubcircuits = 2 * NumLeaves /\ i \in Nat
  BY SizeIs DEF Subcircuit
<1>2. i \in Places <=> i # NumSubcircuits - 1
  BY <1>1 DEF Subcircuit, Places
<1>3. IsPadding(i) <=> i = NumSubcircuits - 1
  BY DEF IsPadding
<1>4. IsLeaf(i) <=> i < NumLeaves
  <2>1. i \in Places => (Level(NodeOf(i)) = 0 <=> i < NumLeaves)
    BY NodeIs
  <2> QED  BY <1>1, <1>2, <1>3, <2>1 DEF IsLeaf, NodeOf
<1>5. IsParent(i) <=> NumLeaves <= i /\ i < NumSubcircuits - 1
  BY <1>1, <1>3, <1>4 DEF IsParent, Subcircuit
<1>6. IsRoot(i) <=> i = NumSubcircuits - 2
  <2>1. i \in Places => (NodeOf(i) = RootIdx(NumLeaves) <=> i = NumSubcircuits - 2)
    BY NodeIs
  <2> QED  BY <1>1, <1>2, <1>5, <2>1 DEF IsRoot, NodeOf
<1> QED  BY <1>1, <1>2, <1>3, <1>4, <1>5, <1>6

-----------------------------------------------------------------------------
(* The hashes of the tree.                                                  *)

\* The length of a function on an interval from 1.
LEMMA LenIs ==
  ASSUME NEW m \in Nat, NEW f, f = [j \in 1 .. m |-> f[j]]
  PROVE  Len(f) = m
<1> DEFINE S == {f[j] : j \in 1 .. m}
<1>1. f \in [1 .. m -> S]
  <2>1. \A j \in 1 .. m : f[j] \in S
    OBVIOUS
  <2> HIDE DEF S
  <2> QED  BY <2>1
<1> HIDE DEF S
<1>2. f \in Seq(S) /\ Len(f) = m
  BY <1>1
<1> QED  BY <1>2

\* The level of hashes after a level of them, and the first.
LevelAfter(h) == [j \in 1 .. Len(h) \div 2 |-> NodeHash(h[2 * j - 1], h[2 * j])]
FirstLevel(leaves) == [j \in 1 .. Len(leaves) |-> LeafHash(leaves[j])]

\* The recursion of calculate_root has a solution.
LEMMA HashLevelsAre ==
  ASSUME NEW s, NEW h \in Nat, Log2(Len(s)) = h
  PROVE  /\ HashLevels(s)[0] = FirstLevel(s)
         /\ \A k \in 1 .. h : HashLevels(s)[k] = LevelAfter(HashLevels(s)[k - 1])
<1> DEFINE Step(g, n) == IF n = 0 THEN FirstLevel(s) ELSE LevelAfter(g[n - 1])
           Solves(g, m) == g = [n \in 0 .. m |-> Step(g, n)]
           S == {m \in 0 .. h : \E g : Solves(g, m)}
<1>1. ASSUME NEW f, NEW g, NEW n, n # 0 => f[n - 1] = g[n - 1]
      PROVE  Step(f, n) = Step(g, n)
  BY <1>1
<1>2. 0 \in S
  <2> DEFINE g == [n \in 0 .. 0 |-> Step(<<>>, 0)]
  <2>1. Step(g, 0) = Step(<<>>, 0)
    <3> HIDE DEF g
    <3> QED  OBVIOUS
  <2> HIDE DEF Step
  <2>2. g = [n \in 0 .. 0 |-> Step(g, n)]
    <3>1. \A n \in 0 .. 0 : n = 0
      OBVIOUS
    <3>2. \A n \in 0 .. 0 : Step(<<>>, 0) = Step(g, n)
      BY <2>1, <3>1
    <3> QED  BY <3>2
  <2> QED  BY <2>2
<1>3. ASSUME NEW m \in 0 .. h - 1, m \in S PROVE m + 1 \in S
  <2> HIDE DEF Step
  <2>1. PICK g : g = [n \in 0 .. m |-> Step(g, n)]
    BY <1>3
  <2> DEFINE f == [n \in 0 .. m + 1 |-> IF n = m + 1 THEN Step(g, m + 1) ELSE g[n]]
  <2>2. m \in Nat /\ m + 1 \in 0 .. h
    OBVIOUS
  <2>3. \A n \in 0 .. m : f[n] = g[n]
    BY <2>2
  <2>4. ASSUME NEW n \in 0 .. m + 1
        PROVE  (IF n = m + 1 THEN Step(g, m + 1) ELSE g[n]) = Step(f, n)
    <3>1. n # 0 => n - 1 \in 0 .. m
      BY <2>2
    <3>2. Step(f, n) = Step(g, n)
      <4>1. n # 0 => f[n - 1] = g[n - 1]
        BY <2>3, <3>1
      <4> HIDE DEF f
      <4> QED  BY <1>1, <4>1
    <3>3. n # m + 1 => n \in 0 .. m
      BY <2>2
    <3>4. n # m + 1 => g[n] = Step(g, n)
      BY <2>1, <3>3
    <3> HIDE DEF f
    <3> QED  BY <3>2, <3>4
  <2>5. f = [n \in 0 .. m + 1 |-> Step(f, n)]
    <3>1. \A n \in 0 .. m + 1 : f[n] = Step(f, n)
      BY <2>4
    <3>2. f = [n \in 0 .. m + 1 |-> f[n]]
      OBVIOUS
    <3> HIDE DEF f
    <3> QED  BY <3>1, <3>2
  <2> QED  BY <2>2, <2>5
<1>4. \E g : Solves(g, h)
  <2>1. \A n \in 0 .. h : n \in S
    <3> HIDE DEF S
    <3> QED  BY <1>2, <1>3, UpTo
  <2> QED  BY <2>1
<1> DEFINE hs == HashLevels(s)
<1>5. hs = CHOOSE g : Solves(g, h)
  BY DEF HashLevels, LevelAfter, FirstLevel
<1> HIDE DEF hs
<1>6. Solves(hs, h)
  <2> HIDE DEF Solves
  <2> QED  BY <1>4, <1>5
<1>7. \A n \in 0 .. h : hs[n] = Step(hs, n)
  <2> HIDE DEF Step
  <2> QED  BY <1>6
<1>8. hs[0] = Step(hs, 0)
  <2> HIDE DEF Step
  <2> QED  BY <1>7
<1>9. ASSUME NEW n \in 1 .. h PROVE hs[n] = LevelAfter(hs[n - 1])
  <2>1. n \in 0 .. h /\ n # 0
    OBVIOUS
  <2>2. hs[n] = Step(hs, n)
    BY <1>7, <2>1
  <2> QED  BY <2>1, <2>2
<1> QED  BY <1>8, <1>9 DEF hs

\* Of 2^h leaves, level k has 2^(h - k) hashes.
LEMMA HashCounts ==
  ASSUME NEW h \in Nat, NEW s, Len(s) = 2^h, NEW k \in 0 .. h
  PROVE  /\ Log2(Len(s)) = h
         /\ HashLevels(s)[k] = [j \in 1 .. 2^(h - k) |-> HashLevels(s)[k][j]]
         /\ Len(HashLevels(s)[k]) = 2^(h - k)
<1> DEFINE hs == HashLevels(s)
           Good(n) == hs[n] = [j \in 1 .. 2^(h - n) |-> hs[n][j]] /\ Len(hs[n]) = 2^(h - n)
           S == {n \in 0 .. h : Good(n)}
<1>1. Log2(Len(s)) = h
  <2> DEFINE p == 2^h
  <2>1. p \in Nat \ {0} /\ 2^(h + 1) = 2 * p
    BY PowerIs, PowerNext
  <2> HIDE DEF p
  <2>2. p <= p /\ p < 2 * p
    BY <2>1
  <2> QED  BY <2>1, <2>2, Log2Is DEF p
<1>2. hs[0] = FirstLevel(s) /\ \A n \in 1 .. h : hs[n] = LevelAfter(hs[n - 1])
  BY <1>1, HashLevelsAre
<1> HIDE DEF hs
<1>3. ASSUME NEW m \in Nat, NEW f, NEW g, g = [j \in 1 .. m |-> f[j]]
      PROVE  g = [j \in 1 .. m |-> g[j]] /\ Len(g) = m
  <2>1. g = [j \in 1 .. m |-> g[j]]
    BY <1>3
  <2> QED  BY <2>1, LenIs
<1>4. 0 \in S
  <2>1. h - 0 = h /\ 2^h \in Nat
    BY PowerIs
  <2> DEFINE f == FirstLevel(s)
  <2>2. f = [j \in 1 .. 2^h |-> f[j]]
    BY DEF FirstLevel
  <2> HIDE DEF f
  <2>3. Len(f) = 2^h
    BY <2>1, <2>2, <1>3
  <2>4. Good(0)
    BY <1>2, <2>1, <2>2, <2>3 DEF f
  <2> HIDE DEF Good
  <2> QED  BY <2>4
<1>5. ASSUME NEW n \in 0 .. h - 1, n \in S PROVE n + 1 \in S
  <2> DEFINE m == h - (n + 1)
             p == 2^m
  <2>1. m \in Nat /\ h - n = m + 1 /\ n + 1 \in 1 .. h /\ n + 1 \in 0 .. h /\ (n + 1) - 1 = n
    OBVIOUS
  <2>2. p \in Nat \ {0} /\ 2^(h - n) = 2 * p
    <3> HIDE DEF m
    <3> QED  BY <2>1, PowerIs, PowerNext
  <2>3. Len(hs[n]) = 2 * p
    BY <1>5, <2>2
  <2>4. Len(hs[n]) \div 2 = p
    <3> HIDE DEF p
    <3> QED  BY <2>2, <2>3
  <2> DEFINE f == LevelAfter(hs[n])
  <2>5. hs[n + 1] = f
    <3> HIDE DEF f
    <3>1. hs[n + 1] = LevelAfter(hs[(n + 1) - 1])
      BY <1>2, <2>1
    <3> QED  BY <2>1, <3>1 DEF f
  <2>6. f = [j \in 1 .. p |-> f[j]]
    BY <2>4 DEF LevelAfter
  <2> HIDE DEF f
  <2>7. Len(f) = p
    <3> HIDE DEF p
    <3> QED  BY <1>3, <2>2, <2>6
  <2>8. Good(n + 1)
    BY <2>5, <2>6, <2>7
  <2> HIDE DEF Good
  <2> QED  BY <2>1, <2>8
<1>6. \A n \in 0 .. h : n \in S
  <2> HIDE DEF S
  <2> QED  BY <1>4, <1>5, UpTo
<1>7. Good(k)
  BY <1>6
<1> QED  BY <1>1, <1>7 DEF hs

\* Each hash is of the two below it.
LEMMA HashIs ==
  ASSUME NEW h \in Nat, NEW s, Len(s) = 2^h
  PROVE  /\ \A j \in 1 .. 2^h : HashLevels(s)[0][j] = LeafHash(s[j])
         /\ \A k \in 1 .. h : \A j \in 1 .. 2^(h - k) :
              HashLevels(s)[k][j] = NodeHash(HashLevels(s)[k - 1][2 * j - 1], HashLevels(s)[k - 1][2 * j])
<1> DEFINE hs == HashLevels(s)
<1>0. 0 \in 0 .. h
  OBVIOUS
<1>1. Log2(Len(s)) = h
  BY <1>0, HashCounts
<1>2. hs[0] = FirstLevel(s) /\ \A n \in 1 .. h : hs[n] = LevelAfter(hs[n - 1])
  BY <1>1, HashLevelsAre
<1>3. \A n \in 0 .. h : Len(hs[n]) = 2^(h - n)
  BY HashCounts
<1> HIDE DEF hs
<1>4. ASSUME NEW j \in 1 .. 2^h PROVE hs[0][j] = LeafHash(s[j])
  BY <1>2 DEF FirstLevel
<1>5. ASSUME NEW k \in 1 .. h, NEW j \in 1 .. 2^(h - k)
      PROVE  hs[k][j] = NodeHash(hs[k - 1][2 * j - 1], hs[k - 1][2 * j])
  <2> DEFINE m == h - k
             p == 2^m
             g == hs[k - 1]
  <2>1. m \in Nat /\ k - 1 \in 0 .. h /\ h - (k - 1) = m + 1
    OBVIOUS
  <2>2. p \in Nat \ {0} /\ 2^(h - (k - 1)) = 2 * p
    <3> HIDE DEF m
    <3> QED  BY <2>1, PowerIs, PowerNext
  <2>3. Len(g) = 2 * p
    BY <1>3, <2>1, <2>2
  <2>4. Len(g) \div 2 = p
    <3> HIDE DEF p, g
    <3> QED  BY <2>2, <2>3
  <2>5. hs[k] = LevelAfter(g)
    BY <1>2
  <2>6. j \in 1 .. p
    OBVIOUS
  <2> HIDE DEF g, p
  <2> QED  BY <2>4, <2>5, <2>6 DEF LevelAfter, g
<1> QED  BY <1>4, <1>5 DEF hs

\* t is part number u of s, the leaves cut into parts of 2^l.
IsPart(t, l, u, s, h) ==
  /\ l \in 0 .. h /\ u \in 0 .. 2^(h - l) - 1
  /\ Len(s) = 2^h /\ Len(t) = 2^l /\ \A j \in 1 .. 2^l : t[j] = s[u * 2^l + j]

\* The levels of a part of the leaves are parts of the levels.
LEMMA HashPart ==
  ASSUME NEW h \in Nat, NEW s, NEW l, NEW u, NEW t, IsPart(t, l, u, s, h)
  PROVE  HashLevels(t)[l][1] = HashLevels(s)[l][u + 1]
<1> USE DEF IsPart
<1> DEFINE a == HashLevels(t)
           b == HashLevels(s)
           Good(k) == \A j \in 1 .. 2^(l - k) : a[k][j] = b[k][u * 2^(l - k) + j]
           S == {k \in 0 .. l : Good(k)}
<1>1. /\ \A j \in 1 .. 2^h : b[0][j] = LeafHash(s[j])
      /\ \A k \in 1 .. h : \A j \in 1 .. 2^(h - k) : b[k][j] = NodeHash(b[k - 1][2 * j - 1], b[k - 1][2 * j])
  BY HashIs
<1>2. /\ \A j \in 1 .. 2^l : a[0][j] = LeafHash(t[j])
      /\ \A k \in 1 .. l : \A j \in 1 .. 2^(l - k) : a[k][j] = NodeHash(a[k - 1][2 * j - 1], a[k - 1][2 * j])
  BY HashIs
<1> HIDE DEF a, b
\* The part of a level that the subtree covers is within the level.
<1>3. ASSUME NEW k \in 0 .. l, NEW j \in 1 .. 2^(l - k)
      PROVE  u * 2^(l - k) + j \in 1 .. 2^(h - k)
  <2> DEFINE m == l - k
             g == h - l
             p == 2^m
             q == 2^g
  <2>1. m \in Nat /\ g \in Nat /\ g + m = h - k
    OBVIOUS
  <2>2. p \in Nat \ {0} /\ q \in Nat \ {0} /\ 2^(h - k) = q * p
    <3> HIDE DEF m, g
    <3> QED  BY <2>1, PowerIs, PowerSum
  <2>3. u \in 0 .. q - 1 /\ j \in 1 .. p
    OBVIOUS
  <2> HIDE DEF p, q
  <2> DEFINE c == u * p
             d == (q - 1) * p
  <2>4. c \in Nat /\ c <= d
    BY <2>2, <2>3
  <2>5. d = q * p - p /\ q * p \in Nat
    BY <2>2
  <2> DEFINE e == q * p
  <2>6. d = e - p /\ e \in Nat
    BY <2>5
  <2> HIDE DEF c, d, e
  <2>7. c + j \in 1 .. e
    BY <2>2, <2>3, <2>4, <2>6
  <2> QED  BY <2>2, <2>7 DEF c, e, p
<1>4. 0 \in S
  <2>1. ASSUME NEW j \in 1 .. 2^(l - 0) PROVE a[0][j] = b[0][u * 2^(l - 0) + j]
    <3>1. l - 0 = l /\ h - 0 = h /\ 0 \in 0 .. l
      OBVIOUS
    <3>2. u * 2^l + j \in 1 .. 2^h
      BY <1>3, <2>1, <3>1
    <3> DEFINE i == u * 2^l + j
    <3>3. t[j] = s[i]
      BY <2>1, <3>1
    <3> HIDE DEF i
    <3>4. a[0][j] = LeafHash(t[j]) /\ b[0][i] = LeafHash(s[i])
      BY <1>1, <1>2, <2>1, <3>1, <3>2 DEF i
    <3>5. a[0][j] = b[0][i]
      BY <3>3, <3>4
    <3> QED  BY <3>1, <3>5 DEF i
  <2> QED  BY <2>1
<1>5. ASSUME NEW k \in 0 .. l - 1, k \in S PROVE k + 1 \in S
  <2> DEFINE n == k + 1
             m == l - n
             p == 2^m
  <2>1. m \in Nat /\ l - k = m + 1 /\ n \in 1 .. l /\ n \in 1 .. h /\ n \in 0 .. l /\ n - 1 = k
    OBVIOUS
  <2>2. p \in Nat \ {0} /\ 2^(l - k) = 2 * p
    <3> HIDE DEF m
    <3> QED  BY <2>1, PowerIs, PowerNext
  <2>3. ASSUME NEW j \in 1 .. p PROVE a[n][j] = b[n][u * p + j]
    <3> DEFINE i == u * p + j
               x == 2 * j - 1
               y == 2 * j
    <3>1. i \in 1 .. 2^(h - n)
      BY <1>3, <2>1, <2>3
    <3> HIDE DEF p
    <3>2. x \in 1 .. 2 * p /\ y \in 1 .. 2 * p
      BY <2>2, <2>3
    <3>3. u * (2 * p) + x = 2 * i - 1 /\ u * (2 * p) + y = 2 * i
      <4> DEFINE c == u * p
                 d == u * (2 * p)
      <4>1. c \in Nat /\ d = 2 * c
        BY <2>2
      <4> HIDE DEF c, d
      <4>2. d + x = 2 * (c + j) - 1 /\ d + y = 2 * (c + j)
        BY <2>2, <2>3, <4>1
      <4> QED  BY <4>2 DEF c, d
    <3> HIDE DEF i, x, y, n
    <3>4. a[k][x] = b[k][u * (2 * p) + x] /\ a[k][y] = b[k][u * (2 * p) + y]
      BY <1>5, <2>2, <3>2
    <3>5. a[k][x] = b[k][2 * i - 1] /\ a[k][y] = b[k][2 * i]
      BY <3>3, <3>4
    <3>6. b[n][i] = NodeHash(b[n - 1][2 * i - 1], b[n - 1][2 * i])
      BY <1>1, <2>1, <3>1
    <3>7. a[n][j] = NodeHash(a[n - 1][x], a[n - 1][y])
      BY <1>2, <2>1, <2>3 DEF p, x, y
    <3>8. a[n][j] = b[n][i]
      BY <2>1, <3>5, <3>6, <3>7
    <3> QED  BY <3>8 DEF i
  <2>4. Good(n)
    BY <2>3
  <2> HIDE DEF Good
  <2> QED  BY <2>1, <2>4
<1>6. l \in S
  <2> HIDE DEF S
  <2>1. l \in Nat /\ l \in 0 .. l
    OBVIOUS
  <2>2. \A k \in 0 .. l - 1 : k \in S => k + 1 \in S
    BY <1>5
  <2>3. \A k \in 0 .. l : k \in S
    BY <1>4, <2>1, <2>2, UpTo
  <2> QED  BY <2>1, <2>3
<1>7. l - l = 0 /\ 2^0 = 1 /\ u * 1 + 1 = u + 1
  <2>1. u \in Nat
    <3>1. h - l \in Nat
      OBVIOUS
    <3>2. 2^(h - l) \in Nat
      BY <3>1, PowerIs
    <3> QED  BY <3>2
  <2> QED  BY <2>1, PowerZero
<1>8. a[l][1] = b[l][u + 1]
  <2>1. 1 \in 1 .. 1
    OBVIOUS
  <2>2. Good(l)
    BY <1>6
  <2>3. a[l][1] = b[l][u * 1 + 1]
    BY <1>7, <2>1, <2>2
  <2> QED  BY <1>7, <2>3
<1> QED  BY <1>8 DEF a, b

CircInv == circ = RandomCircuit(params.leaves)

\* The root of the leaves below a node.
SubtreeRoot(n) ==
  LET reach == 2^Level(n) - 1
  IN  CalculateRoot(SubSeq(circ.leaves, (n - reach) \div 2 + 1, (n + reach) \div 2 + 1))

\* The circuit has a leaf for each leaf of the tree, and the root of the hashes.
LEMMA LeavesAre ==
  ASSUME ParamsInv, CircInv
  PROVE  /\ circ.leaves \in Seq(Nat) /\ Len(circ.leaves) = NumLeaves
         /\ circ.root = HashLevels(circ.leaves)[Height][1]
<1> DEFINE f == [j \in 1 .. NumLeaves |-> j]
<1>1. circ.leaves = f /\ circ.root = CalculateRoot(f)
  BY DEF CircInv, RandomCircuit, NumLeaves
<1>2. f \in [1 .. NumLeaves -> Nat] /\ NumLeaves \in Nat
  BY SizeIs
<1> HIDE DEF f
<1>3. f \in Seq(Nat) /\ Len(f) = NumLeaves
  BY <1>2
<1> QED  BY <1>1, <1>3 DEF CalculateRoot, Height

\* The root of the leaves below a node is one of the hashes of the whole tree.
LEMMA SubtreeAt ==
  ASSUME ParamsInv, CircInv, NEW l \in 0 .. Height, NEW u \in 0 .. LevelSize(l) - 1
  PROVE  SubtreeRoot(NodeAt(l, u)) = HashLevels(circ.leaves)[l][u + 1]
<1> DEFINE s == circ.leaves
           L == NumLeaves
           n == NodeAt(l, u)
           p == 2^l
           c == u * p
           S == LevelSize(l)
<1>1. s \in Seq(Nat) /\ Len(s) = L /\ L = 2^Height /\ Height \in Nat
  BY LeavesAre, SizeIs
<1>2. /\ l \in Nat /\ p \in Nat \ {0} /\ 2^(l + 1) = 2 * p
      /\ S \in Nat \ {0} /\ S * p = L /\ u \in Nat
  BY LevelSizes, PowerIs, PowerNext
<1>3. Level(n) = l
  BY <1>2, LevelAt
<1>4. n = u * (2 * p) + p - 1
  BY <1>2 DEF NodeAt
<1> HIDE DEF n, p, s
<1>5. c \in Nat /\ u * (2 * p) = 2 * c
  BY <1>2
<1>6. c + p <= L
  <2> HIDE DEF S
  <2>1. u <= S - 1
    BY <1>2 DEF S
  <2>2. u * p <= (S - 1) * p
    BY <1>2, <2>1
  <2>3. (S - 1) * p = S * p - p
    BY <1>2
  <2> DEFINE d == (S - 1) * p
             e == S * p
  <2>4. c <= d /\ d = e - p /\ e = L /\ d \in Int /\ e \in Int
    BY <1>2, <2>2, <2>3
  <2> HIDE DEF c, d, e, L
  <2> QED  BY <1>2, <1>5, <2>4
<1> HIDE DEF c
<1>7. (n - (p - 1)) \div 2 + 1 = c + 1 /\ (n + (p - 1)) \div 2 + 1 = c + p
  BY <1>2, <1>4, <1>5
<1> DEFINE t == SubSeq(s, c + 1, c + p)
<1>8. SubtreeRoot(NodeAt(l, u)) = CalculateRoot(t)
  BY <1>3, <1>7 DEF SubtreeRoot, n, p, s
<1>9. Len(t) = p /\ \A j \in 1 .. p : t[j] = s[c + j]
  BY <1>1, <1>2, <1>5, <1>6
<1> HIDE DEF t
<1>10. Log2(Len(t)) = l
  <2>1. 0 \in 0 .. l
    BY <1>2
  <2> QED  BY <1>2, <1>9, <2>1, HashCounts DEF p
<1>11. u \in 0 .. 2^(Height - l) - 1
  BY DEF LevelSize, Height
<1>12. IsPart(t, l, u, s, Height)
  <2>1. l \in 0 .. Height /\ Len(t) = 2^l /\ Len(s) = 2^Height
    BY <1>1, <1>9 DEF p
  <2>2. \A j \in 1 .. 2^l : t[j] = s[u * 2^l + j]
    BY <1>9 DEF c, p
  <2> QED  BY <1>11, <2>1, <2>2 DEF IsPart
<1>13. HashLevels(t)[l][1] = HashLevels(s)[l][u + 1]
  BY <1>1, <1>12, HashPart
<1> QED  BY <1>8, <1>10, <1>13 DEF CalculateRoot, s

\* A subtree's root by subcircuit.
LEMMA SubtreeIs ==
  ASSUME ParamsInv, CircInv, NEW i \in Places
  PROVE  /\ i < NumLeaves => SubtreeRoot(NodeOf(i)) = LeafHash(circ.leaves[i + 1])
         /\ i >= NumLeaves => SubtreeRoot(NodeOf(i))
              = NodeHash(SubtreeRoot(NodeOf(LeftSub(i))), SubtreeRoot(NodeOf(RightSub(i))))
         /\ i = NumSubcircuits - 2 => SubtreeRoot(NodeOf(i)) = circ.root
<1> DEFINE H == Height
           hs == HashLevels(circ.leaves)
<1>1. PICK l \in 0 .. Height : \E u \in 0 .. LevelSize(l) - 1 : i = LevelStart(l) + u
  BY PlaceOf DEF Places
<1>2. PICK u \in 0 .. LevelSize(l) - 1 : i = LevelStart(l) + u
  BY <1>1
<1>3. NodeOf(i) = NodeAt(l, u) /\ l \in Nat /\ u \in Nat /\ Height \in Nat \ {0}
  BY <1>2, LevelSizes, SubcircuitAt, SizeIs DEF NodeOf
<1>4. Level(NodeOf(i)) = l
  BY <1>3, LevelAt
<1>5. SubtreeRoot(NodeOf(i)) = hs[l][u + 1]
  BY <1>3, SubtreeAt
<1>6. /\ \A j \in 1 .. NumLeaves : hs[0][j] = LeafHash(circ.leaves[j])
      /\ \A k \in 1 .. H : \A j \in 1 .. 2^(H - k) : hs[k][j] = NodeHash(hs[k - 1][2 * j - 1], hs[k - 1][2 * j])
  <2>1. Len(circ.leaves) = 2^H /\ 2^H = NumLeaves /\ H \in Nat
    BY LeavesAre, SizeIs
  <2> HIDE DEF H
  <2>2. \A j \in 1 .. 2^H : HashLevels(circ.leaves)[0][j] = LeafHash(circ.leaves[j])
    BY <2>1, HashIs
  <2>3. \A k \in 1 .. H : \A j \in 1 .. 2^(H - k) :
          HashLevels(circ.leaves)[k][j] = NodeHash(HashLevels(circ.leaves)[k - 1][2 * j - 1], HashLevels(circ.leaves)[k - 1][2 * j])
    BY <2>1, HashIs
  <2> QED  BY <2>1, <2>2, <2>3
<1> HIDE DEF hs
<1>7. ASSUME i < NumLeaves PROVE SubtreeRoot(NodeOf(i)) = LeafHash(circ.leaves[i + 1])
  <2>1. l = 0 /\ u = i
    BY <1>2, <1>3, <1>4, <1>7, NodeIs, LevelEnds
  <2>2. i + 1 \in 1 .. NumLeaves
    BY <1>3, <1>7, <2>1, SizeIs
  <2> QED  BY <1>5, <1>6, <2>1, <2>2
<1>8. ASSUME i >= NumLeaves
      PROVE  SubtreeRoot(NodeOf(i))
               = NodeHash(SubtreeRoot(NodeOf(LeftSub(i))), SubtreeRoot(NodeOf(RightSub(i))))
  <2> DEFINE k == l - 1
             v == 2 * u
             w == 2 * u + 1
  <2>1. l \in Nat \ {0} /\ k \in 0 .. Height /\ LevelSize(k) = 2 * LevelSize(l) /\ LevelSize(l) \in Nat
    <3>1. l # 0
      BY <1>4, <1>8, SizeIs, NodeIs DEF Places
    <3> QED  BY <1>3, <3>1, LevelSizes
  <2>2. v \in 0 .. LevelSize(k) - 1 /\ w \in 0 .. LevelSize(k) - 1
    BY <2>1
  <2>3. NodeOf(LeftSub(i)) = NodeAt(k, v) /\ NodeOf(RightSub(i)) = NodeAt(k, w)
    BY <1>3, <1>8, <2>1, NodeIs, ChildrenAt
  <2> HIDE DEF k, v, w
  <2>4. SubtreeRoot(NodeOf(LeftSub(i))) = hs[k][v + 1] /\ SubtreeRoot(NodeOf(RightSub(i))) = hs[k][w + 1]
    BY <2>1, <2>2, <2>3, SubtreeAt DEF hs
  <2>5. u + 1 \in 1 .. 2^(H - l) /\ l \in 1 .. H
    <3>1. u + 1 \in 1 .. LevelSize(l)
      BY <1>3, <2>1
    <3> QED  BY <1>3, <2>1, <3>1 DEF LevelSize, Height
  <2>6. hs[l][u + 1] = NodeHash(hs[l - 1][2 * (u + 1) - 1], hs[l - 1][2 * (u + 1)])
    BY <1>6, <2>5
  <2>7. 2 * (u + 1) - 1 = v + 1 /\ 2 * (u + 1) = w + 1
    BY <1>3 DEF v, w
  <2> QED  BY <1>5, <2>4, <2>6, <2>7 DEF k
<1>9. ASSUME i = NumSubcircuits - 2 PROVE SubtreeRoot(NodeOf(i)) = circ.root
  <2>1. NodeOf(i) = NodeAt(Height, 0)
    BY <1>9, NodeIs, RootAt
  <2>2. 0 \in 0 .. LevelSize(Height) - 1 /\ Height \in 0 .. Height
    BY LevelEnds
  <2>3. SubtreeRoot(NodeAt(Height, 0)) = hs[Height][0 + 1]
    BY <2>2, SubtreeAt DEF hs
  <2> QED  BY <2>1, <2>3, LeavesAre DEF hs
<1> QED  BY <1>7, <1>8, <1>9

-----------------------------------------------------------------------------
(* The operations of a subcircuit.                                          *)

\* Where a subcircuit sets its node's wire, how many operations it has, on which
\* wires, and which of them are sets.
SetAt(i) == IF i < NumLeaves THEN 1 ELSE 3
NumOps(i) ==
  Dummies + (IF i = NumSubcircuits - 1 THEN 0 ELSE IF i >= NumLeaves THEN 3
             ELSE IF i = 0 THEN 2 ELSE 1)
WireAt(i, k) ==
  IF i < NumLeaves
  THEN IF k = 1 THEN NodeWire(NodeOf(i)) ELSE Placeholder
  ELSE IF i = NumSubcircuits - 1 \/ k > 3 THEN Placeholder
  ELSE IF k = 1 THEN NodeWire(NodeOf(LeftSub(i)))
  ELSE IF k = 2 THEN NodeWire(NodeOf(RightSub(i)))
  ELSE NodeWire(NodeOf(i))
IsSet(i, k) == (i # NumSubcircuits - 1 /\ k = SetAt(i)) \/ (i = 0 /\ k = 2)

\* What a wire is set to.
ValueOf(w) == IF w = Placeholder THEN Zero ELSE SubtreeRoot(w[2])

\* The portals are one at least.
LEMMA DummiesNat == ASSUME ParamsInv PROVE Dummies \in Nat
  BY ParamsAssumption DEF ParamsInv, Dummies

\* Operations with the dummies after them.
LEMMA WithDummies ==
  ASSUME ParamsInv, NEW S, Get(Placeholder) \in S, NEW s \in Seq(S)
  PROVE  /\ s \o DummyOps \in Seq(S)
         /\ Len(s \o DummyOps) = Len(s) + Dummies
         /\ \A k \in 1 .. Len(s) + Dummies :
              (s \o DummyOps)[k] = IF k <= Len(s) THEN s[k] ELSE Get(Placeholder)
<1> DEFINE g == Get(Placeholder)
           d == DummyOps
           n == Dummies
<1>1. n \in Nat
  BY DummiesNat
<1>2. d \in [1 .. n -> S] /\ \A k \in 1 .. n : d[k] = g
  BY DEF DummyOps
<1> HIDE DEF d, n, g
<1>3. d \in Seq(S) /\ Len(d) = n
  BY <1>1, <1>2
<1>4. s \o d \in Seq(S) /\ Len(s \o d) = Len(s) + n
  BY <1>1, <1>3
<1>5. ASSUME NEW k \in 1 .. Len(s) + n
      PROVE  (s \o d)[k] = IF k <= Len(s) THEN s[k] ELSE g
  <2>1. CASE k <= Len(s)
    BY <1>1, <1>3, <2>1
  <2>2. CASE ~(k <= Len(s))
    <3> DEFINE m == k - Len(s)
    <3>1. m \in 1 .. n
      BY <1>1, <2>2
    <3>2. (s \o d)[k] = d[m]
      BY <1>1, <1>3, <2>2
    <3> HIDE DEF m
    <3>3. d[m] = g
      BY <1>2, <3>1
    <3> QED  BY <2>2, <3>2, <3>3
  <2> QED  BY <2>1, <2>2
<1> QED  BY <1>4, <1>5 DEF d, n, g

\* The elements of a concatenation.
LEMMA ConcatIs ==
  ASSUME NEW S, NEW p \in Seq(S), NEW q \in Seq(S)
  PROVE  /\ p \o q \in Seq(S) /\ Len(p \o q) = Len(p) + Len(q)
         /\ \A k \in 1 .. Len(p) + Len(q) :
              (p \o q)[k] = IF k <= Len(p) THEN p[k] ELSE q[k - Len(p)]
  OBVIOUS

\* The elements of two sequences of one.
LEMMA PairIs ==
  ASSUME NEW S, NEW a \in S, NEW z \in S
  PROVE  /\ <<a>> \o <<z>> \in Seq(S) /\ Len(<<a>> \o <<z>>) = 2
         /\ (<<a>> \o <<z>>)[1] = a /\ (<<a>> \o <<z>>)[2] = z
<1> DEFINE p == <<a>>
           q == <<z>>
<1>1. p \in Seq(S) /\ q \in Seq(S) /\ Len(p) = 1 /\ Len(q) = 1 /\ p[1] = a /\ q[1] = z
  OBVIOUS
<1> HIDE DEF p, q
<1>2. /\ p \o q \in Seq(S) /\ Len(p \o q) = Len(p) + Len(q)
      /\ \A k \in 1 .. Len(p) + Len(q) :
           (p \o q)[k] = IF k <= Len(p) THEN p[k] ELSE q[k - Len(p)]
  BY <1>1, ConcatIs
<1>3. p \o q \in Seq(S) /\ Len(p \o q) = 2 /\ (p \o q)[1] = a /\ (p \o q)[2] = z
  BY <1>1, <1>2
<1> QED  BY <1>3 DEF p, q

\* Three kinds of sequences of operations.
IsOps(ops, i) ==
  /\ Len(ops) = NumOps(i) /\ DOMAIN ops = 1 .. NumOps(i)
  /\ \A k \in 1 .. NumOps(i) :
       ops[k].op = (IF IsSet(i, k) THEN "set" ELSE "get") /\ ops[k].wire = WireAt(i, k)

\* The operations of a leaf with hash v, before the dummies.
LeafSets(i, v) ==
  <<Set(NodeWire(NodeOf(i)), v)>> \o (IF i = 0 THEN <<Set(Placeholder, Zero)>> ELSE <<>>)

\* The operations of a leaf, of a parent and of the padding are such sequences.
LEMMA LeafOps ==
  ASSUME ParamsInv, NEW i \in Subcircuit, i < NumLeaves, NEW v
  PROVE  /\ IsOps(LeafSets(i, v) \o DummyOps, i)
         /\ (LeafSets(i, v) \o DummyOps)[1].val = v
         /\ i = 0 => (LeafSets(i, v) \o DummyOps)[2].val = Zero
<1> DEFINE s == LeafSets(i, v)
           a == Set(NodeWire(NodeOf(i)), v)
           z == Set(Placeholder, Zero)
           g == Get(Placeholder)
           S == {a, z, g}
           m == IF i = 0 THEN 2 ELSE 1
           o == s \o DummyOps
<1>1. a \in S /\ z \in S /\ g \in S
  OBVIOUS
<1> HIDE DEF a, z, g, S
<1>2. s \in Seq(S) /\ Len(s) = m /\ s[1] = a /\ (i = 0 => s[2] = z)
  <2>1. CASE i = 0
    <3>1. s = <<a>> \o <<z>>
      BY <2>1 DEF a, z, LeafSets
    <3> DEFINE t == <<a>> \o <<z>>
    <3>2. t \in Seq(S) /\ Len(t) = 2 /\ t[1] = a /\ t[2] = z
      BY <1>1, PairIs
    <3> HIDE DEF t
    <3>3. s = t
      BY <3>1 DEF t
    <3>4. m = 2
      BY <2>1
    <3> QED  BY <3>2, <3>3, <3>4
  <2>2. CASE i # 0
    <3>1. s = <<a>> \o <<>>
      BY <2>2 DEF a, LeafSets
    <3>2. <<a>> \in Seq(S) /\ Len(<<a>>) = 1 /\ <<a>>[1] = a
      BY <1>1
    <3>3. <<a>> \o <<>> = <<a>>
      OBVIOUS
    <3> QED  BY <2>2, <3>1, <3>2, <3>3
  <2> QED  BY <2>1, <2>2
<1> HIDE DEF s
<1>3. /\ o \in Seq(S) /\ Len(o) = m + Dummies
      /\ \A k \in 1 .. m + Dummies : o[k] = IF k <= m THEN s[k] ELSE g
  <2>1. Get(Placeholder) \in S
    BY <1>1 DEF g
  <2> QED  BY <1>2, <2>1, WithDummies DEF g
<1> HIDE DEF o
<1>4. Dummies \in Nat /\ NumOps(i) = m + Dummies /\ i # NumSubcircuits - 1
  BY DummiesNat, KindIs DEF NumOps
<1>5. DOMAIN o = 1 .. NumOps(i)
  BY <1>3, <1>4
<1>6. ASSUME NEW k \in 1 .. NumOps(i)
      PROVE  o[k].op = (IF IsSet(i, k) THEN "set" ELSE "get") /\ o[k].wire = WireAt(i, k)
  <2>1. IsSet(i, k) <=> k <= m
    BY <1>4 DEF IsSet, SetAt
  <2>2. CASE k = 1
    <3>1. o[k] = a
      BY <1>2, <1>3, <1>4, <2>2
    <3> QED  BY <2>1, <2>2, <3>1 DEF a, Set, WireAt
  <2>3. CASE k # 1 /\ k <= m
    <3>1. o[k] = z /\ k = 2
      BY <1>2, <1>3, <1>4, <2>3
    <3> QED  BY <2>1, <2>3, <3>1 DEF z, Set, WireAt
  <2>4. CASE ~(k <= m)
    <3>1. o[k] = g /\ k # 1
      BY <1>2, <1>3, <1>4, <2>4
    <3> QED  BY <2>1, <2>4, <3>1 DEF g, Get, WireAt
  <2> QED  BY <2>2, <2>3, <2>4
<1>7. o[1].val = v
  BY <1>2, <1>3, <1>4 DEF a, Set
<1>8. i = 0 => o[2].val = Zero
  BY <1>2, <1>3, <1>4 DEF z, Set
<1>9. IsOps(o, i)
  <2>1. Len(o) = NumOps(i)
    BY <1>3, <1>4
  <2> QED  BY <2>1, <1>5, <1>6 DEF IsOps
<1> QED  BY <1>7, <1>8, <1>9 DEF o, s

LEMMA ParentOps ==
  ASSUME ParamsInv, NEW i \in Subcircuit, NumLeaves <= i, i < NumSubcircuits - 1, NEW v,
         NEW s, s = <<Get(NodeWire(LeftChild(NodeOf(i)))), Get(NodeWire(RightChild(NodeOf(i)))),
                      Set(NodeWire(NodeOf(i)), v)>>
  PROVE  IsOps(s \o DummyOps, i) /\ (s \o DummyOps)[3].val = v
<1> DEFINE a == Get(NodeWire(NodeOf(LeftSub(i))))
           b == Get(NodeWire(NodeOf(RightSub(i))))
           c == Set(NodeWire(NodeOf(i)), v)
           g == Get(Placeholder)
           S == {a, b, c, g}
           o == s \o DummyOps
<1>0. i \in Places /\ i # 0
  BY KindIs
<1>1. a \in S /\ b \in S /\ c \in S /\ g \in S
  OBVIOUS
<1>2. s = <<a, b, c>>
  BY <1>0, NodeIs
<1> HIDE DEF a, b, c, g, S
<1>3. s \in Seq(S) /\ Len(s) = 3 /\ s[1] = a /\ s[2] = b /\ s[3] = c
  BY <1>1, <1>2
<1>4. /\ o \in Seq(S) /\ Len(o) = 3 + Dummies
      /\ \A k \in 1 .. 3 + Dummies : o[k] = IF k <= 3 THEN s[k] ELSE g
  <2>1. Get(Placeholder) \in S
    BY <1>1 DEF g
  <2> QED  BY <1>3, <2>1, WithDummies DEF g
<1> HIDE DEF o
<1>5. Dummies \in Nat /\ NumOps(i) = 3 + Dummies /\ ~(i < NumLeaves) /\ i # NumSubcircuits - 1
  <2>1. NumLeaves \in Nat /\ NumSubcircuits = 2 * NumLeaves /\ i \in Nat
    BY KindIs
  <2> QED  BY <2>1, DummiesNat DEF NumOps
<1>6. DOMAIN o = 1 .. NumOps(i)
  BY <1>4, <1>5
<1>7. ASSUME NEW k \in 1 .. NumOps(i)
      PROVE  o[k].op = (IF IsSet(i, k) THEN "set" ELSE "get") /\ o[k].wire = WireAt(i, k)
  <2>1. IsSet(i, k) <=> k = 3
    BY <1>0, <1>5, KindIs DEF IsSet, SetAt
  <2>2. CASE k = 1
    <3>1. o[k] = a
      BY <1>3, <1>4, <1>5, <2>2
    <3> QED  BY <1>5, <2>1, <2>2, <3>1 DEF a, Get, WireAt
  <2>3. CASE k = 2
    <3>1. o[k] = b
      BY <1>3, <1>4, <1>5, <2>3
    <3> QED  BY <1>5, <2>1, <2>3, <3>1 DEF b, Get, WireAt
  <2>4. CASE k = 3
    <3>1. o[k] = c
      BY <1>3, <1>4, <1>5, <2>4
    <3> QED  BY <1>5, <2>1, <2>4, <3>1 DEF c, Set, WireAt
  <2>5. CASE k > 3
    <3>1. o[k] = g
      BY <1>3, <1>4, <1>5, <2>5
    <3> QED  BY <1>5, <2>1, <2>5, <3>1 DEF g, Get, WireAt
  <2> QED  BY <1>5, <2>2, <2>3, <2>4, <2>5
<1>8. o[3].val = v
  BY <1>3, <1>4, <1>5 DEF c, Set
<1> QED  BY <1>4, <1>5, <1>6, <1>7, <1>8 DEF IsOps, o

LEMMA PaddingOps ==
  ASSUME ParamsInv, NEW i \in Subcircuit, i = NumSubcircuits - 1
  PROVE  IsOps(<<>> \o DummyOps, i)
<1> DEFINE g == Get(Placeholder)
           S == {g}
           o == <<>> \o DummyOps
<1>1. g \in S /\ <<>> \in Seq(S) /\ Len(<<>>) = 0
  OBVIOUS
<1> HIDE DEF S
<1>2. /\ o \in Seq(S) /\ Len(o) = 0 + Dummies
      /\ \A k \in 1 .. 0 + Dummies : o[k] = IF k <= 0 THEN (<<>>)[k] ELSE g
  BY <1>1, WithDummies
<1> HIDE DEF o, g
<1>3. Dummies \in Nat /\ NumOps(i) = Dummies /\ ~(i < NumLeaves) /\ i # 0
  BY DummiesNat, KindIs DEF NumOps
<1>4. DOMAIN o = 1 .. NumOps(i)
  BY <1>2, <1>3
<1>5. ASSUME NEW k \in 1 .. NumOps(i)
      PROVE  o[k].op = (IF IsSet(i, k) THEN "set" ELSE "get") /\ o[k].wire = WireAt(i, k)
  <2>1. o[k] = g
    BY <1>2, <1>3
  <2> QED  BY <1>3, <2>1 DEF g, Get, WireAt, IsSet
<1> QED  BY <1>2, <1>3, <1>4, <1>5 DEF IsOps, o

-----------------------------------------------------------------------------
(* Inductive invariant: what the trace holds is what each subcircuit's      *)
(* constraints take.                                                        *)

Wire == {NodeWire(n) : n \in Node} \cup {Placeholder}
Entry(w) == [wire |-> w, val |-> ValueOf(w)]
Entries == {Entry(w) : w \in Wire}

\* A subtrace of a subcircuit, as far as it goes.
IsSubtrace(t, i) ==
  /\ t \in Seq(Entries) /\ Len(t) <= NumOps(i)
  /\ \A k \in 1 .. Len(t) : t[k] = Entry(WireAt(i, k))

\* Whether a subcircuit's operation is in the trace.
Done(i, k) == i + 1 \in 1 .. Len(subtraces) /\ k \in 1 .. Len(subtraces[i + 1])

Key(i) == [idx |-> i, shape |-> Shape(i)]
Keys == {Key(i) : i \in Subcircuit}

KeysInv ==
  /\ pks \in Seq(Keys) /\ Len(pks) <= Len(UniqueSubcircuits)
  /\ \A k \in 1 .. Len(pks) : pks[k] = Key(UniqueSubcircuits[k])
  /\ phase = "keys" <=> Len(pks) < Len(UniqueSubcircuits)

TraceInv ==
  /\ subtraces \in Seq(Seq(Entries)) /\ Len(subtraces) <= NumSubcircuits
  /\ \A j \in 1 .. Len(subtraces) :
       /\ IsSubtrace(subtraces[j], j - 1)
       /\ j < Len(subtraces) => Len(subtraces[j]) = NumOps(j - 1)
  /\ phase = "keys" => Len(subtraces) = 0
  /\ phase = "prove" =>
       /\ Len(subtraces) = NumSubcircuits
       /\ Len(subtraces[NumSubcircuits]) = NumOps(NumSubcircuits - 1)

\* A wire is set from the operation that sets it on, to the one value it has.
WireInv ==
  /\ wires = [w \in DOMAIN wires |-> ValueOf(w)] /\ DOMAIN wires \subseteq Wire
  /\ \A i \in Places : NodeWire(NodeOf(i)) \in DOMAIN wires <=> Done(i, SetAt(i))
  /\ Placeholder \in DOMAIN wires <=> Done(0, 2)

Proved == [keyFits |-> TRUE, satisfied |-> TRUE, met |-> TRUE]
ProofInv == proofs \in [Subcircuit -> {None, Proved}]

Inv ==
  /\ ParamsInv /\ CircInv /\ phase \in {"keys", "trace", "prove"}
  /\ KeysInv /\ TraceInv /\ WireInv /\ ProofInv

\* Nodes have wires of their own.
LEMMA WiresDiffer ==
  /\ \A n : NodeWire(n) # Placeholder
  /\ \A n, m : NodeWire(n) = NodeWire(m) => n = m
  BY DEF NodeWire, Placeholder

\* The values of the two kinds of wires.
LEMMA ValuesAre ==
  /\ ValueOf(Placeholder) = Zero
  /\ \A n : ValueOf(NodeWire(n)) = SubtreeRoot(n)
<1>1. \A n : NodeWire(n)[2] = n
  BY DEF NodeWire
<1> QED  BY <1>1, WiresDiffer DEF ValueOf

\* The operations that the coordinator logs.
LEMMA SetupIs ==
  ASSUME ParamsInv, NEW i \in Subcircuit
  PROVE  /\ IsOps(SetupOperations(i), i)
         /\ i < NumLeaves => SetupOperations(i)[1].val = LeafHash(circ.leaves[i + 1])
         /\ i = 0 => SetupOperations(i)[2].val = Zero
         /\ NumLeaves <= i /\ i < NumSubcircuits - 1 =>
              LET left  == NodeWire(NodeOf(LeftSub(i)))
                  right == NodeWire(NodeOf(RightSub(i)))
              IN  SetupOperations(i)[3].val
                    = IF {left, right} \subseteq DOMAIN wires
                      THEN NodeHash(wires[left], wires[right]) ELSE None
<1>1. /\ NumLeaves \in Nat /\ NumLeaves >= 2 /\ NumSubcircuits = 2 * NumLeaves /\ i \in Nat
      /\ i <= NumSubcircuits - 1
  BY KindIs DEF Subcircuit
<1>2. CASE i < NumLeaves
  <2> DEFINE v == LeafHash(circ.leaves[i + 1])
             s == LeafSets(i, v)
  <2>0. ~(NumLeaves <= i) /\ i \notin NumLeaves .. NumSubcircuits - 2
    BY <1>1, <1>2
  <2>1. SetupOperations(i) = s \o DummyOps
    BY <1>2, <2>0 DEF SetupOperations, NodeOf, LeafSets
  <2> HIDE DEF v
  <2>2. /\ IsOps(s \o DummyOps, i) /\ (s \o DummyOps)[1].val = v
        /\ i = 0 => (s \o DummyOps)[2].val = Zero
    BY <1>2, LeafOps
  <2> HIDE DEF s
  <2> QED  BY <1>2, <2>0, <2>1, <2>2 DEF v
<1>3. CASE NumLeaves <= i /\ i < NumSubcircuits - 1
  <2> DEFINE left == NodeWire(NodeOf(LeftSub(i)))
             right == NodeWire(NodeOf(RightSub(i)))
             v == IF {left, right} \subseteq DOMAIN wires
                  THEN NodeHash(wires[left], wires[right]) ELSE None
             s == <<Get(NodeWire(LeftChild(NodeOf(i)))), Get(NodeWire(RightChild(NodeOf(i)))),
                    Set(NodeWire(NodeOf(i)), v)>>
  <2>1. i \in Places /\ ~(i < NumLeaves) /\ i \in NumLeaves .. NumSubcircuits - 2
    BY <1>1, <1>3 DEF Places
  <2>2. LeftChild(NodeOf(i)) = NodeOf(LeftSub(i)) /\ RightChild(NodeOf(i)) = NodeOf(RightSub(i))
    BY <1>1, <2>1, NodeIs
  <2>3. SetupOperations(i) = s \o DummyOps
    BY <2>1, <2>2 DEF SetupOperations, NodeOf
  <2> HIDE DEF v
  <2>4. IsOps(s \o DummyOps, i) /\ (s \o DummyOps)[3].val = v
    BY <1>3, ParentOps
  <2> QED  BY <1>1, <1>3, <2>1, <2>3, <2>4 DEF v
<1>4. CASE i = NumSubcircuits - 1
  <2>1. ~(i < NumLeaves) /\ i \notin NumLeaves .. NumSubcircuits - 2
    BY <1>1, <1>4
  <2>2. SetupOperations(i) = <<>> \o DummyOps
    BY <2>1 DEF SetupOperations
  <2> QED  BY <1>1, <1>4, <2>1, <2>2, PaddingOps
<1> QED  BY <1>1, <1>2, <1>3, <1>4

\* The operations that a worker's constraints make.
LEMMA OperationsAre ==
  ASSUME ParamsInv, NEW i \in Subcircuit, NEW c, NEW l, NEW r
  PROVE  /\ IsOps(Operations(c, i, l, r), i)
         /\ i < NumLeaves => Operations(c, i, l, r)[1].val = LeafHash(c.leaves[i + 1])
         /\ i = 0 => Operations(c, i, l, r)[2].val = Zero
         /\ NumLeaves <= i /\ i < NumSubcircuits - 1 =>
              Operations(c, i, l, r)[3].val = NodeHash(l, r)
<1>1. /\ NumLeaves \in Nat /\ NumLeaves >= 2 /\ NumSubcircuits = 2 * NumLeaves /\ i \in Nat
      /\ i <= NumSubcircuits - 1
  BY KindIs DEF Subcircuit
<1> DEFINE ops == Operations(c, i, l, r)
<1>2. CASE i < NumLeaves
  <2> DEFINE v == LeafHash(c.leaves[i + 1])
             s == LeafSets(i, v)
  <2>0. ~(NumLeaves <= i)
    BY <1>1, <1>2
  <2>1. i \in Places /\ ~IsPadding(i) /\ IsLeaf(i) /\ ~IsParent(i)
    BY <1>1, <1>2, KindIs DEF Places
  <2>2. LeafIdx(NodeOf(i)) = i + 1
    BY <1>2, <2>1, NodeIs
  <2>3. ops = s \o DummyOps
    BY <2>1, <2>2 DEF Operations, NodeOf, LeafSets
  <2> HIDE DEF v, ops
  <2>4. /\ IsOps(s \o DummyOps, i) /\ (s \o DummyOps)[1].val = v
        /\ i = 0 => (s \o DummyOps)[2].val = Zero
    BY <1>2, LeafOps
  <2> HIDE DEF s
  <2> QED  BY <1>2, <2>0, <2>3, <2>4 DEF v, ops
<1>3. CASE NumLeaves <= i /\ i < NumSubcircuits - 1
  <2> DEFINE v == NodeHash(l, r)
             s == <<Get(NodeWire(LeftChild(NodeOf(i)))), Get(NodeWire(RightChild(NodeOf(i)))),
                    Set(NodeWire(NodeOf(i)), v)>>
  <2>1. ~IsPadding(i) /\ ~IsLeaf(i) /\ IsParent(i) /\ ~(i < NumLeaves) /\ i # 0
    BY <1>1, <1>3, KindIs
  <2>2. ops = (s \o <<>>) \o DummyOps
    BY <2>1 DEF Operations, NodeOf
  <2>3. s \o <<>> = s
    OBVIOUS
  <2> HIDE DEF v, ops
  <2>4. IsOps(s \o DummyOps, i) /\ (s \o DummyOps)[3].val = v
    BY <1>3, ParentOps
  <2> HIDE DEF s
  <2> QED  BY <1>1, <1>3, <2>1, <2>2, <2>3, <2>4 DEF v, ops
<1>4. CASE i = NumSubcircuits - 1
  <2>1. IsPadding(i) /\ ~IsLeaf(i) /\ ~IsParent(i) /\ i # 0 /\ ~(i < NumLeaves)
    BY <1>1, <1>4, KindIs
  <2>2. ops = (<<>> \o <<>>) \o DummyOps
    BY <2>1 DEF Operations
  <2>3. <<>> \o <<>> = <<>>
    OBVIOUS
  <2> HIDE DEF ops
  <2>4. IsOps(<<>> \o DummyOps, i)
    BY <1>4, PaddingOps
  <2> QED  BY <1>1, <1>4, <2>1, <2>2, <2>3, <2>4 DEF ops
<1> QED  BY <1>1, <1>2, <1>3, <1>4

-----------------------------------------------------------------------------
(* The invariant holds.                                                     *)

\* All that depends on the parameters and the circuit alone.
LEMMA Kept ==
  ASSUME params' = params, circ' = circ
  PROVE  /\ NumLeaves' = NumLeaves /\ NumSubcircuits' = NumSubcircuits
         /\ Subcircuit' = Subcircuit /\ Places' = Places /\ Wire' = Wire /\ Entries' = Entries
         /\ UniqueSubcircuits' = UniqueSubcircuits /\ Keys' = Keys
         /\ (ParamsInv /\ CircInv)' <=> ParamsInv /\ CircInv
         /\ \A i : NodeOf(i)' = NodeOf(i) /\ NumOps(i)' = NumOps(i) /\ SetAt(i)' = SetAt(i)
         /\ \A i : Key(i)' = Key(i)
         /\ \A i, k : WireAt(i, k)' = WireAt(i, k)
         /\ \A w : ValueOf(w)' = ValueOf(w) /\ Entry(w)' = Entry(w)
         /\ \A t, i : IsSubtrace(t, i)' <=> IsSubtrace(t, i)
<1>1. /\ NumLeaves' = NumLeaves /\ NumSubcircuits' = NumSubcircuits
      /\ Subcircuit' = Subcircuit /\ Places' = Places /\ Node' = Node /\ Dummies' = Dummies
  BY DEF NumLeaves, NumSubcircuits, Subcircuit, Places, Node, Dummies
<1>2. \A i : NodeOf(i)' = NodeOf(i)
  BY DEF NodeOf, SubcircuitIdxToNodeIdx, LevelStart, LevelSize, NumLeaves, NumSubcircuits
<1>3. \A n : SubtreeRoot(n)' = SubtreeRoot(n)
  BY DEF SubtreeRoot
<1>4. \A w : ValueOf(w)' = ValueOf(w)
  BY <1>3 DEF ValueOf
<1>5. \A w : Entry(w)' = Entry(w)
  BY <1>4 DEF Entry
<1>6. Wire' = Wire
  BY <1>1 DEF Wire
<1>7. Entries' = Entries
  BY <1>5, <1>6 DEF Entries
<1>8. \A i : NumOps(i)' = NumOps(i) /\ SetAt(i)' = SetAt(i)
  BY <1>1 DEF NumOps, SetAt
<1>9. \A i, k : WireAt(i, k)' = WireAt(i, k)
  BY <1>1, <1>2 DEF WireAt, LeftSub, RightSub
<1>10. \A t, i : IsSubtrace(t, i)' <=> IsSubtrace(t, i)
  BY <1>5, <1>7, <1>8, <1>9 DEF IsSubtrace
<1>11. \A i : /\ IsPadding(i)' <=> IsPadding(i)
              /\ IsLeaf(i)' <=> IsLeaf(i)
              /\ IsRoot(i)' <=> IsRoot(i)
  BY <1>1, <1>2 DEF IsPadding, IsLeaf, IsRoot, IsParent, NodeOf
<1>12. \A i : Key(i)' = Key(i)
  BY <1>1, <1>11 DEF Key, Shape
<1>13. Keys' = Keys
  BY <1>1, <1>12 DEF Keys
<1>14. UniqueSubcircuits' = UniqueSubcircuits
  BY <1>1 DEF UniqueSubcircuits
<1>15. (ParamsInv /\ CircInv)' <=> ParamsInv /\ CircInv
  BY DEF ParamsInv, CircInv
<1> QED  BY <1>1, <1>2, <1>4, <1>5, <1>6, <1>7, <1>8, <1>9, <1>10, <1>12, <1>13, <1>14, <1>15

\* Every subcircuit's representative is among the unique ones and has its shape.
LEMMA UniqueIs ==
  ASSUME ParamsInv
  PROVE  /\ UniqueSubcircuits \in Seq(Subcircuit) /\ Len(UniqueSubcircuits) > 0
         /\ \A i \in Subcircuit :
              /\ \E k \in 1 .. Len(UniqueSubcircuits) :
                   UniqueSubcircuits[k] = RepresentativeSubcircuit(i)
              /\ Shape(RepresentativeSubcircuit(i)) = Shape(i)
<1> DEFINE N == NumSubcircuits
           L == NumLeaves
           U == UniqueSubcircuits
           R(i) == RepresentativeSubcircuit(i)
<1>1. L \in Nat /\ L >= 2 /\ N = 2 * L /\ Subcircuit = 0 .. N - 1
  BY SizeIs DEF Subcircuit
<1>2. \A i \in Subcircuit : \A j \in Subcircuit :
        i < L /\ j < L /\ (i = 0 <=> j = 0) => Shape(i) = Shape(j)
  <2> SUFFICES ASSUME NEW i \in Subcircuit, NEW j \in Subcircuit, i < L, j < L, i = 0 <=> j = 0
               PROVE  Shape(i) = Shape(j)
    OBVIOUS
  <2>1. ~IsPadding(i) /\ IsLeaf(i) /\ ~IsRoot(i) /\ i # N - 1
    BY <1>1, KindIs
  <2>2. ~IsPadding(j) /\ IsLeaf(j) /\ ~IsRoot(j) /\ j # N - 1
    BY <1>1, KindIs
  <2>3. CASE i = 0
    BY <2>3
  <2>4. CASE i # 0
    <3>1. Shape(i) = [kind |-> "leaf", first |-> FALSE, last |-> FALSE]
      <4>1. (i = 0) = FALSE /\ (i = NumSubcircuits - 1) = FALSE
        BY <2>1, <2>4
      <4> QED  BY <2>1, <4>1, Zenon DEF Shape
    <3>2. Shape(j) = [kind |-> "leaf", first |-> FALSE, last |-> FALSE]
      <4>1. (j = 0) = FALSE /\ (j = NumSubcircuits - 1) = FALSE
        BY <2>2, <2>4
      <4> QED  BY <2>2, <4>1, Zenon DEF Shape
    <3> QED  BY <3>1, <3>2
  <2> QED  BY <2>3, <2>4
<1>3. \A i \in Subcircuit : \A j \in Subcircuit :
        i \in L .. N - 3 /\ j \in L .. N - 3 => Shape(i) = Shape(j)
  <2> SUFFICES ASSUME NEW i \in Subcircuit, NEW j \in Subcircuit, i \in L .. N - 3, j \in L .. N - 3
               PROVE  Shape(i) = Shape(j)
    OBVIOUS
  <2>1. ~IsPadding(i) /\ ~IsLeaf(i) /\ ~IsRoot(i) /\ i # 0 /\ i # N - 1
    BY <1>1, KindIs
  <2>2. ~IsPadding(j) /\ ~IsLeaf(j) /\ ~IsRoot(j) /\ j # 0 /\ j # N - 1
    BY <1>1, KindIs
  <2> QED  BY <2>1, <2>2 DEF Shape
<1>4. CASE params.binary = "coordinator" /\ N <= 4
  <2>1. U = [k \in 1 .. N |-> k - 1]
    BY <1>4 DEF UniqueSubcircuits
  <2>2. \A i : R(i) = i
    <3>1. L = 2 /\ N = 4
      BY <1>1, <1>4
    <3>2. \A i : (i = 0 => 0 = i) /\ (i \in 1 .. L - 1 => 1 = i) /\ i \notin L .. N - 3
      BY <3>1
    <3> QED  BY <1>4, <3>2 DEF RepresentativeSubcircuit
  <2> HIDE DEF U, R
  <2>3. U \in [1 .. N -> Subcircuit]
    <3> HIDE DEF N
    <3> QED  BY <1>1, <2>1
  <2>4. U \in Seq(Subcircuit) /\ Len(U) = N
    BY <1>1, <2>3
  <2>5. \A i \in Subcircuit : i + 1 \in 1 .. N /\ U[i + 1] = i
    BY <1>1, <2>1
  <2>6. ASSUME NEW i \in Subcircuit
        PROVE  /\ \E k \in 1 .. Len(U) : U[k] = R(i)
               /\ Shape(R(i)) = Shape(i)
    <3>1. R(i) = i
      BY <2>2
    <3>2. i + 1 \in 1 .. Len(U) /\ U[i + 1] = i
      BY <2>4, <2>5
    <3> QED  BY <3>1, <3>2
  <2>7. Len(U) > 0
    BY <1>1, <2>4
  <2> QED  BY <2>4, <2>6, <2>7 DEF U, R
<1>5. CASE ~(params.binary = "coordinator" /\ N <= 4)
  <2>1. U = <<0, 1, N - 1, N - 2, N - 3>>
    BY <1>5 DEF UniqueSubcircuits
  <2>2. \A i : R(i) = IF i = 0 THEN 0 ELSE IF i \in 1 .. L - 1 THEN 1
                      ELSE IF i \in L .. N - 3 THEN N - 3 ELSE i
    <3> TAKE i
    <3>1. ~(i = 0 /\ i \in 1 .. L - 1) /\ ~(i = 0 /\ i \in L .. N - 3)
          /\ ~(i \in 1 .. L - 1 /\ i \in L .. N - 3)
      BY <1>1
    <3> QED  BY <1>5, <3>1 DEF RepresentativeSubcircuit
  <2> HIDE DEF U, R
  <2>3. /\ 0 \in Subcircuit /\ 1 \in Subcircuit /\ N - 1 \in Subcircuit
        /\ N - 2 \in Subcircuit /\ N - 3 \in Subcircuit
    BY <1>1
  <2>4. /\ U \in Seq(Subcircuit) /\ Len(U) = 5 /\ U[1] = 0 /\ U[2] = 1
        /\ U[3] = N - 1 /\ U[4] = N - 2 /\ U[5] = N - 3
    BY <2>1, <2>3
  <2>5. ASSUME NEW i \in Subcircuit
        PROVE  (\E k \in 1 .. 5 : U[k] = R(i)) /\ Shape(R(i)) = Shape(i)
    <3>1. CASE i = 0
      BY <2>2, <2>4, <3>1
    <3>2. CASE i \in 1 .. L - 1
      <4>1. R(i) = 1
        BY <2>2, <3>2
      <4>2. Shape(1) = Shape(i)
        BY <1>1, <1>2, <2>3, <3>2
      <4> QED  BY <2>4, <4>1, <4>2
    <3>3. CASE i \in L .. N - 3
      <4>1. R(i) = N - 3
        BY <1>1, <2>2, <3>3
      <4>2. Shape(N - 3) = Shape(i)
        BY <1>1, <1>3, <2>3, <3>3
      <4> QED  BY <2>4, <4>1, <4>2
    <3>4. CASE i = N - 2 \/ i = N - 1
      <4>1. R(i) = i
        BY <1>1, <2>2, <3>4
      <4> QED  BY <2>4, <3>4, <4>1
    <3> QED  BY <1>1, <3>1, <3>2, <3>3, <3>4
  <2> QED  BY <2>4, <2>5 DEF U, R
<1> QED  BY <1>4, <1>5

\* The initial state satisfies the invariant.
LEMMA InitInv == Init => Inv
<1> SUFFICES ASSUME Init PROVE Inv
  OBVIOUS
<1>1. ParamsInv /\ CircInv
  <2>1. PICK l \in LeafCounts, p \in PortalCounts, b \in Binary :
          params = [leaves |-> l, portals |-> p, binary |-> b]
    BY DEF Init
  <2> QED  BY <2>1 DEF Init, ParamsInv, CircInv
<1>2. KeysInv
  <2>1. pks = <<>> /\ phase = "keys"
    BY DEF Init
  <2>2. Len(UniqueSubcircuits) \in Nat /\ Len(UniqueSubcircuits) > 0
    BY <1>1, UniqueIs
  <2> QED  BY <2>1, <2>2 DEF KeysInv
<1>3. subtraces = <<>> /\ phase = "keys"
  BY DEF Init
<1>4. TraceInv
  <2>1. subtraces \in Seq(Seq(Entries)) /\ Len(subtraces) = 0
    BY <1>3
  <2> QED  BY <1>1, <1>3, <2>1, SizeIs DEF TraceInv
<1>5. WireInv
  <2>1. wires = [w \in {} |-> None]
    BY DEF Init
  <2>2. DOMAIN wires = {} /\ wires = [w \in DOMAIN wires |-> ValueOf(w)]
    BY <2>1
  <2> QED  BY <1>3, <2>2 DEF WireInv, Done
<1>6. ProofInv
  BY DEF Init, ProofInv
<1> QED  BY <1>1, <1>2, <1>3, <1>4, <1>5, <1>6 DEF Inv

\* Generating a key preserves it.
LEMMA GenPkInv == ASSUME Inv, GenPk PROVE Inv'
<1>1. params' = params /\ circ' = circ /\ wires' = wires /\ subtraces' = subtraces /\ proofs' = proofs
  BY DEF GenPk
<1>2. ParamsInv /\ CircInv /\ KeysInv /\ TraceInv /\ WireInv /\ ProofInv /\ phase = "keys"
  BY DEF Inv, GenPk
<1> DEFINE U == UniqueSubcircuits
           n == Len(pks)
<1>3. phase' = (IF n + 1 = Len(U) THEN "trace" ELSE "keys") /\ phase' \in {"trace", "keys"}
  BY DEF GenPk
<1>4. KeysInv'
  <2>1. /\ pks \in Seq(Keys) /\ n \in Nat /\ Len(U) \in Nat /\ n < Len(U)
        /\ \A k \in 1 .. n : pks[k] = Key(U[k])
        /\ U \in Seq(Subcircuit)
    BY <1>2, UniqueIs DEF KeysInv
  <2>2. U[n + 1] \in Subcircuit
    BY <2>1
  <2>3. Key(U[n + 1]) \in Keys
    BY <2>2 DEF Keys
  <2>4. pks' = Append(pks, Key(U[n + 1]))
    BY DEF GenPk, Key
  <2> DEFINE K == Key(U[n + 1])
  <2> HIDE DEF K, U
  <2>5. /\ pks' \in Seq(Keys) /\ Len(pks') = n + 1
        /\ \A k \in 1 .. n : pks'[k] = pks[k]
        /\ pks'[n + 1] = K
    BY <2>1, <2>3, <2>4 DEF K
  <2>6. \A k \in 1 .. n + 1 : pks'[k] = Key(U[k])
    BY <2>1, <2>5 DEF K
  <2>7. phase' = "keys" <=> n + 1 < Len(U)
    BY <1>3, <2>1 DEF U
  <2>8. Keys' = Keys /\ UniqueSubcircuits' = U /\ \A k : Key(k)' = Key(k)
    BY <1>1, Kept DEF U
  <2> HIDE DEF n
  <2>9. n + 1 <= Len(U)
    BY <2>1
  <2> QED  BY <2>5, <2>6, <2>7, <2>8, <2>9 DEF KeysInv
<1>5. TraceInv'
  <2>1. Len(subtraces) = 0 /\ subtraces \in Seq(Seq(Entries))
    BY <1>2 DEF TraceInv
  <2>2. NumSubcircuits \in Nat /\ NumSubcircuits' = NumSubcircuits /\ Entries' = Entries
    BY <1>1, <1>2, Kept, SizeIs
  <2> QED  BY <1>1, <1>3, <2>1, <2>2 DEF TraceInv
<1>6. WireInv'
  <2>1. /\ Places' = Places /\ Wire' = Wire /\ \A i : NodeOf(i)' = NodeOf(i) /\ SetAt(i)' = SetAt(i)
        /\ \A w : ValueOf(w)' = ValueOf(w)
    BY <1>1, Kept
  <2>2. \A i, k : Done(i, k)' <=> Done(i, k)
    BY <1>1 DEF Done
  <2> QED  BY <1>1, <1>2, <2>1, <2>2 DEF WireInv
<1>7. ProofInv'
  <2>1. Subcircuit' = Subcircuit
    BY <1>1, Kept
  <2> QED  BY <1>1, <1>2, <2>1 DEF ProofInv
<1>8. (ParamsInv /\ CircInv)'
  BY <1>1, <1>2, Kept
<1> QED  BY <1>3, <1>4, <1>5, <1>6, <1>7, <1>8 DEF Inv

\* What the loop of the trace knows of the subtrace it is in.
LEMMA CurrentIs ==
  ASSUME Inv, subtraces # <<>>
  PROVE  /\ Len(subtraces) \in 1 .. NumSubcircuits /\ Current \in Subcircuit
         /\ Current + 1 = Len(subtraces) /\ Logged = subtraces[Current + 1]
         /\ IsSubtrace(Logged, Current) /\ Len(Logged) \in Nat
         /\ Len(SetupOperations(Current)) = NumOps(Current) /\ NumOps(Current) \in Nat
         /\ SubtraceEnds <=> Len(Logged) = NumOps(Current)
<1>1. ParamsInv /\ TraceInv
  BY DEF Inv
<1>2. NumSubcircuits \in Nat
  BY <1>1, SizeIs
<1>3. Len(subtraces) \in 1 .. NumSubcircuits
  BY <1>1, <1>2 DEF TraceInv
<1>4. Current \in Subcircuit /\ Current + 1 = Len(subtraces) /\ Logged = subtraces[Current + 1]
  BY <1>2, <1>3 DEF Current, Subcircuit, Logged
<1>5. IsSubtrace(Logged, Current)
  <2>1. IsSubtrace(subtraces[Len(subtraces)], Len(subtraces) - 1)
    BY <1>1, <1>3 DEF TraceInv
  <2> QED  BY <2>1 DEF Logged, Current
<1>6. Len(Logged) \in Nat
  BY <1>5 DEF IsSubtrace
<1>7. Len(SetupOperations(Current)) = NumOps(Current)
  BY <1>1, <1>4, SetupIs DEF IsOps
<1>8. NumOps(Current) \in Nat
  BY <1>1, DummiesNat DEF NumOps
<1> QED  BY <1>3, <1>4, <1>5, <1>6, <1>7, <1>8 DEF SubtraceEnds

\* So does beginning a subtrace, or ending the trace.
LEMMA StartSubtraceInv == ASSUME Inv, StartSubtrace PROVE Inv'
<1>1. /\ params' = params /\ circ' = circ /\ pks' = pks /\ wires' = wires /\ proofs' = proofs
      /\ phase = "trace" /\ SubtraceEnds
  BY DEF StartSubtrace
<1>2. ParamsInv /\ CircInv /\ KeysInv /\ TraceInv /\ WireInv /\ ProofInv
  BY DEF Inv
<1>3. NumSubcircuits \in Nat /\ NumSubcircuits > 0
  BY <1>2, SizeIs
<1> DEFINE n == Len(subtraces)
<1>4. subtraces \in Seq(Seq(Entries)) /\ n \in Nat /\ n <= NumSubcircuits
  BY <1>2 DEF TraceInv
<1>5. n # 0 => Len(subtraces[n]) = NumOps(n - 1)
  <2> SUFFICES ASSUME n # 0 PROVE Len(subtraces[n]) = NumOps(n - 1)
    OBVIOUS
  <2>1. subtraces # <<>>
    BY <1>4
  <2> QED  BY <1>1, <2>1, CurrentIs DEF Current, Logged
<1>6. (ParamsInv /\ CircInv)'
  BY <1>1, <1>2, Kept
<1>7. ProofInv'
  <2>1. Subcircuit' = Subcircuit
    BY <1>1, Kept
  <2> QED  BY <1>1, <1>2, <2>1 DEF ProofInv
<1>8. /\ Places' = Places /\ Wire' = Wire /\ \A i : NodeOf(i)' = NodeOf(i) /\ SetAt(i)' = SetAt(i)
      /\ \A w : ValueOf(w)' = ValueOf(w)
      /\ NumSubcircuits' = NumSubcircuits /\ Entries' = Entries
      /\ \A i : NumOps(i)' = NumOps(i)
      /\ \A t, i : IsSubtrace(t, i)' <=> IsSubtrace(t, i)
  BY <1>1, Kept
<1>9. CASE n < NumSubcircuits
  <2>1. subtraces' = Append(subtraces, <<>>) /\ phase' = "trace"
    BY <1>1, <1>9 DEF StartSubtrace
  <2>2. /\ subtraces' \in Seq(Seq(Entries)) /\ Len(subtraces') = n + 1
        /\ subtraces'[n + 1] = <<>>
        /\ \A j \in 1 .. n : subtraces'[j] = subtraces[j]
    <3> DEFINE e == <<>>
               S == Seq(Entries)
    <3>1. e \in S
      OBVIOUS
    <3> HIDE DEF e, S
    <3> QED  BY <1>4, <2>1, <3>1 DEF e, S
  <2>3. KeysInv'
    <3>1. Keys' = Keys /\ UniqueSubcircuits' = UniqueSubcircuits /\ \A k : Key(k)' = Key(k)
      BY <1>1, Kept
    <3> QED  BY <1>1, <1>2, <2>1, <3>1 DEF KeysInv
  <2>4. TraceInv'
    <3>1. ASSUME NEW j \in 1 .. n + 1
          PROVE  /\ IsSubtrace(subtraces'[j], j - 1)
                 /\ j < n + 1 => Len(subtraces'[j]) = NumOps(j - 1)
      <4>1. CASE j = n + 1
        <5>1. subtraces'[j] = <<>> /\ ~(j < n + 1)
          BY <1>4, <2>2, <4>1
        <5>2. NumOps(j - 1) \in Nat
          BY <1>2, DummiesNat DEF NumOps
        <5> DEFINE e == <<>>
        <5>3. e \in Seq(Entries) /\ Len(e) = 0
          OBVIOUS
        <5> HIDE DEF e
        <5>4. IsSubtrace(e, j - 1)
          BY <5>2, <5>3 DEF IsSubtrace
        <5> QED  BY <5>1, <5>4 DEF e
      <4>2. CASE j # n + 1
        <5>1. j \in 1 .. n /\ (j < n \/ j = n)
          BY <1>4, <4>2
        <5>2. IsSubtrace(subtraces[j], j - 1) /\ (j < n => Len(subtraces[j]) = NumOps(j - 1))
          BY <1>2, <5>1 DEF TraceInv
        <5>3. Len(subtraces[j]) = NumOps(j - 1)
          BY <1>4, <1>5, <5>1, <5>2
        <5>4. subtraces'[j] = subtraces[j]
          BY <2>2, <5>1
        <5> QED  BY <5>2, <5>3, <5>4
      <4> QED  BY <4>1, <4>2
    <3> HIDE DEF n
    <3>2. n + 1 <= NumSubcircuits
      BY <1>3, <1>4, <1>9
    <3>3. \A j \in 1 .. n + 1 : IsSubtrace(subtraces[j], j - 1)'
      BY <1>8, <3>1
    <3> QED  BY <1>8, <2>1, <2>2, <3>1, <3>2, <3>3 DEF TraceInv
  <2>5. WireInv'
    <3>1. \A i \in Int, k \in Int : Done(i, k)' <=> Done(i, k)
      <4> SUFFICES ASSUME NEW i \in Int, NEW k \in Int PROVE Done(i, k)' <=> Done(i, k)
        OBVIOUS
      <4>1. CASE i + 1 = n + 1
        <5>1. Len(subtraces'[i + 1]) = 0
          BY <2>2, <4>1
        <5>2. ~(k \in 1 .. Len(subtraces'[i + 1]))
          BY <5>1
        <5>3. ~(i + 1 \in 1 .. Len(subtraces))
          BY <1>4, <4>1
        <5> QED  BY <5>2, <5>3 DEF Done
      <4>2. CASE i + 1 # n + 1
        <5>1. i + 1 \in 1 .. Len(subtraces') <=> i + 1 \in 1 .. n
          BY <1>4, <2>2, <4>2
        <5> QED  BY <2>2, <5>1 DEF Done
      <4> QED  BY <4>1, <4>2
    <3>2. \A i \in Places : i \in Int /\ SetAt(i) \in Int
      BY <1>3 DEF Places, SetAt
    <3> QED  BY <1>1, <1>2, <1>8, <3>1, <3>2 DEF WireInv
  <2> QED  BY <1>6, <1>7, <2>1, <2>3, <2>4, <2>5 DEF Inv
<1>10. CASE ~(n < NumSubcircuits)
  <2>1. subtraces' = subtraces /\ phase' = "prove"
    BY <1>1, <1>10 DEF StartSubtrace
  <2>2. n = NumSubcircuits /\ Len(subtraces[n]) = NumOps(n - 1)
    BY <1>3, <1>4, <1>5, <1>10
  <2>3. KeysInv'
    <3>1. Keys' = Keys /\ UniqueSubcircuits' = UniqueSubcircuits /\ \A k : Key(k)' = Key(k)
      BY <1>1, Kept
    <3> QED  BY <1>1, <1>2, <2>1, <3>1 DEF KeysInv
  <2>4. TraceInv'
    BY <1>2, <1>8, <2>1, <2>2 DEF TraceInv
  <2>5. WireInv'
    <3>1. \A i, k : Done(i, k)' <=> Done(i, k)
      BY <2>1 DEF Done
    <3> QED  BY <1>1, <1>2, <1>8, <3>1 DEF WireInv
  <2> QED  BY <1>6, <1>7, <2>1, <2>3, <2>4, <2>5 DEF Inv
<1> QED  BY <1>9, <1>10

\* A subcircuit has an operation that sets its wire.
LEMMA OpsCount ==
  ASSUME ParamsInv, NEW i \in Subcircuit
  PROVE  /\ NumOps(i) \in Nat
         /\ i # NumSubcircuits - 1 => SetAt(i) \in 1 .. NumOps(i)
         /\ i = 0 => 2 \in 1 .. NumOps(i)
         /\ NumLeaves <= i /\ i < NumSubcircuits - 1 => NumOps(i) >= 3
<1>1. NumLeaves \in Nat /\ NumLeaves >= 2 /\ NumSubcircuits = 2 * NumLeaves /\ i \in Nat
  BY KindIs
<1> QED  BY <1>1, DummiesNat DEF NumOps, SetAt

\* What is done, of the subcircuits before, at and after the current one.
LEMMA DoneIs ==
  ASSUME Inv, subtraces # <<>>, NEW i \in Subcircuit, NEW k \in Nat
  PROVE  /\ i < Current => (Done(i, k) <=> k \in 1 .. NumOps(i))
         /\ i = Current => (Done(i, k) <=> k \in 1 .. Len(Logged))
         /\ i > Current => ~Done(i, k)
<1>1. ParamsInv /\ TraceInv
  BY DEF Inv
<1>2. /\ Len(subtraces) \in 1 .. NumSubcircuits /\ Current + 1 = Len(subtraces)
      /\ Current \in Nat /\ Logged = subtraces[Current + 1]
  <2>1. Current \in Subcircuit
    BY CurrentIs
  <2> QED  BY <1>1, <2>1, CurrentIs, KindIs
<1>3. i \in Nat
  BY <1>1, KindIs
<1>4. CASE i < Current
  <2>1. i + 1 \in 1 .. Len(subtraces) /\ i + 1 < Len(subtraces) /\ (i + 1) - 1 = i
    BY <1>2, <1>3, <1>4
  <2>2. Len(subtraces[i + 1]) = NumOps(i)
    BY <1>1, <2>1 DEF TraceInv
  <2> QED  BY <1>2, <1>3, <1>4, <2>1, <2>2 DEF Done
<1>5. CASE i = Current
  <2>1. i + 1 \in 1 .. Len(subtraces) /\ subtraces[i + 1] = Logged
    BY <1>2, <1>3, <1>5
  <2> QED  BY <1>2, <1>3, <1>5, <2>1 DEF Done
<1>6. CASE i > Current
  <2>1. i + 1 \notin 1 .. Len(subtraces)
    BY <1>2, <1>3, <1>6
  <2> QED  BY <1>2, <1>3, <1>6, <2>1 DEF Done
<1> QED  BY <1>2, <1>3, <1>4, <1>5, <1>6

\* The node's wire of an earlier subcircuit is set.
LEMMA EarlierSet ==
  ASSUME Inv, subtraces # <<>>, NEW i \in Places, i < Current
  PROVE  NodeWire(NodeOf(i)) \in DOMAIN wires
<1>1. ParamsInv /\ WireInv
  BY DEF Inv
<1>2. i \in Subcircuit /\ i # NumSubcircuits - 1 /\ SetAt(i) \in Nat
  BY <1>1, SizeIs DEF Places, Subcircuit, SetAt
<1>3. SetAt(i) \in 1 .. NumOps(i)
  BY <1>1, <1>2, OpsCount
<1>4. Done(i, SetAt(i))
  BY <1>2, <1>3, DoneIs
<1> QED  BY <1>1, <1>4 DEF WireInv

\* The wire of the next operation is set unless the operation sets it.
LEMMA WireIsSet ==
  ASSUME Inv, subtraces # <<>>, NEW k, k = Len(Logged) + 1, k <= NumOps(Current)
  PROVE  /\ WireAt(Current, k) \in DOMAIN wires <=> ~IsSet(Current, k)
         /\ WireAt(Current, k) \in Wire
<1> DEFINE c == Current
<1>1. ParamsInv /\ WireInv
  BY DEF Inv
<1>2. /\ c \in Subcircuit /\ Len(Logged) \in Nat /\ k \in Nat /\ k >= 1
      /\ NumOps(c) \in Nat
  BY CurrentIs
<1>3. NumLeaves \in Nat /\ NumLeaves >= 2 /\ NumSubcircuits = 2 * NumLeaves /\ c \in Nat
  BY <1>1, <1>2, KindIs
<1>4. c <= NumSubcircuits - 1 /\ 0 \in Subcircuit
  BY <1>2, <1>3 DEF Subcircuit
<1>5. \A i \in Places : /\ i \in Subcircuit /\ i # NumSubcircuits - 1 /\ SetAt(i) \in Nat
                        /\ NodeWire(NodeOf(i)) \in Wire
  BY <1>1, <1>3, NodeIs DEF Places, Subcircuit, SetAt, Wire
<1>6. \A i \in Places : i < c => NodeWire(NodeOf(i)) \in DOMAIN wires
  BY EarlierSet
<1>7. Placeholder \in Wire
  BY DEF Wire
<1>8. c # 0 => Placeholder \in DOMAIN wires
  <2> SUFFICES ASSUME c # 0 PROVE Placeholder \in DOMAIN wires
    OBVIOUS
  <2>1. 0 < c /\ 2 \in 1 .. NumOps(0)
    BY <1>1, <1>3, <1>4, OpsCount
  <2>2. Done(0, 2)
    BY <1>4, <2>1, DoneIs
  <2> QED  BY <1>1, <2>2 DEF WireInv
<1>9. CASE c < NumLeaves /\ k = 1
  <2>1. WireAt(c, k) = NodeWire(NodeOf(c)) /\ IsSet(c, k) /\ c \in Places /\ SetAt(c) = 1
    BY <1>3, <1>9 DEF WireAt, IsSet, SetAt, Places
  <2>2. ~Done(c, 1)
    BY <1>2, <1>9, DoneIs
  <2> QED  BY <1>1, <1>5, <2>1, <2>2 DEF WireInv
<1>10. CASE c < NumLeaves /\ k # 1
  <2>1. WireAt(c, k) = Placeholder /\ (IsSet(c, k) <=> c = 0 /\ k = 2)
    BY <1>3, <1>10 DEF WireAt, IsSet, SetAt
  <2>2. c = 0 => (Done(0, 2) <=> k > 2)
    BY <1>2, <1>10, DoneIs
  <2>3. k > 2 \/ k = 2
    BY <1>2, <1>10
  <2> QED  BY <1>1, <1>7, <1>8, <2>1, <2>2, <2>3 DEF WireInv
<1>11. CASE c >= NumLeaves /\ (c = NumSubcircuits - 1 \/ k > 3)
  <2>1. WireAt(c, k) = Placeholder /\ ~IsSet(c, k) /\ c # 0
    BY <1>2, <1>3, <1>11 DEF WireAt, IsSet, SetAt
  <2> QED  BY <1>7, <1>8, <2>1
<1>12. CASE c >= NumLeaves /\ c # NumSubcircuits - 1 /\ k = 3
  <2>1. WireAt(c, k) = NodeWire(NodeOf(c)) /\ IsSet(c, k) /\ c \in Places /\ SetAt(c) = 3
    BY <1>3, <1>4, <1>12 DEF WireAt, IsSet, SetAt, Places
  <2>2. ~Done(c, 3)
    BY <1>2, <1>12, DoneIs
  <2> QED  BY <1>1, <1>5, <2>1, <2>2 DEF WireInv
<1>13. CASE c >= NumLeaves /\ c # NumSubcircuits - 1 /\ (k = 1 \/ k = 2)
  <2>1. c \in Places /\ ~(c < NumLeaves) /\ c # 0
    BY <1>3, <1>4, <1>13 DEF Places
  <2>2. /\ LeftSub(c) \in Places /\ LeftSub(c) < c
        /\ RightSub(c) \in Places /\ RightSub(c) < c
    BY <1>1, <1>13, <2>1, NodeIs
  <2>3. WireAt(c, k) = NodeWire(NodeOf(IF k = 1 THEN LeftSub(c) ELSE RightSub(c))) /\ ~IsSet(c, k)
    BY <1>13, <2>1 DEF WireAt, IsSet, SetAt
  <2> QED  BY <1>5, <1>6, <2>2, <2>3
<1> QED  BY <1>2, <1>3, <1>9, <1>10, <1>11, <1>12, <1>13

\* And it is set to the value of that wire.
LEMMA SetsValue ==
  ASSUME Inv, subtraces # <<>>, NEW k, k = Len(Logged) + 1, k <= NumOps(Current),
         IsSet(Current, k)
  PROVE  SetupOperations(Current)[k].val = ValueOf(WireAt(Current, k))
<1> DEFINE c == Current
<1>1. ParamsInv /\ CircInv /\ WireInv
  BY DEF Inv
<1>2. c \in Subcircuit
  BY CurrentIs
<1>3. /\ NumLeaves \in Nat /\ NumLeaves >= 2 /\ NumSubcircuits = 2 * NumLeaves /\ c \in Nat
      /\ c <= NumSubcircuits - 1
  BY <1>1, <1>2, KindIs DEF Subcircuit
<1> HIDE DEF c
<1>4. CASE c < NumLeaves /\ k = 1
  <2>1. WireAt(c, k) = NodeWire(NodeOf(c)) /\ c \in Places
    BY <1>3, <1>4 DEF WireAt, Places
  <2>2. SetupOperations(c)[k].val = LeafHash(circ.leaves[c + 1])
    BY <1>1, <1>2, <1>4, SetupIs
  <2>3. ValueOf(WireAt(c, k)) = LeafHash(circ.leaves[c + 1])
    BY <1>1, <1>4, <2>1, SubtreeIs, ValuesAre
  <2> QED  BY <2>2, <2>3 DEF c
<1>5. CASE c = 0 /\ k = 2
  <2>1. WireAt(c, k) = Placeholder
    BY <1>3, <1>5 DEF WireAt
  <2> QED  BY <1>1, <1>2, <1>5, <2>1, SetupIs, ValuesAre DEF c
<1>6. CASE NumLeaves <= c /\ c < NumSubcircuits - 1 /\ k = 3
  <2> DEFINE left == NodeWire(NodeOf(LeftSub(c)))
             right == NodeWire(NodeOf(RightSub(c)))
  <2>1. /\ c \in Places /\ ~(c < NumLeaves) /\ c >= NumLeaves /\ c # NumSubcircuits - 1
        /\ WireAt(c, k) = NodeWire(NodeOf(c))
    BY <1>3, <1>6 DEF WireAt, Places
  <2>2. /\ LeftSub(c) \in Places /\ LeftSub(c) < c
        /\ RightSub(c) \in Places /\ RightSub(c) < c
    BY <1>1, <2>1, NodeIs
  <2>3. left \in DOMAIN wires /\ right \in DOMAIN wires
    BY <2>2, EarlierSet DEF c
  <2>4. \A w \in DOMAIN wires : wires[w] = ValueOf(w)
    BY <1>1 DEF WireInv
  <2>5. wires[left] = SubtreeRoot(NodeOf(LeftSub(c))) /\ wires[right] = SubtreeRoot(NodeOf(RightSub(c)))
    BY <2>3, <2>4, ValuesAre
  <2>6. SetupOperations(c)[k].val = NodeHash(wires[left], wires[right])
    BY <1>1, <1>2, <1>6, <2>3, SetupIs
  <2>7. ValueOf(WireAt(c, k)) = NodeHash(SubtreeRoot(NodeOf(LeftSub(c))), SubtreeRoot(NodeOf(RightSub(c))))
    BY <1>1, <2>1, SubtreeIs, ValuesAre
  <2> QED  BY <2>5, <2>6, <2>7 DEF c
<1>7. (c # NumSubcircuits - 1 /\ k = IF c < NumLeaves THEN 1 ELSE 3) \/ (c = 0 /\ k = 2)
  BY DEF IsSet, SetAt, c
<1> QED  BY <1>3, <1>4, <1>5, <1>6, <1>7

\* An operation panics nowhere, and logs the wire that the constraints will ask for.
LEMMA AccessInv == ASSUME Inv, Access PROVE Inv'
<1> DEFINE c == Current
           n == Len(subtraces)
           k == Len(Logged) + 1
           x == WireAt(c, k)
           o == SetupOperations(c)[k]
           Taken == /\ wires' = IF o.op = "get" THEN wires
                                ELSE [w \in DOMAIN wires \cup {o.wire} |->
                                        IF w = o.wire THEN o.val ELSE wires[w]]
                    /\ subtraces' = [subtraces EXCEPT ![n] =
                                       Append(@, [wire |-> o.wire, val |-> wires'[o.wire]])]
                    /\ phase' = phase
<1>1. /\ params' = params /\ circ' = circ /\ pks' = pks /\ proofs' = proofs
      /\ phase = "trace" /\ ~SubtraceEnds
      /\ ~((o.op = "get") # (o.wire \in DOMAIN wires)) => Taken
  BY DEF Access
<1>2. ParamsInv /\ CircInv /\ KeysInv /\ TraceInv /\ WireInv /\ ProofInv
  BY DEF Inv
<1>3. subtraces # <<>>
  BY <1>1 DEF SubtraceEnds
<1>4. /\ n \in 1 .. NumSubcircuits /\ c \in Subcircuit /\ c + 1 = n /\ Logged = subtraces[n]
      /\ IsSubtrace(Logged, c) /\ Len(Logged) \in Nat /\ NumOps(c) \in Nat
      /\ Len(Logged) # NumOps(c)
  BY <1>1, <1>3, CurrentIs
<1>5. k \in Nat /\ k \in 1 .. NumOps(c)
  BY <1>4 DEF IsSubtrace
<1>6. o.op = (IF IsSet(c, k) THEN "set" ELSE "get") /\ o.wire = x
  BY <1>2, <1>4, <1>5, SetupIs DEF IsOps
<1>7. (x \in DOMAIN wires <=> ~IsSet(c, k)) /\ x \in Wire
  BY <1>3, <1>5, WireIsSet
<1>8. IsSet(c, k) => o.val = ValueOf(x)
  BY <1>3, <1>5, SetsValue
<1>9. Taken
  <2>1. o.op = "get" <=> ~IsSet(c, k)
    BY <1>6
  <2> HIDE DEF o, x, c, k, Taken
  <2>2. (o.op = "get") = (o.wire \in DOMAIN wires)
    BY <1>6, <1>7, <2>1
  <2> QED  BY <1>1, <2>2
<1>10. /\ n \in Nat /\ subtraces \in Seq(Seq(Entries)) /\ n <= NumSubcircuits
       /\ Logged \in Seq(Entries)
  BY <1>2, <1>4 DEF TraceInv, IsSubtrace
<1> HIDE DEF c, k, x, o
<1>11. /\ DOMAIN wires' = DOMAIN wires \cup {x}
       /\ wires' = [w \in DOMAIN wires' |-> ValueOf(w)]
  <2>1. wires = [w \in DOMAIN wires |-> ValueOf(w)]
    BY <1>2 DEF WireInv
  <2>2. CASE IsSet(c, k)
    <3>1. wires' = [w \in DOMAIN wires \cup {x} |-> IF w = x THEN ValueOf(x) ELSE wires[w]]
      BY <1>6, <1>8, <1>9, <2>2
    <3>2. \A w \in DOMAIN wires : wires[w] = ValueOf(w)
      BY <2>1
    <3> QED  BY <3>1, <3>2
  <2>3. CASE ~IsSet(c, k)
    <3>1. wires' = wires
      BY <1>6, <1>9, <2>3
    <3> QED  BY <1>7, <2>1, <2>3, <3>1
  <2> QED  BY <2>2, <2>3
<1>12. subtraces' = [subtraces EXCEPT ![n] = Append(@, Entry(x))]
  <2>1. wires'[x] = ValueOf(x)
    BY <1>11
  <2> QED  BY <1>6, <1>9, <2>1 DEF Entry
<1>13. Entry(x) \in Entries
  BY <1>7 DEF Entries
<1> DEFINE t == Append(Logged, Entry(x))
           e == Entry(x)
<1> HIDE DEF e
<1>14. /\ t \in Seq(Entries) /\ Len(t) = k /\ t[k] = Entry(x)
       /\ \A m \in 1 .. k - 1 : t[m] = Logged[m]
  BY <1>4, <1>10, <1>13 DEF k, e
<1> HIDE DEF t, n
<1>15. /\ subtraces' \in Seq(Seq(Entries)) /\ Len(subtraces') = n /\ subtraces'[n] = t
       /\ \A j \in 1 .. n : j # n => subtraces'[j] = subtraces[j]
  BY <1>4, <1>10, <1>12, <1>14 DEF t, n
<1>16. IsSubtrace(t, c)
  <2>1. k <= NumOps(c)
    BY <1>5
  <2>2. ASSUME NEW m \in 1 .. k PROVE t[m] = Entry(WireAt(c, m))
    <3>1. CASE m = k
      BY <1>14, <3>1 DEF x
    <3>2. CASE m # k
      <4>1. m \in 1 .. k - 1 /\ m \in 1 .. Len(Logged)
        BY <1>4, <1>5, <3>2 DEF k
      <4> QED  BY <1>4, <1>14, <4>1 DEF IsSubtrace
    <3> QED  BY <3>1, <3>2
  <2> QED  BY <1>14, <2>1, <2>2 DEF IsSubtrace
<1>17. /\ Places' = Places /\ Wire' = Wire /\ \A i : NodeOf(i)' = NodeOf(i) /\ SetAt(i)' = SetAt(i)
       /\ \A w : ValueOf(w)' = ValueOf(w)
       /\ NumSubcircuits' = NumSubcircuits /\ Entries' = Entries
       /\ \A i : NumOps(i)' = NumOps(i)
       /\ \A s, i : IsSubtrace(s, i)' <=> IsSubtrace(s, i)
  BY <1>1, Kept
<1>18. phase' = "trace"
  BY <1>1, <1>9
<1>19. KeysInv'
  <2>1. Keys' = Keys /\ UniqueSubcircuits' = UniqueSubcircuits /\ \A i : Key(i)' = Key(i)
    BY <1>1, Kept
  <2> QED  BY <1>1, <1>2, <1>18, <2>1 DEF KeysInv
<1>20. TraceInv'
  <2>1. ASSUME NEW j \in 1 .. n
        PROVE  /\ IsSubtrace(subtraces'[j], j - 1)
               /\ j < n => Len(subtraces'[j]) = NumOps(j - 1)
    <3>1. CASE j = n
      <4>1. j - 1 = c /\ ~(j < n)
        BY <1>4, <1>10, <3>1 DEF c, Current, n
      <4> QED  BY <1>15, <1>16, <3>1, <4>1
    <3>2. CASE j # n
      BY <1>2, <1>15, <3>2 DEF TraceInv, n
    <3> QED  BY <3>1, <3>2
  <2>2. \A j \in 1 .. n : IsSubtrace(subtraces[j], j - 1)'
    BY <1>17, <2>1
  <2> QED  BY <1>10, <1>15, <1>17, <1>18, <2>1, <2>2 DEF TraceInv
<1>21. WireInv'
  <2>0. c \in Nat /\ NumLeaves \in Nat /\ NumLeaves >= 2 /\ NumSubcircuits = 2 * NumLeaves
    BY <1>2, <1>4, KindIs
  <2>1. ASSUME NEW i \in Nat, NEW s \in Nat
        PROVE  Done(i, s)' <=> Done(i, s) \/ (i = c /\ s = k)
    <3>1. CASE i = c
      <4>1. i + 1 = n /\ i + 1 \in 1 .. Len(subtraces) /\ i + 1 \in 1 .. Len(subtraces')
        BY <1>4, <1>10, <1>15, <3>1 DEF n
      <4>2. subtraces[i + 1] = Logged /\ subtraces'[i + 1] = t
        BY <1>4, <1>15, <4>1
      <4>3. s \in 1 .. k <=> s \in 1 .. Len(Logged) \/ s = k
        BY <1>4 DEF k
      <4> QED  BY <1>14, <3>1, <4>1, <4>2, <4>3 DEF Done
    <3>2. CASE i # c
      <4>1. i + 1 # n
        BY <1>4, <2>0, <3>2
      <4>2. i + 1 \in 1 .. Len(subtraces') <=> i + 1 \in 1 .. Len(subtraces)
        BY <1>15 DEF n
      <4>3. i + 1 \in 1 .. Len(subtraces) => subtraces'[i + 1] = subtraces[i + 1]
        BY <1>15, <4>1 DEF n
      <4> QED  BY <3>2, <4>2, <4>3 DEF Done
    <3> QED  BY <3>1, <3>2
  <2>2. \A i \in Places : i \in Nat /\ SetAt(i) \in Nat
    BY <1>2, SizeIs DEF Places, SetAt
  <2>3. /\ \A i \in Places : NodeWire(NodeOf(i)) \in DOMAIN wires <=> Done(i, SetAt(i))
        /\ Placeholder \in DOMAIN wires <=> Done(0, 2)
        /\ DOMAIN wires \subseteq Wire
    BY <1>2 DEF WireInv
  <2>6. \/ IsSet(c, k) /\ x = NodeWire(NodeOf(c)) /\ c \in Places /\ k = SetAt(c)
        \/ c = 0 /\ k = 2
        \/ ~IsSet(c, k)
    <3> SUFFICES ASSUME c # NumSubcircuits - 1, k = SetAt(c)
                 PROVE  x = NodeWire(NodeOf(c)) /\ c \in Places
      BY DEF IsSet
    <3>1. c \in Places
      BY <1>2, <1>4, KindIs
    <3>2. CASE c < NumLeaves
      BY <3>1, <3>2 DEF SetAt, x, WireAt
    <3>3. CASE ~(c < NumLeaves)
      BY <3>1, <3>3 DEF SetAt, x, WireAt
    <3> QED  BY <3>1, <3>2, <3>3
  <2>4. ASSUME NEW i \in Places
        PROVE  NodeWire(NodeOf(i)) \in DOMAIN wires' <=> Done(i, SetAt(i))'
    <3>1. Done(i, SetAt(i))' <=> Done(i, SetAt(i)) \/ (i = c /\ SetAt(i) = k)
      BY <1>17, <2>1, <2>2
    <3>2. CASE IsSet(c, k) /\ x = NodeWire(NodeOf(c)) /\ c \in Places /\ k = SetAt(c)
      <4>1. NodeWire(NodeOf(i)) = x <=> i = c
        BY <1>2, <3>2, NodeInjective, WiresDiffer
      <4> QED  BY <1>11, <2>3, <3>1, <3>2, <4>1
    <3>3. CASE c = 0 /\ k = 2
      <4>1. x = Placeholder
        BY <2>0, <3>3 DEF x, WireAt
      <4>2. NodeWire(NodeOf(i)) # x
        BY <4>1, WiresDiffer
      <4>3. SetAt(i) # 2
        BY DEF SetAt
      <4> QED  BY <1>11, <2>3, <3>1, <3>3, <4>2, <4>3
    <3>4. CASE ~IsSet(c, k)
      <4>1. ~(i = c /\ SetAt(i) = k)
        BY <1>2, <3>4, KindIs, SizeIs DEF IsSet, Places
      <4> QED  BY <1>7, <1>11, <2>3, <3>1, <3>4, <4>1
    <3> QED  BY <2>6, <3>2, <3>3, <3>4
  <2>5. Placeholder \in DOMAIN wires' <=> Done(0, 2)'
    <3>1. Done(0, 2)' <=> Done(0, 2) \/ (c = 0 /\ k = 2)
      BY <2>1
    <3>2. CASE IsSet(c, k) /\ x = NodeWire(NodeOf(c)) /\ c \in Places /\ k = SetAt(c)
      <4>1. Placeholder # x
        BY <3>2, WiresDiffer
      <4>2. SetAt(c) # 2
        BY DEF SetAt
      <4> QED  BY <1>11, <2>3, <3>1, <3>2, <4>1, <4>2
    <3>3. CASE c = 0 /\ k = 2
      <4>1. x = Placeholder
        BY <2>0, <3>3 DEF x, WireAt
      <4> QED  BY <1>11, <2>3, <3>1, <3>3, <4>1
    <3>4. CASE ~IsSet(c, k)
      BY <1>7, <1>11, <2>3, <3>1, <3>4 DEF IsSet
    <3> QED  BY <2>6, <3>2, <3>3, <3>4
  <2> QED  BY <1>7, <1>11, <1>17, <2>3, <2>4, <2>5 DEF WireInv
<1>22. ProofInv'
  <2>1. Subcircuit' = Subcircuit
    BY <1>1, Kept
  <2> QED  BY <1>1, <1>2, <2>1 DEF ProofInv
<1>23. (ParamsInv /\ CircInv)'
  BY <1>1, <1>2, Kept
<1> QED  BY <1>18, <1>19, <1>20, <1>21, <1>22, <1>23 DEF Inv

\* The key that is found for a subcircuit.
LEMMA KeyIs ==
  ASSUME Inv, phase # "keys", NEW i \in Subcircuit
  PROVE  HasPk(i) /\ Pk(i) = Shape(i)
<1> DEFINE r == RepresentativeSubcircuit(i)
           Found(k) == k \in DOMAIN pks /\ pks[k].idx = r
<1>1. ParamsInv /\ KeysInv
  BY DEF Inv
<1>2. /\ UniqueSubcircuits \in Seq(Subcircuit) /\ Shape(r) = Shape(i)
      /\ \E k \in 1 .. Len(UniqueSubcircuits) : UniqueSubcircuits[k] = r
  BY <1>1, UniqueIs
<1>3. DOMAIN pks = 1 .. Len(UniqueSubcircuits)
  <2>1. pks \in Seq(Keys) /\ Len(pks) = Len(UniqueSubcircuits)
    BY <1>1, <1>2 DEF KeysInv
  <2> QED  BY <2>1
<1>4. \A k \in DOMAIN pks : pks[k].idx = UniqueSubcircuits[k] /\ pks[k].shape = Shape(UniqueSubcircuits[k])
  <2>1. DOMAIN pks = 1 .. Len(pks)
    BY <1>1 DEF KeysInv
  <2>2. \A k \in DOMAIN pks : pks[k] = Key(UniqueSubcircuits[k])
    BY <1>1, <2>1 DEF KeysInv
  <2> QED  BY <2>2 DEF Key
<1>5. \E k : Found(k)
  BY <1>2, <1>3, <1>4
<1> HIDE DEF r
<1>6. HasPk(i)
  BY <1>5 DEF HasPk, r
<1> DEFINE m == CHOOSE k \in DOMAIN pks : pks[k].idx = r
<1>7. Found(m)
  BY <1>5
<1> HIDE DEF m
<1>8. pks[m].shape = Shape(i)
  BY <1>2, <1>4, <1>7
<1> QED  BY <1>6, <1>8 DEF Pk, m, r

\* The witnesses that a worker has of its own subcircuit.
LEMMA OwnIs ==
  ASSUME ParamsInv, CircInv, NEW i \in Subcircuit,
         NEW own, own = SetSerializedWitnesses(EmptyCircuit, i, GetSerializedWitnesses(circ, i))
  PROVE  /\ i < NumLeaves => own.leaves[i + 1] = circ.leaves[i + 1]
         /\ IsRoot(i) => own.root = circ.root
<1>1. NumLeaves \in Nat /\ NumLeaves >= 2 /\ NumSubcircuits = 2 * NumLeaves /\ i \in Nat
  BY KindIs
<1>2. ASSUME i < NumLeaves
      PROVE  own.leaves[i + 1] = circ.leaves[i + 1]
  <2>1. IsLeaf(i) /\ ~IsRoot(i) /\ i \in Places
    BY <1>1, <1>2, KindIs
  <2>2. LeafIdx(SubcircuitIdxToNodeIdx(i)) = i + 1
    BY <1>2, <2>1, NodeIs DEF NodeOf
  <2> DEFINE z == [j \in 1 .. NumLeaves |-> 0]
             v == circ.leaves[i + 1]
  <2>3. own = [[leaves |-> z, root |-> Zero] EXCEPT !.leaves[i + 1] = v]
    BY <2>1, <2>2 DEF SetSerializedWitnesses, GetSerializedWitnesses, EmptyCircuit
  <2>4. i + 1 \in 1 .. NumLeaves
    BY <1>1, <1>2
  <2>5. own.leaves = [z EXCEPT ![i + 1] = v]
    <3> HIDE DEF z, v
    <3> QED  BY <2>3
  <2>6. own.leaves[i + 1] = v
    <3> HIDE DEF v
    <3> QED  BY <2>4, <2>5
  <2> QED  BY <2>6
<1>3. ASSUME IsRoot(i)
      PROVE  own.root = circ.root
  <2>1. ~IsLeaf(i)
    BY <1>1, <1>3, KindIs
  <2>2. own = [EmptyCircuit EXCEPT !.root = circ.root]
    BY <1>3, <2>1 DEF SetSerializedWitnesses, GetSerializedWitnesses
  <2> QED  BY <2>2 DEF EmptyCircuit
<1> QED  BY <1>2, <1>3

\* What a worker makes its constraints of.
IsProving(i, own, tr, l, r, ops) ==
  /\ own = SetSerializedWitnesses(EmptyCircuit, i, GetSerializedWitnesses(circ, i))
  /\ tr = subtraces[i + 1]
  /\ l = IF 1 \in DOMAIN tr THEN tr[1].val ELSE None
  /\ r = IF 2 \in DOMAIN tr THEN tr[2].val ELSE None
  /\ ops = Operations(own, i, l, r)

\* A subtrace is what the constraints of its subcircuit take.
LEMMA SubtraceFits ==
  ASSUME Inv, phase = "prove", NEW i \in Subcircuit, NEW own, NEW tr, NEW l, NEW r, NEW ops,
         IsProving(i, own, tr, l, r, ops)
  PROVE  /\ Len(ops) = Len(tr) /\ Len(tr) \in Nat
         /\ \A k \in DOMAIN ops : ops[k].op = "set" => ops[k].val = tr[k].val
         /\ IsRoot(i) => NodeHash(l, r) = own.root
         /\ \A k \in DOMAIN ops : ops[k].wire = tr[k].wire
<1>0. /\ own = SetSerializedWitnesses(EmptyCircuit, i, GetSerializedWitnesses(circ, i))
      /\ tr = subtraces[i + 1]
      /\ l = IF 1 \in DOMAIN tr THEN tr[1].val ELSE None
      /\ r = IF 2 \in DOMAIN tr THEN tr[2].val ELSE None
      /\ ops = Operations(own, i, l, r)
  BY DEF IsProving
<1>1. ParamsInv /\ CircInv /\ TraceInv
  BY DEF Inv
<1>2. /\ NumLeaves \in Nat /\ NumLeaves >= 2 /\ NumSubcircuits = 2 * NumLeaves /\ i \in Nat
      /\ i <= NumSubcircuits - 1
  BY <1>1, KindIs DEF Subcircuit
<1>3. IsSubtrace(tr, i) /\ Len(tr) = NumOps(i)
  <2>1. i + 1 \in 1 .. Len(subtraces) /\ (i + 1) - 1 = i
    BY <1>1, <1>2 DEF TraceInv
  <2>2. IsSubtrace(tr, i) /\ (i + 1 < Len(subtraces) => Len(tr) = NumOps(i))
    BY <1>0, <1>1, <2>1 DEF TraceInv
  <2>3. i + 1 = NumSubcircuits => Len(tr) = NumOps(i)
    <3> SUFFICES ASSUME i + 1 = NumSubcircuits PROVE Len(tr) = NumOps(i)
      OBVIOUS
    <3>1. i = NumSubcircuits - 1
      BY <1>2
    <3>2. Len(subtraces[NumSubcircuits]) = NumOps(NumSubcircuits - 1)
      BY <1>1 DEF TraceInv
    <3> QED  BY <1>0, <3>1, <3>2
  <2>4. i + 1 < Len(subtraces) \/ i + 1 = NumSubcircuits
    BY <1>1, <1>2 DEF TraceInv
  <2> QED  BY <2>2, <2>3, <2>4
<1>4. /\ Len(tr) \in Nat /\ DOMAIN tr = 1 .. NumOps(i)
      /\ \A k \in 1 .. NumOps(i) : tr[k].wire = WireAt(i, k) /\ tr[k].val = ValueOf(WireAt(i, k))
  <2>1. tr \in Seq(Entries) /\ \A k \in 1 .. Len(tr) : tr[k] = Entry(WireAt(i, k))
    BY <1>3 DEF IsSubtrace
  <2>2. Len(tr) \in Nat /\ DOMAIN tr = 1 .. NumOps(i)
    BY <1>3, <2>1
  <2>3. \A k \in 1 .. NumOps(i) : tr[k] = Entry(WireAt(i, k))
    BY <1>3, <2>1
  <2>4. \A w : Entry(w).wire = w /\ Entry(w).val = ValueOf(w)
    BY DEF Entry
  <2> QED  BY <2>2, <2>3, <2>4
<1>5. /\ Len(ops) = NumOps(i) /\ DOMAIN ops = 1 .. NumOps(i)
      /\ \A k \in 1 .. NumOps(i) :
           ops[k].op = (IF IsSet(i, k) THEN "set" ELSE "get") /\ ops[k].wire = WireAt(i, k)
  BY <1>0, <1>1, OperationsAre DEF IsOps
<1>6. NumOps(i) \in Nat /\ (i # NumSubcircuits - 1 => i \in Places)
  BY <1>1, OpsCount, KindIs
\* The values that a parent gets.
<1>7. ASSUME NumLeaves <= i, i < NumSubcircuits - 1
      PROVE  NodeHash(l, r) = SubtreeRoot(NodeOf(i))
  <2>1. ~(i < NumLeaves) /\ i # NumSubcircuits - 1 /\ i >= NumLeaves /\ i \in Places
    BY <1>2, <1>6, <1>7
  <2>2. NumOps(i) >= 3
    BY <1>1, <1>7, OpsCount
  <2>3. 1 \in 1 .. NumOps(i) /\ 2 \in 1 .. NumOps(i)
    BY <1>6, <2>2
  <2>4. /\ WireAt(i, 1) = NodeWire(NodeOf(LeftSub(i)))
        /\ WireAt(i, 2) = NodeWire(NodeOf(RightSub(i)))
    BY <2>1 DEF WireAt
  <2>5. l = SubtreeRoot(NodeOf(LeftSub(i))) /\ r = SubtreeRoot(NodeOf(RightSub(i)))
    BY <1>0, <1>4, <2>3, <2>4, ValuesAre
  <2> QED  BY <1>1, <2>1, <2>5, SubtreeIs
<1>8. ASSUME NEW k \in 1 .. NumOps(i), IsSet(i, k)
      PROVE  ops[k].val = ValueOf(WireAt(i, k))
  <2>1. CASE i < NumLeaves /\ k = 1
    <3>1. WireAt(i, k) = NodeWire(NodeOf(i)) /\ i \in Places
      BY <1>2, <1>6, <2>1 DEF WireAt
    <3>2. ops[k].val = LeafHash(circ.leaves[i + 1])
      BY <1>0, <1>1, <2>1, OperationsAre, OwnIs
    <3> QED  BY <1>1, <2>1, <3>1, <3>2, SubtreeIs, ValuesAre
  <2>2. CASE i = 0 /\ k = 2
    <3>1. WireAt(i, k) = Placeholder
      BY <1>2, <2>2 DEF WireAt
    <3> QED  BY <1>0, <1>1, <2>2, <3>1, OperationsAre, ValuesAre
  <2>3. CASE NumLeaves <= i /\ i < NumSubcircuits - 1 /\ k = 3
    <3>1. WireAt(i, k) = NodeWire(NodeOf(i))
      BY <1>2, <2>3 DEF WireAt
    <3> QED  BY <1>0, <1>1, <1>7, <2>3, <3>1, OperationsAre, ValuesAre
  <2>4. (i # NumSubcircuits - 1 /\ k = IF i < NumLeaves THEN 1 ELSE 3) \/ (i = 0 /\ k = 2)
    BY <1>8 DEF IsSet, SetAt
  <2> QED  BY <1>2, <2>1, <2>2, <2>3, <2>4
<1>9. ASSUME IsRoot(i) PROVE NodeHash(l, r) = own.root
  <2>1. i = NumSubcircuits - 2
    BY <1>1, <1>9, KindIs
  <2>2. NumLeaves <= i /\ i < NumSubcircuits - 1 /\ i \in Places
    BY <1>2, <1>6, <2>1
  <2>3. SubtreeRoot(NodeOf(i)) = circ.root
    BY <1>1, <2>1, <2>2, SubtreeIs
  <2>4. own.root = circ.root
    BY <1>0, <1>1, <1>9, OwnIs
  <2> QED  BY <1>7, <2>2, <2>3, <2>4
<1>10. ASSUME NEW k \in DOMAIN ops, ops[k].op = "set"
       PROVE  ops[k].val = tr[k].val
  <2>1. k \in 1 .. NumOps(i) /\ IsSet(i, k)
    BY <1>5, <1>10
  <2> QED  BY <1>4, <1>8, <2>1
<1> QED  BY <1>3, <1>4, <1>5, <1>9, <1>10

\* A proof is made with a key that fits and of constraints that hold.
LEMMA ProveInv == ASSUME Inv, NEW i \in Subcircuit, Prove(i) PROVE Inv'
<1> DEFINE tr  == subtraces[i + 1]
           own == SetSerializedWitnesses(EmptyCircuit, i, GetSerializedWitnesses(circ, i))
           l   == IF 1 \in DOMAIN tr THEN tr[1].val ELSE None
           r   == IF 2 \in DOMAIN tr THEN tr[2].val ELSE None
           ops == Operations(own, i, l, r)
           fits == Pk(i) = Shape(i)
           sat  == /\ Len(ops) = Len(tr)
                   /\ \A k \in DOMAIN ops : ops[k].op = "set" => ops[k].val = tr[k].val
                   /\ IsRoot(i) => NodeHash(l, r) = own.root
           met  == \A k \in DOMAIN ops : ops[k].wire = tr[k].wire
<1>1. /\ params' = params /\ circ' = circ /\ pks' = pks /\ wires' = wires /\ subtraces' = subtraces
      /\ phase = "prove"
      /\ IF ~HasPk(i) \/ Len(ops) > Len(tr)
         THEN phase' = "panicked" /\ proofs' = proofs
         ELSE /\ proofs' = [proofs EXCEPT ![i] = [keyFits |-> fits, satisfied |-> sat, met |-> met]]
              /\ phase' = phase
  BY DEF Prove
<1>2. ParamsInv /\ CircInv /\ KeysInv /\ TraceInv /\ WireInv /\ ProofInv
  BY DEF Inv
<1>3. HasPk(i) /\ fits
  BY <1>1, KeyIs
<1>4. Len(ops) = Len(tr) /\ Len(tr) \in Nat /\ sat /\ met
  <2>1. IsProving(i, own, tr, l, r, ops)
    BY DEF IsProving
  <2> HIDE DEF own, tr, l, r, ops
  <2>2. /\ Len(ops) = Len(tr) /\ Len(tr) \in Nat
        /\ \A k \in DOMAIN ops : ops[k].op = "set" => ops[k].val = tr[k].val
        /\ IsRoot(i) => NodeHash(l, r) = own.root
        /\ \A k \in DOMAIN ops : ops[k].wire = tr[k].wire
    BY <1>1, <2>1, SubtraceFits
  <2> QED  BY <2>2
<1>5. ~(Len(ops) > Len(tr))
  <2> DEFINE a == Len(ops)
             b == Len(tr)
  <2>1. a = b /\ b \in Nat
    BY <1>4
  <2> HIDE DEF a, b
  <2>2. ~(a > b)
    BY <2>1
  <2> QED  BY <2>2 DEF a, b
<1>6. fits = TRUE /\ sat = TRUE /\ met = TRUE
  BY <1>3, <1>4
<1>7. phase' = "prove" /\ proofs' = [proofs EXCEPT ![i] = [keyFits |-> fits, satisfied |-> sat, met |-> met]]
  BY <1>1, <1>3, <1>5
<1> HIDE DEF fits, sat, met
<1>8. proofs' = [proofs EXCEPT ![i] = Proved]
  BY <1>6, <1>7 DEF Proved
<1>9. (ParamsInv /\ CircInv)'
  BY <1>1, <1>2, Kept
<1>10. KeysInv'
  <2>1. Keys' = Keys /\ UniqueSubcircuits' = UniqueSubcircuits /\ \A k : Key(k)' = Key(k)
    BY <1>1, Kept
  <2> QED  BY <1>1, <1>2, <1>7, <2>1 DEF KeysInv
<1>11. TraceInv'
  <2>1. /\ NumSubcircuits' = NumSubcircuits /\ Entries' = Entries
        /\ \A j : NumOps(j)' = NumOps(j)
        /\ \A s, j : IsSubtrace(s, j)' <=> IsSubtrace(s, j)
    BY <1>1, Kept
  <2> QED  BY <1>1, <1>2, <1>7, <2>1 DEF TraceInv
<1>12. WireInv'
  <2>1. /\ Places' = Places /\ Wire' = Wire /\ \A j : NodeOf(j)' = NodeOf(j) /\ SetAt(j)' = SetAt(j)
        /\ \A w : ValueOf(w)' = ValueOf(w)
    BY <1>1, Kept
  <2>2. \A j, k : Done(j, k)' <=> Done(j, k)
    BY <1>1 DEF Done
  <2> QED  BY <1>1, <1>2, <2>1, <2>2 DEF WireInv
<1>13. ProofInv'
  <2>1. Subcircuit' = Subcircuit
    BY <1>1, Kept
  <2>2. proofs \in [Subcircuit -> {None, Proved}]
    BY <1>2 DEF ProofInv
  <2> DEFINE p == Proved
  <2> HIDE DEF p
  <2>3. proofs' \in [Subcircuit -> {None, p}]
    BY <1>8, <2>2 DEF p
  <2> QED  BY <2>1, <2>3 DEF ProofInv, p, Proved
<1> QED  BY <1>7, <1>9, <1>10, <1>11, <1>12, <1>13 DEF Inv

\* Every reachable state satisfies the invariant.
THEOREM TreeInvariant == Spec => []Inv
<1>1. Init => Inv
  BY InitInv
<1>2. Inv /\ [Next]_vars => Inv'
  <2> SUFFICES ASSUME Inv, [Next]_vars PROVE Inv'
    OBVIOUS
  <2>1. CASE GenPk
    BY <2>1, GenPkInv
  <2>2. CASE StartSubtrace
    BY <2>2, StartSubtraceInv
  <2>3. CASE Access
    BY <2>3, AccessInv
  <2>4. CASE \E i \in Subcircuit : Prove(i)
    BY <2>4, ProveInv
  <2>5. CASE UNCHANGED vars
    <3>1. /\ params' = params /\ circ' = circ /\ pks' = pks /\ wires' = wires
          /\ subtraces' = subtraces /\ proofs' = proofs /\ phase' = phase
      BY <2>5 DEF vars
    <3>2. ParamsInv /\ CircInv /\ KeysInv /\ TraceInv /\ WireInv /\ ProofInv
      BY DEF Inv
    <3>3. KeysInv'
      <4>1. Keys' = Keys /\ UniqueSubcircuits' = UniqueSubcircuits /\ \A k : Key(k)' = Key(k)
        BY <3>1, Kept
      <4> QED  BY <3>1, <3>2, <4>1 DEF KeysInv
    <3>4. TraceInv'
      <4>1. /\ NumSubcircuits' = NumSubcircuits /\ Entries' = Entries
            /\ \A j : NumOps(j)' = NumOps(j)
            /\ \A s, j : IsSubtrace(s, j)' <=> IsSubtrace(s, j)
        BY <3>1, Kept
      <4> QED  BY <3>1, <3>2, <4>1 DEF TraceInv
    <3>5. WireInv'
      <4>1. /\ Places' = Places /\ Wire' = Wire
            /\ \A j : NodeOf(j)' = NodeOf(j) /\ SetAt(j)' = SetAt(j)
            /\ \A w : ValueOf(w)' = ValueOf(w)
        BY <3>1, Kept
      <4>2. \A j, k : Done(j, k)' <=> Done(j, k)
        BY <3>1 DEF Done
      <4> QED  BY <3>1, <3>2, <4>1, <4>2 DEF WireInv
    <3>6. ProofInv'
      <4>1. Subcircuit' = Subcircuit
        BY <3>1, Kept
      <4> QED  BY <3>1, <3>2, <4>1 DEF ProofInv
    <3>7. (ParamsInv /\ CircInv)'
      BY <3>1, <3>2, Kept
    <3> QED  BY <3>1, <3>3, <3>4, <3>5, <3>6, <3>7 DEF Inv
  <2>6. CASE Terminated
    BY <2>5, <2>6 DEF Terminated
  <2> QED  BY <2>1, <2>2, <2>3, <2>4, <2>5, <2>6 DEF Next
<1> QED  BY <1>1, <1>2, PTL DEF Spec

-----------------------------------------------------------------------------
(* What the runs check.                                                     *)

\* Whatever the numbers of leaves, of portals and of workers, the coordinator's
\* logging of the trace panics nowhere, and every proof that a worker makes is of
\* satisfied constraints over the entries it names, with a key made for them.
THEOREM ProofsAreValid == Spec => []ProofsValid
<1>1. Inv => ProofsValid
  <2> SUFFICES ASSUME Inv PROVE ProofsValid
    OBVIOUS
  <2>1. phase # "panicked"
    BY DEF Inv
  <2>2. ASSUME NEW i \in Subcircuit, proofs[i] # None
        PROVE  proofs[i].satisfied /\ proofs[i].met /\ proofs[i].keyFits
    <3>1. proofs[i] = Proved
      BY <2>2 DEF Inv, ProofInv
    <3> QED  BY <3>1 DEF Proved
  <2> QED  BY <2>1, <2>2 DEF ProofsValid
<1> QED  BY <1>1, TreeInvariant, PTL

\* The wire of a node holds the Merkle root of the leaves below the node.
THEOREM WiresAreRoots == Spec => []WiresHoldSubtreeRoots
<1>1. Inv => WiresHoldSubtreeRoots
  <2> SUFFICES ASSUME Inv, NEW n \in Node, NodeWire(n) \in DOMAIN wires
               PROVE  wires[NodeWire(n)] = SubtreeRoot(n)
    BY DEF WiresHoldSubtreeRoots, SubtreeRoot
  <2>1. \A w \in DOMAIN wires : wires[w] = ValueOf(w)
    BY DEF Inv, WireInv
  <2> QED  BY <2>1, ValuesAre
<1> QED  BY <1>1, TreeInvariant, PTL

\* Where in a complete trace a node's wire is.
LEMMA UsesAre ==
  ASSUME Inv, phase = "prove", NEW j \in Places
  PROVE  Uses(NodeWire(NodeOf(j)))
           = {<<j + 1, SetAt(j)>>}
               \cup (IF j = NumSubcircuits - 2 THEN {}
                     ELSE {<<NumLeaves + (j \div 2) + 1, (j % 2) + 1>>})
<1> DEFINE N == NumSubcircuits
           L == NumLeaves
           w == NodeWire(NodeOf(j))
           h == j \div 2
           b == j % 2
<1>1. ParamsInv /\ TraceInv
  BY DEF Inv
<1>2. L \in Nat /\ L >= 2 /\ N = 2 * L /\ j \in 0 .. N - 2
  BY <1>1, SizeIs DEF Places
<1>3. h \in Nat /\ b \in {0, 1} /\ j = 2 * h + b
  BY <1>2
<1>4. \A i \in 1 .. N : \A k : k \in DOMAIN subtraces[i] /\ subtraces[i][k].wire = w
        <=> k \in 1 .. NumOps(i - 1) /\ WireAt(i - 1, k) = w
  <2> SUFFICES ASSUME NEW i \in 1 .. N, NEW k
               PROVE  k \in DOMAIN subtraces[i] /\ subtraces[i][k].wire = w
                        <=> k \in 1 .. NumOps(i - 1) /\ WireAt(i - 1, k) = w
    OBVIOUS
  <2>1. Len(subtraces) = N
    BY <1>1 DEF TraceInv
  <2>2. IsSubtrace(subtraces[i], i - 1)
    BY <1>1, <2>1 DEF TraceInv
  <2>3. Len(subtraces[i]) = NumOps(i - 1)
    <3>1. CASE i = N
      BY <1>1, <3>1 DEF TraceInv
    <3>2. CASE i # N
      <4>1. i < Len(subtraces)
        BY <1>2, <2>1, <3>2
      <4> QED  BY <1>1, <2>1, <4>1 DEF TraceInv
    <3> QED  BY <3>1, <3>2
  <2>4. /\ DOMAIN subtraces[i] = 1 .. NumOps(i - 1)
        /\ \A m \in 1 .. NumOps(i - 1) : subtraces[i][m] = Entry(WireAt(i - 1, m))
    BY <2>2, <2>3 DEF IsSubtrace
  <2>5. \A v : Entry(v).wire = v
    BY DEF Entry
  <2> QED  BY <2>4, <2>5
<1>5. DOMAIN subtraces = 1 .. N
  BY <1>1 DEF TraceInv
<1> HIDE DEF h, b
<1>6. ASSUME NEW i \in 0 .. N - 1, NEW k \in 1 .. NumOps(i)
      PROVE  WireAt(i, k) = w <=> \/ i = j /\ k = SetAt(j)
                                  \/ j # N - 2 /\ i = L + h /\ k = b + 1
  <2>1. Placeholder # w
    BY WiresDiffer
  <2>2. \A m \in Places : NodeWire(NodeOf(m)) = w <=> m = j
    BY <1>1, NodeInjective, WiresDiffer
  <2>3. i \in Nat /\ i <= N - 1 /\ NumOps(i) \in Nat /\ k \in Nat /\ k >= 1
    BY <1>1, <1>2, OpsCount DEF Subcircuit
  <2>4. CASE i < L
    <3>1. WireAt(i, k) = (IF k = 1 THEN NodeWire(NodeOf(i)) ELSE Placeholder) /\ i \in Places
      BY <1>2, <2>3, <2>4 DEF WireAt, Places
    <3>2. WireAt(i, k) = w <=> k = 1 /\ i = j
      BY <2>1, <2>2, <3>1
    <3>3. i # L + h /\ (i = j => SetAt(j) = 1)
      BY <1>2, <1>3, <2>3, <2>4 DEF SetAt
    <3> QED  BY <3>2, <3>3
  <2>5. CASE ~(i < L) /\ i = N - 1
    <3>1. WireAt(i, k) = Placeholder
      BY <2>5 DEF WireAt
    <3>2. i # j /\ (j # N - 2 => i # L + h)
      BY <1>2, <1>3, <2>3, <2>5
    <3> QED  BY <2>1, <3>1, <3>2
  <2>6. CASE ~(i < L) /\ i # N - 1
    <3>1. i \in Places /\ i >= L
      BY <1>2, <2>3, <2>6 DEF Places
    <3>2. LeftSub(i) \in Places /\ RightSub(i) \in Places
      BY <1>1, <3>1, NodeIs
    <3>3. (LeftSub(i) = j <=> i = L + h /\ b = 0) /\ (RightSub(i) = j <=> i = L + h /\ b = 1)
      BY <1>2, <1>3, <2>3, <2>6 DEF LeftSub, RightSub
    <3>4. i = L + h => j # N - 2
      BY <1>2, <1>3, <2>3, <2>6
    <3>5. i = j => SetAt(j) = 3
      BY <2>6 DEF SetAt
    <3>6. i = j /\ i = L + h => FALSE
      BY <1>2, <1>3, <2>3, <2>6
    <3>7. CASE k = 1
      <4>1. WireAt(i, k) = NodeWire(NodeOf(LeftSub(i)))
        BY <2>6, <3>7 DEF WireAt
      <4>2. WireAt(i, k) = w <=> i = L + h /\ b = 0
        BY <2>2, <3>2, <3>3, <4>1
      <4>3. k = b + 1 <=> b = 0
        BY <1>3, <3>7
      <4>4. ~(i = j /\ k = SetAt(j))
        BY <3>5, <3>7
      <4> QED  BY <3>4, <4>2, <4>3, <4>4
    <3>8. CASE k = 2
      <4>1. WireAt(i, k) = NodeWire(NodeOf(RightSub(i)))
        BY <2>6, <3>8 DEF WireAt
      <4>2. WireAt(i, k) = w <=> i = L + h /\ b = 1
        BY <2>2, <3>2, <3>3, <4>1
      <4>3. k = b + 1 <=> b = 1
        BY <1>3, <3>8
      <4>4. ~(i = j /\ k = SetAt(j))
        BY <3>5, <3>8
      <4> QED  BY <3>4, <4>2, <4>3, <4>4
    <3>9. CASE k = 3
      <4>1. WireAt(i, k) = NodeWire(NodeOf(i))
        BY <2>6, <3>9 DEF WireAt
      <4>2. WireAt(i, k) = w <=> i = j
        BY <2>2, <3>1, <4>1
      <4>3. k # b + 1
        BY <1>3, <3>9
      <4> QED  BY <3>5, <3>9, <4>2, <4>3
    <3>10. CASE k > 3
      <4>1. WireAt(i, k) = Placeholder
        BY <2>6, <3>10 DEF WireAt
      <4>2. k # b + 1 /\ (i = j => k # SetAt(j))
        BY <1>3, <2>3, <3>5, <3>10
      <4> QED  BY <2>1, <4>1, <4>2
    <3> QED  BY <2>3, <3>7, <3>8, <3>9, <3>10
  <2> QED  BY <2>4, <2>5, <2>6
<1>7. /\ SetAt(j) \in 1 .. NumOps(j)
      /\ j # N - 2 => L + h \in 0 .. N - 1 /\ b + 1 \in 1 .. NumOps(L + h)
  <2>1. j \in Subcircuit /\ j # N - 1
    BY <1>2 DEF Subcircuit
  <2>2. SetAt(j) \in 1 .. NumOps(j)
    BY <1>1, <2>1, OpsCount
  <2>3. ASSUME j # N - 2
        PROVE  L + h \in 0 .. N - 1 /\ b + 1 \in 1 .. NumOps(L + h)
    <3>1. L + h \in 0 .. N - 1 /\ L <= L + h /\ L + h < N - 1
      BY <1>2, <1>3, <2>3
    <3>2. NumOps(L + h) >= 3 /\ NumOps(L + h) \in Nat
      BY <1>1, <3>1, OpsCount DEF Subcircuit
    <3> QED  BY <1>3, <3>1, <3>2
  <2> QED  BY <2>2, <2>3
<1> DEFINE V == {<<j + 1, SetAt(j)>>} \cup (IF j = N - 2 THEN {} ELSE {<<L + h + 1, b + 1>>})
<1>8. ASSUME NEW u \in Uses(w) PROVE u \in V
  <2>1. PICK i \in 1 .. N : u \in {<<i, k>> : k \in {m \in DOMAIN subtraces[i] : subtraces[i][m].wire = w}}
    BY <1>5 DEF Uses
  <2>2. PICK k \in DOMAIN subtraces[i] : subtraces[i][k].wire = w /\ u = <<i, k>>
    BY <2>1
  <2>3. k \in 1 .. NumOps(i - 1) /\ WireAt(i - 1, k) = w
    BY <1>4, <2>2
  <2>4. i - 1 \in 0 .. N - 1 /\ i = (i - 1) + 1
    BY <1>2
  <2>5. \/ i - 1 = j /\ k = SetAt(j)
        \/ j # N - 2 /\ i - 1 = L + h /\ k = b + 1
    BY <1>6, <2>3, <2>4
  <2> QED  BY <2>2, <2>4, <2>5
<1>9. ASSUME NEW u \in V PROVE u \in Uses(w)
  <2>0. PICK i \in 0 .. N - 1 : \E k \in 1 .. NumOps(i) : u = <<i + 1, k>> /\ WireAt(i, k) = w
    <3>1. CASE u = <<j + 1, SetAt(j)>>
      <4>1. j \in 0 .. N - 1
        BY <1>2
      <4> QED  BY <1>6, <1>7, <3>1, <4>1
    <3>2. CASE j # N - 2 /\ u = <<L + h + 1, b + 1>>
      BY <1>6, <1>7, <3>2
    <3> QED  BY <3>1, <3>2
  <2>1. PICK k \in 1 .. NumOps(i) : u = <<i + 1, k>> /\ WireAt(i, k) = w
    BY <2>0
  <2>2. i + 1 \in 1 .. N /\ (i + 1) - 1 = i
    BY <1>2
  <2>3. k \in DOMAIN subtraces[i + 1] /\ subtraces[i + 1][k].wire = w
    BY <1>4, <2>1, <2>2
  <2> QED  BY <1>5, <2>1, <2>2, <2>3 DEF Uses
<1> QED  BY <1>8, <1>9 DEF h, b

\* A hash is set once and, but for the root, got once, in another subcircuit.
THEOREM HashesAreUsedOnce == Spec => []HashesUsedOnce
<1>1. Inv => HashesUsedOnce
  <2> SUFFICES ASSUME Inv, phase = "prove", NEW n \in Node
               PROVE  /\ Cardinality(Uses(NodeWire(n))) = IF n = RootIdx(NumLeaves) THEN 1 ELSE 2
                      /\ \A r, s \in Uses(NodeWire(n)) : r # s => r[1] # s[1]
    BY DEF HashesUsedOnce
  <2>1. ParamsInv
    BY DEF Inv
  <2>2. PICK j \in Places : NodeOf(j) = n
    BY <2>1, NodeSurjective
  <2>3. n = RootIdx(NumLeaves) <=> j = NumSubcircuits - 2
    BY <2>1, <2>2, NodeIs
  <2> DEFINE a == j + 1
             c == NumLeaves + (j \div 2) + 1
             p == SetAt(j)
             q == (j % 2) + 1
  <2>4. Uses(NodeWire(n)) = {<<a, p>>} \cup (IF j = NumSubcircuits - 2 THEN {} ELSE {<<c, q>>})
    BY <2>2, UsesAre
  <2>5. j # NumSubcircuits - 2 => a # c
    BY <2>1, SizeIs DEF Places
  <2> HIDE DEF a, c, p, q
  <2>6. CASE j = NumSubcircuits - 2
    <3>1. Uses(NodeWire(n)) = {<<a, p>>}
      BY <2>4, <2>6
    <3>2. Cardinality({<<a, p>>}) = 1
      BY FS_Singleton
    <3> QED  BY <2>3, <2>6, <3>1, <3>2
  <2>7. CASE j # NumSubcircuits - 2
    <3> DEFINE x == <<a, p>>
               y == <<c, q>>
    <3>1. Uses(NodeWire(n)) = {x} \cup {y} /\ x # y /\ x[1] # y[1]
      BY <2>4, <2>5, <2>7
    <3> HIDE DEF x, y
    <3>2. IsFiniteSet({x}) /\ Cardinality({x}) = 1 /\ y \notin {x}
      BY <3>1, FS_Singleton
    <3> DEFINE T == {x}
    <3> HIDE DEF T
    <3>3. Cardinality(T \cup {y}) = Cardinality(T) + 1
      BY <3>2, FS_AddElement DEF T
    <3>4. Cardinality(T \cup {y}) = 2
      BY <3>2, <3>3 DEF T
    <3> QED  BY <2>3, <2>7, <3>1, <3>4 DEF T
  <2> QED  BY <2>6, <2>7
<1> QED  BY <1>1, TreeInvariant, PTL
=============================================================================
