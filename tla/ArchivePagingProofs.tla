------------------------ MODULE ArchivePagingProofs ------------------------
(***************************************************************************)
(* The archive list, for any table, any requests and any page sizes: rows  *)
(* come in their order, none twice, and following next_cursor is a walk of *)
(* PagedWalk, which loses no row.                                          *)
(***************************************************************************)
EXTENDS ArchivePaging, FiniteSetTheorems, SequenceTheorems, WellFoundedInduction, TLAPS

-----------------------------------------------------------------------------
(* The order.                                                              *)

\* ORDER BY archived_at DESC, archive_id DESC is a strict and total order of
\* the rows: no two rows of one millisecond can change places between pages.
THEOREM ListOrderIsStrict == Walk!StrictOrder
<1>1. \A r \in Rows : r.at \in Int /\ r.id \in Int
  BY RowsAssumption
<1> QED BY <1>1, RowsAssumption DEF Walk!StrictOrder, Precedes

LEMMA OrderFacts ==
  /\ \A r \in Rows : ~Precedes(r, r)
  /\ \A r, s \in Rows : r = s \/ Precedes(r, s) \/ Precedes(s, r)
  /\ \A r, s, t \in Rows : Precedes(r, s) /\ Precedes(s, t) => Precedes(r, t)
BY ListOrderIsStrict DEF Walk!StrictOrder

Place(r) == [at |-> r.at, id |-> r.id]

\* The condition the cursor adds to the statement holds of exactly those rows
\* that come after the row the cursor was made from.
THEOREM CursorConditionIsOrder ==
  ASSUME NEW last \in Rows, NEW r \in Rows
  PROVE  Behind(r, Place(last)) <=> Precedes(last, r)
BY RowsAssumption DEF Behind, Precedes, Place

\* ORDER BY gives every row selected its place, the first first.
LEMMA InOrderFacts ==
  ASSUME NEW S \in SUBSET Rows
  PROVE  /\ Cardinality(S) \in Nat
         /\ InOrder(S) \in [1..Cardinality(S) -> S]
         /\ \A r \in S : \E k \in 1..Cardinality(S) : InOrder(S)[k] = r
         /\ \A j, k \in 1..Cardinality(S) : j < k => Precedes(InOrder(S)[j], InOrder(S)[k])
<1> DEFINE Ahead(r) == {s \in S : Precedes(s, r)}
           n == Cardinality(S)
           f == [r \in S |-> Cardinality(Ahead(r)) + 1]
<1>1. IsFiniteSet(S) /\ n \in Nat
  BY RowsAssumption, FS_Subset, FS_CardinalityType
<1>2. \A r \in S : /\ IsFiniteSet(Ahead(r)) /\ Cardinality(Ahead(r)) \in Nat
                   /\ Cardinality(Ahead(r)) < n
  <2> SUFFICES ASSUME NEW r \in S
               PROVE  /\ IsFiniteSet(Ahead(r)) /\ Cardinality(Ahead(r)) \in Nat
                      /\ Cardinality(Ahead(r)) < n
    OBVIOUS
  <2>1. Ahead(r) \subseteq S /\ r \notin Ahead(r)
    BY OrderFacts
  <2> HIDE DEF Ahead
  <2> QED BY <1>1, <2>1, FS_Subset, FS_CardinalityType
<1>3. \A r, s \in S : Precedes(r, s) => Cardinality(Ahead(r)) < Cardinality(Ahead(s))
  <2> SUFFICES ASSUME NEW r \in S, NEW s \in S, Precedes(r, s)
               PROVE  Cardinality(Ahead(r)) < Cardinality(Ahead(s))
    OBVIOUS
  <2>1. Ahead(r) \subseteq Ahead(s) /\ r \in Ahead(s) /\ r \notin Ahead(r)
    BY OrderFacts
  <2> HIDE DEF Ahead
  <2> QED BY <1>2, <2>1, FS_Subset
<1> HIDE DEF Ahead, n
<1>4. \A r, s \in S : r # s => Cardinality(Ahead(r)) # Cardinality(Ahead(s))
  <2> SUFFICES ASSUME NEW r \in S, NEW s \in S, r # s
               PROVE  Cardinality(Ahead(r)) # Cardinality(Ahead(s))
    OBVIOUS
  <2>1. Precedes(r, s) \/ Precedes(s, r)
    BY OrderFacts
  <2> QED BY <1>2, <1>3, <2>1
<1>5. f \in Injection(S, 1..n)
  <2>1. f \in [S -> 1..n]
    BY <1>1, <1>2
  <2>2. ASSUME NEW r \in S, NEW s \in S, r # s PROVE f[r] # f[s]
    BY <1>2, <1>4, <2>2
  <2> QED BY <2>1, <2>2 DEF Injection, IsInjective
<1>6. f \in Surjection(S, 1..n)
  <2>1. IsFiniteSet(1..n) /\ Cardinality(1..n) = n
    BY <1>1, FS_Interval
  <2> HIDE DEF f
  <2> QED BY <1>5, <2>1, FS_Injection DEF n
<1>7. \A k \in 1..n : \E r \in S : Cardinality(Ahead(r)) = k - 1
  <2> SUFFICES ASSUME NEW k \in 1..n PROVE \E r \in S : Cardinality(Ahead(r)) = k - 1
    OBVIOUS
  <2>1. PICK r \in S : f[r] = k
    BY <1>6 DEF Surjection
  <2> QED BY <1>1, <1>2, <2>1
<1>8. \A k \in 1..n : InOrder(S)[k] \in S /\ Cardinality(Ahead(InOrder(S)[k])) = k - 1
  <2> SUFFICES ASSUME NEW k \in 1..n
               PROVE  InOrder(S)[k] \in S /\ Cardinality(Ahead(InOrder(S)[k])) = k - 1
    OBVIOUS
  <2>1. InOrder(S)[k] = CHOOSE r \in S : Cardinality(Ahead(r)) = k - 1
    BY DEF InOrder, Ahead, n
  <2> QED BY <1>7, <2>1
<1>9. InOrder(S) \in [1..n -> S]
  <2>1. InOrder(S) = [k \in 1..n |-> InOrder(S)[k]]
    BY DEF InOrder, n
  <2> QED BY <1>8, <2>1
<1>10. ASSUME NEW r \in S PROVE \E k \in 1..n : InOrder(S)[k] = r
  <2>1. f[r] \in 1..n /\ Cardinality(Ahead(r)) = f[r] - 1
    BY <1>1, <1>2
  <2> HIDE DEF f
  <2>2. InOrder(S)[f[r]] = r
    BY <1>4, <1>8, <2>1
  <2> QED BY <2>1, <2>2
<1>11. ASSUME NEW j \in 1..n, NEW k \in 1..n, j < k
       PROVE  Precedes(InOrder(S)[j], InOrder(S)[k])
  <2>1. PICK r, s \in S : r = InOrder(S)[j] /\ s = InOrder(S)[k]
    BY <1>8
  <2>2. Cardinality(Ahead(r)) = j - 1 /\ Cardinality(Ahead(s)) = k - 1
    BY <1>8, <2>1
  <2>3. r # s /\ ~Precedes(s, r)
    BY <1>1, <1>3, <1>11, <2>2
  <2> QED BY <2>1, <2>3, OrderFacts
<1> QED BY <1>1, <1>9, <1>10, <1>11 DEF n

-----------------------------------------------------------------------------
(* Natural numbers: induction by the least counterexample, and division.   *)

LEMMA LeastNumber ==
  ASSUME NEW S \in SUBSET Nat, S # {}
  PROVE  \E n \in S : \A m \in S : n <= m
<1> DEFINE R == OpToRel(<, Nat)
<1>1. IsWellFoundedOn(R, Nat)
  BY NatLessThanWellFounded
<1> HIDE DEF R
<1>2. PICK n \in S : \A m \in S : ~(<<m, n>> \in R)
  BY <1>1, WFMin
<1> USE DEF R
<1>3. \A m \in S : ~(m < n)
  BY <1>2 DEF OpToRel
<1> QED BY <1>3

LEMMA MulMono ==
  ASSUME NEW p \in Nat, NEW a \in Int, NEW b \in Int, a <= b
  PROVE  p * a <= p * b
<1>1. p * (b - a) >= 0
  OBVIOUS
<1>2. p * (b - a) = p * b - p * a
  OBVIOUS
<1> QED BY <1>1, <1>2

LEMMA DivFacts ==
  ASSUME NEW n \in Nat, NEW p \in Nat \ {0}
  PROVE  /\ n \div p \in Nat /\ n % p \in 0..p - 1
         /\ n = p * (n \div p) + (n % p)
<1>1. n = p * (n \div p) + (n % p)
  OBVIOUS
<1>2. n % p \in 0..p - 1
  OBVIOUS
<1>3. n \div p \in Int
  OBVIOUS
<1>4. n \div p >= 0
  OBVIOUS
<1> QED BY <1>1, <1>2, <1>3, <1>4

LEMMA DivUnique ==
  ASSUME NEW n \in Nat, NEW p \in Nat \ {0}, NEW q \in Int, NEW r \in 0..p - 1, n = p * q + r
  PROVE  n \div p = q /\ n % p = r
<1> DEFINE u == n \div p
           t == n % p
<1>1. u \in Int /\ t \in 0..p - 1 /\ n = p * u + t
  BY DivFacts
<1> HIDE DEF u, t
<1>2. ~(u < q)
  <2> SUFFICES ASSUME u + 1 <= q PROVE FALSE
    BY <1>1
  <2>1. p * (u + 1) <= p * q
    BY <1>1, MulMono
  <2>2. p * (u + 1) = p * u + p
    BY <1>1
  <2> QED BY <1>1, <2>1, <2>2
<1>3. ~(q < u)
  <2> SUFFICES ASSUME q + 1 <= u PROVE FALSE
    BY <1>1
  <2>1. p * (q + 1) <= p * u
    BY <1>1, MulMono
  <2>2. p * (q + 1) = p * q + p
    OBVIOUS
  <2> QED BY <1>1, <2>1, <2>2
<1>4. u = q
  BY <1>1, <1>2, <1>3
<1>5. t = r
  BY <1>1, <1>4
<1> QED BY <1>4, <1>5 DEF u, t

LEMMA DivSmall ==
  ASSUME NEW p \in Nat \ {0}, NEW n \in 0..p - 1
  PROVE  n \div p = 0
<1> DEFINE u == n \div p
           t == n % p
<1>0. n \in Nat
  OBVIOUS
<1>1. u \in Nat /\ t \in 0..p - 1 /\ n = p * u + t
  BY <1>0, DivFacts
<1> HIDE DEF u, t
<1>2. ASSUME 1 <= u PROVE FALSE
  <2>1. p * 1 <= p * u
    BY <1>1, <1>2, MulMono
  <2> QED BY <1>1, <2>1
<1>3. u = 0
  BY <1>1, <1>2
<1> QED BY <1>3 DEF u

\* Dividing twice.
LEMMA DivDiv ==
  ASSUME NEW n \in Nat, NEW p \in Nat \ {0}, NEW b \in Nat \ {0}
  PROVE  n \div (p * b) = (n \div p) \div b
<1> DEFINE q == n \div p
           r == n % p
           u == q \div b
           t == q % b
<1>1. q \in Nat /\ r \in 0..p - 1 /\ n = p * q + r
  BY DivFacts
<1> HIDE DEF q, r
<1>2. u \in Nat /\ t \in 0..b - 1 /\ q = b * u + t
  BY <1>1, DivFacts
<1> HIDE DEF u, t
<1>3. p * q = (p * b) * u + p * t
  BY <1>1, <1>2
<1>4. p * t <= p * (b - 1)
  BY <1>2, MulMono
<1>5. p * (b - 1) = p * b - p
  OBVIOUS
<1>6. p * t >= 0
  BY <1>2
<1>7. p * t + r \in 0..p * b - 1
  BY <1>1, <1>2, <1>4, <1>5, <1>6
<1>8. n = (p * b) * u + (p * t + r)
  BY <1>1, <1>2, <1>3
<1>9. p * b \in Nat \ {0}
  BY <1>2, <1>5, <1>6, <1>4
<1>10. n \div (p * b) = u
  <2>1. PICK w, v : w = p * b /\ v = p * t + r
    OBVIOUS
  <2>2. w \in Nat \ {0} /\ v \in 0..w - 1 /\ n = w * u + v
    BY <1>7, <1>8, <1>9, <2>1
  <2>3. n \div w = u
    BY <1>2, <2>2, DivUnique
  <2> QED BY <2>1, <2>3
<1> QED BY <1>10 DEF q, u

-----------------------------------------------------------------------------
(* The cursor.                                                             *)

\* A loop that computes each value from the one before.
LEMMA LoopDefined ==
  ASSUME NEW N \in Nat, NEW a \in Int, NEW g \in [(1..N) \X Int -> Int]
  PROVE  \E f \in [0..N -> Int] : f[0] = a /\ \A k \in 1..N : f[k] = g[<<k, f[k - 1]>>]
<1> DEFINE Is(f, w) ==
             f \in [0..w -> Int] /\ f[0] = a /\ \A k \in 1..w : f[k] = g[<<k, f[k - 1]>>]
           Bad == {w \in 0..N : ~ \E f : Is(f, w)}
<1>1. Bad = {}
  <2> SUFFICES ASSUME Bad # {} PROVE FALSE
    OBVIOUS
  <2>1. PICK w \in Bad : \A v \in Bad : w <= v
    <3>1. Bad \subseteq Nat
      OBVIOUS
    <3> HIDE DEF Bad
    <3> QED BY <3>1, LeastNumber
  <2>2. w \in 0..N /\ ~ \E f : Is(f, w)
    BY <2>1
  <2>3. CASE w = 0
    <3>1. PICK f : f = [k \in 0..0 |-> a]
      OBVIOUS
    <3>2. Is(f, 0)
      BY <3>1
    <3> QED BY <2>2, <2>3, <3>2
  <2>4. CASE w # 0
    <3>0. PICK v \in 0..N : v = w - 1 /\ ~(w <= v)
      BY <2>2, <2>4
    <3>1. v \notin Bad
      <4> HIDE DEF Bad
      <4> QED BY <2>1, <3>0
    <3>2. PICK h : Is(h, v)
      BY <3>1
    <3>3. PICK f : f = [k \in 0..w |-> IF k = w THEN g[<<w, h[v]>>] ELSE h[k]]
      OBVIOUS
    <3>4. h[v] \in Int /\ <<w, h[v]>> \in (1..N) \X Int
      BY <2>2, <2>4, <3>0, <3>2
    <3>5. f \in [0..w -> Int] /\ \A k \in 0..v : f[k] = h[k]
      <4>1. g[<<w, h[v]>>] \in Int
        BY <3>4
      <4>2. \A k \in 0..w : k # w => k \in 0..v /\ h[k] \in Int
        BY <2>2, <3>0, <3>2
      <4>3. \A k \in 0..v : k \in 0..w /\ k # w
        BY <2>2, <3>0
      <4> QED BY <3>3, <4>1, <4>2, <4>3
    <3>6. ASSUME NEW k \in 1..w PROVE f[k] = g[<<k, f[k - 1]>>]
      <4>1. CASE k = w
        <5>1. f[w] = g[<<w, h[v]>>] /\ f[v] = h[v] /\ k - 1 = v
          BY <2>2, <3>0, <3>3, <3>5, <4>1
        <5> QED BY <4>1, <5>1
      <4>2. CASE k # w
        <5>1. k \in 1..v /\ k \in 0..v /\ k - 1 \in 0..v
          BY <2>2, <3>0, <4>2
        <5> QED BY <3>2, <3>5, <5>1
      <4> QED BY <4>1, <4>2
    <3>7. f[0] = a
      BY <2>2, <3>0, <3>2, <3>5
    <3> QED BY <2>2, <3>5, <3>6, <3>7
  <2> QED BY <2>3, <2>4
<1>2. N \notin Bad
  BY <1>1
<1> QED BY <1>2

LEMMA PowerFacts ==
  /\ \A k \in 0..Width : Power[k] \in Nat \ {0}
  /\ Power[0] = 1 /\ \A k \in 1..Width : Power[k] = Power[k - 1] * Base
<1>0. Width \in Nat /\ Base \in Nat \ {0}
  BY ConfigAssumption
<1>1. Power = [k \in 0..Width |-> IF k = 0 THEN 1 ELSE Power[k - 1] * Base]
  <2>1. PICK g : g = [p \in (1..Width) \X Int |-> p[2] * Base]
    OBVIOUS
  <2>2. g \in [(1..Width) \X Int -> Int]
    BY <1>0, <2>1
  <2>3. PICK f \in [0..Width -> Int] : f[0] = 1 /\ \A k \in 1..Width : f[k] = g[<<k, f[k - 1]>>]
    <3>1. 1 \in Int
      OBVIOUS
    <3> QED BY <1>0, <2>2, <3>1, LoopDefined, Zenon
  <2>4. ASSUME NEW k \in 1..Width PROVE f[k] = f[k - 1] * Base
    <3>1. k - 1 \in 0..Width
      BY <1>0
    <3>2. <<k, f[k - 1]>> \in (1..Width) \X Int
      BY <2>3, <3>1
    <3> QED BY <2>1, <2>3, <3>2
  <2>5. f = [k \in 0..Width |-> IF k = 0 THEN 1 ELSE f[k - 1] * Base]
    <3>1. \A k \in 0..Width : k = 0 \/ k \in 1..Width
      BY <1>0
    <3> QED BY <2>3, <2>4, <3>1
  <2> QED BY <2>5 DEF Power
<1>2. /\ Power[0] = 1 /\ \A k \in 1..Width : Power[k] = Power[k - 1] * Base
  <2>1. 0 \in 0..Width /\ \A k \in 1..Width : k \in 0..Width /\ k # 0
    BY <1>0
  <2> QED BY <1>1, <2>1
<1> DEFINE Bad == {k \in 0..Width : Power[k] \notin Nat \ {0}}
<1>3. Bad = {}
  <2> SUFFICES ASSUME Bad # {} PROVE FALSE
    OBVIOUS
  <2>1. PICK w \in Bad : \A v \in Bad : w <= v
    <3>1. Bad \subseteq Nat
      OBVIOUS
    <3> HIDE DEF Bad
    <3> QED BY <3>1, LeastNumber
  <2>2. w \in 0..Width /\ Power[w] \notin Nat \ {0}
    BY <2>1
  <2>3. w # 0
    BY <1>2, <2>2
  <2>4. PICK v \in 0..Width : v = w - 1 /\ ~(w <= v) /\ w \in 1..Width
    BY <1>0, <2>2, <2>3
  <2>5. v \notin Bad
    <3> HIDE DEF Bad
    <3> QED BY <2>1, <2>4
  <2>6. Power[v] \in Nat \ {0} /\ Power[w] = Power[v] * Base
    BY <1>2, <2>4, <2>5
  <2>7. Power[w] \in Nat \ {0}
    BY <1>0, <2>6
  <2> QED BY <2>2, <2>7
<1> QED BY <1>2, <1>3

LEMMA NumberFacts ==
  ASSUME NEW d \in [1..Width -> Int]
  PROVE  \E f \in [0..Width -> Int] :
           /\ f[0] = 0 /\ \A k \in 1..Width : f[k] = f[k - 1] * Base + d[k]
           /\ Number(d) = f[Width]
<1>0. Width \in Nat /\ Base \in Nat \ {0}
  BY ConfigAssumption
<1> DEFINE Is(f) == f = [k \in 0..Width |-> IF k = 0 THEN 0 ELSE f[k - 1] * Base + d[k]]
<1>1. \E f : Is(f)
  <2>1. PICK g : g = [p \in (1..Width) \X Int |-> p[2] * Base + d[p[1]]]
    OBVIOUS
  <2>2. g \in [(1..Width) \X Int -> Int]
    BY <1>0, <2>1
  <2>3. 0 \in Int
    OBVIOUS
  <2>4. PICK f \in [0..Width -> Int] : f[0] = 0 /\ \A k \in 1..Width : f[k] = g[<<k, f[k - 1]>>]
    BY <1>0, <2>2, <2>3, LoopDefined, Zenon
  <2>5. ASSUME NEW k \in 1..Width PROVE f[k] = f[k - 1] * Base + d[k]
    <3>1. k - 1 \in 0..Width
      BY <1>0
    <3>2. <<k, f[k - 1]>> \in (1..Width) \X Int
      BY <2>4, <3>1
    <3> QED BY <2>1, <2>4, <3>2
  <2>6. \A k \in 0..Width : k = 0 \/ k \in 1..Width
    BY <1>0
  <2>7. Is(f)
    BY <2>4, <2>5, <2>6
  <2> QED BY <2>7
<1>2. PICK f : f = CHOOSE h : Is(h)
  OBVIOUS
<1>3. Is(f) /\ Number(d) = f[Width]
  BY <1>1, <1>2 DEF Number
<1>4. f[0] = 0 /\ \A k \in 1..Width : f[k] = f[k - 1] * Base + d[k]
  <2>1. 0 \in 0..Width /\ \A k \in 1..Width : k \in 0..Width /\ k # 0
    BY <1>0
  <2> QED BY <1>3, <2>1
<1> DEFINE Bad == {k \in 0..Width : f[k] \notin Int}
<1>5. Bad = {}
  <2> SUFFICES ASSUME Bad # {} PROVE FALSE
    OBVIOUS
  <2>1. PICK w \in Bad : \A v \in Bad : w <= v
    <3>1. Bad \subseteq Nat
      OBVIOUS
    <3> HIDE DEF Bad
    <3> QED BY <3>1, LeastNumber
  <2>2. w \in 0..Width /\ f[w] \notin Int
    BY <2>1
  <2>3. w # 0
    BY <1>4, <2>2
  <2>4. PICK v \in 0..Width : v = w - 1 /\ ~(w <= v) /\ w \in 1..Width
    BY <1>0, <2>2, <2>3
  <2>5. v \notin Bad
    <3> HIDE DEF Bad
    <3> QED BY <2>1, <2>4
  <2>6. f[v] \in Int /\ f[w] = f[v] * Base + d[w] /\ d[w] \in Int
    BY <1>4, <2>4, <2>5
  <2> QED BY <1>0, <2>2, <2>6
<1>6. f \in [0..Width -> Int]
  <2>1. \A k \in 0..Width : f[k] \in Int
    BY <1>5
  <2>2. f = [k \in 0..Width |-> f[k]]
    BY <1>3
  <2> QED BY <2>1, <2>2
<1> QED BY <1>3, <1>4, <1>6

\* Reading the digits back gives the number.
LEMMA NumberOfDigits ==
  ASSUME NEW n \in 0..Power[Width] - 1
  PROVE  Number(Digits(n)) = n /\ Digits(n) \in [1..Width -> Int]
<1>0. Width \in Nat /\ Base \in Nat \ {0} /\ n \in Nat /\ n < Power[Width]
  BY ConfigAssumption, PowerFacts
<1>1. ASSUME NEW k \in 1..Width
      PROVE  /\ Width - k \in 0..Width /\ Power[Width - k] \in Nat \ {0}
             /\ n \div Power[Width - k] \in Nat
             /\ Digits(n)[k] = (n \div Power[Width - k]) % Base /\ Digits(n)[k] \in Int
  <2>1. Width - k \in 0..Width
    BY <1>0
  <2>2. Power[Width - k] \in Nat \ {0}
    BY <2>1, PowerFacts
  <2>3. n \div Power[Width - k] \in Nat
    BY <1>0, <2>2, DivFacts
  <2>4. Digits(n)[k] = (n \div Power[Width - k]) % Base
    BY DEF Digits
  <2>5. (n \div Power[Width - k]) % Base \in Int
    BY <1>0, <2>3, DivFacts
  <2> QED BY <2>1, <2>2, <2>3, <2>4, <2>5
<1>2. Digits(n) \in [1..Width -> Int]
  <2>1. Digits(n) = [k \in 1..Width |-> Digits(n)[k]]
    BY DEF Digits
  <2> QED BY <1>1, <2>1
<1>3. PICK f \in [0..Width -> Int] :
        /\ f[0] = 0 /\ \A k \in 1..Width : f[k] = f[k - 1] * Base + Digits(n)[k]
        /\ Number(Digits(n)) = f[Width]
  BY <1>2, NumberFacts
<1> DEFINE Bad == {k \in 0..Width : f[k] # n \div Power[Width - k]}
<1>4. Bad = {}
  <2> SUFFICES ASSUME Bad # {} PROVE FALSE
    OBVIOUS
  <2>1. PICK w \in Bad : \A v \in Bad : w <= v
    <3>1. Bad \subseteq Nat
      OBVIOUS
    <3> HIDE DEF Bad
    <3> QED BY <3>1, LeastNumber
  <2>2. w \in 0..Width /\ f[w] # n \div Power[Width - w]
    BY <2>1
  <2>3. w # 0
    <3> SUFFICES ASSUME w = 0 PROVE FALSE
      OBVIOUS
    <3>1. Width - w = Width /\ Power[Width] \in Nat \ {0}
      BY <1>0, PowerFacts
    <3>2. PICK p \in Nat \ {0} : p = Power[Width]
      BY <3>1
    <3>3. n \in 0..p - 1
      BY <1>0, <3>2
    <3>4. n \div p = 0
      BY <3>3, DivSmall
    <3> QED BY <1>3, <2>2, <3>1, <3>2, <3>4
  <2>4. PICK v \in 0..Width : v = w - 1 /\ ~(w <= v) /\ w \in 1..Width
    BY <1>0, <2>2, <2>3
  <2>5. v \notin Bad
    <3> HIDE DEF Bad
    <3> QED BY <2>1, <2>4
  <2>6. PICK q : q = n \div Power[Width - w]
    OBVIOUS
  <2>7. q \in Nat /\ Digits(n)[w] = q % Base
    BY <1>1, <2>4, <2>6
  <2>8. f[v] = q \div Base
    <3>1. Width - v \in 1..Width /\ (Width - v) - 1 = Width - w
      BY <1>0, <2>4
    <3>2. Power[Width - v] = Power[Width - w] * Base
      BY <3>1, PowerFacts
    <3>3. n \div (Power[Width - w] * Base) = q \div Base
      BY <1>0, <1>1, <2>4, <2>6, DivDiv
    <3> QED BY <2>4, <2>5, <3>2, <3>3
  <2>9. f[w] = (q \div Base) * Base + (q % Base)
    <3>1. f[w] = f[w - 1] * Base + Digits(n)[w]
      BY <1>3, <2>4
    <3> QED BY <2>4, <2>7, <2>8, <3>1
  <2>10. f[w] = q
    <3>1. q = Base * (q \div Base) + (q % Base) /\ q \div Base \in Nat
      BY <1>0, <2>7, DivFacts
    <3> QED BY <1>0, <2>9, <3>1
  <2> QED BY <2>2, <2>6, <2>10
<1>5. f[Width] = n
  <2>1. Width \in 0..Width /\ Width - Width = 0 /\ Power[0] = 1
    BY <1>0, PowerFacts
  <2>2. f[Width] = n \div 1
    BY <1>4, <2>1
  <2> QED BY <1>0, <2>2
<1> QED BY <1>2, <1>3, <1>5

\* decodeArchiveCursor gives back what encodeArchiveCursor was given, for every
\* row, and nothing for an empty cursor: the client's next page begins exactly
\* where its last one ended.
THEOREM CursorRoundTrip ==
  ASSUME NEW r \in Rows
  PROVE  DecodeCursor(EncodeCursor(Place(r))) = {Place(r)} /\ EncodeCursor(Place(r)) # <<>>
<1>0. Width \in Nat \ {0}
  BY ConfigAssumption
<1>1. /\ r.at \in 1..MaxTimestamp /\ r.id \in 1..Power[Width] - 1
      /\ Power[Width] \in Nat \ {0} /\ MaxTimestamp \in Int
  <2>1. Power[Width] \in Nat \ {0}
    BY <1>0, PowerFacts
  <2>2. Power[Width] \div 2 \in Int
    BY <2>1
  <2> QED BY <2>1, <2>2, RowsAssumption DEF MaxTimestamp
<1>2. r.at \in 0..Power[Width] - 1 /\ r.id \in 0..Power[Width] - 1
  BY <1>1 DEF MaxTimestamp
<1>3. /\ Number(Digits(r.at)) = r.at /\ Digits(r.at) \in [1..Width -> Int]
      /\ Number(Digits(r.id)) = r.id /\ Digits(r.id) \in [1..Width -> Int]
  BY <1>2, NumberOfDigits
<1>4. PICK a, b \in [1..Width -> Int] : a = Digits(r.at) /\ b = Digits(r.id)
  BY <1>3
<1>5. a \in Seq(Int) /\ b \in Seq(Int) /\ Len(a) = Width /\ Len(b) = Width
  BY <1>0
<1>6. PICK text : text = a \o b
  OBVIOUS
<1>7. /\ Len(text) = Width + Width
      /\ \A i \in 1..Width + Width : text[i] = IF i <= Width THEN a[i] ELSE b[i - Width]
  <2>1. /\ Len(a \o b) = Len(a) + Len(b)
        /\ \A i \in 1..Len(a) + Len(b) : (a \o b)[i] = IF i <= Len(a) THEN a[i] ELSE b[i - Len(a)]
    BY <1>5, ConcatProperties
  <2> QED BY <1>5, <1>6, <2>1
<1>8. SubSeq(text, 1, Width) = a
  <2>1. \A i \in 1..Width : text[i] \in Int /\ text[i] = a[i]
    BY <1>0, <1>5, <1>7
  <2>2. /\ SubSeq(text, 1, Width) \in Seq(Int) /\ Len(SubSeq(text, 1, Width)) = Width
        /\ \A i \in 1..Width : SubSeq(text, 1, Width)[i] = text[i]
    BY <1>0, <2>1, SubSeqProperties
  <2> QED BY <1>0, <1>5, <2>1, <2>2, SeqEqual
<1>9. SubSeq(text, Width + 1, 2 * Width) = b
  <2>1. \A i \in Width + 1..2 * Width : text[i] \in Int /\ text[i] = b[i - Width]
    <3> SUFFICES ASSUME NEW i \in Width + 1..2 * Width PROVE text[i] \in Int /\ text[i] = b[i - Width]
      OBVIOUS
    <3>1. i \in 1..Width + Width /\ ~(i <= Width) /\ i - Width \in 1..Width
      BY <1>0
    <3> QED BY <1>7, <3>1
  <2>2. PICK s : s = SubSeq(text, Width + 1, 2 * Width)
    OBVIOUS
  <2>3. /\ s \in Seq(Int) /\ Len(s) = Width
        /\ \A i \in 1..Width : s[i] = text[(Width + 1) + i - 1]
    BY <1>0, <2>1, <2>2, SubSeqProperties
  <2>4. \A i \in 1..Width : s[i] = b[i]
    <3> SUFFICES ASSUME NEW i \in 1..Width PROVE s[i] = b[i]
      OBVIOUS
    <3>1. PICK j \in Width + 1..2 * Width : j = (Width + 1) + i - 1 /\ j - Width = i
      BY <1>0
    <3> QED BY <2>1, <2>3, <3>1
  <2> QED BY <1>5, <2>2, <2>3, <2>4, SeqEqual
<1>10. EncodeCursor(Place(r)) = text
  BY <1>4, <1>6 DEF EncodeCursor, Place
<1>11. text # <<>>
  BY <1>0, <1>7
<1>12. DecodeCursor(text) = {[at |-> r.at, id |-> r.id]}
  <2>1. Len(text) = 2 * Width
    BY <1>0, <1>7
  <2>2. Number(SubSeq(text, 1, Width)) = r.at /\ Number(SubSeq(text, Width + 1, 2 * Width)) = r.id
    BY <1>3, <1>4, <1>8, <1>9
  <2>3. ~(r.at > MaxTimestamp \/ r.at = 0 \/ r.id = 0)
    BY <1>1
  <2> QED BY <2>1, <2>2, <2>3 DEF DecodeCursor
<1> QED BY <1>10, <1>11, <1>12 DEF Place

-----------------------------------------------------------------------------
(* A page.                                                                 *)

Chosen(req) == {r \in table : Matches(req, r) /\ \A c \in DecodeCursor(req.cursor) : Behind(r, c)}
Members(seq) == {seq[i] : i \in DOMAIN seq}
Descends(seq) == \A i, j \in DOMAIN seq : i < j => Precedes(seq[i], seq[j])

\* A page is in order, holds every selected row that comes before one of its
\* rows, says that it is the last only if it holds them all, and is not empty
\* unless it is the last.
LEMMA PageFacts ==
  ASSUME NEW req, table \subseteq Rows, PageSize(req) \in Nat \ {0}
  PROVE  /\ Page(req).items \in Seq(Chosen(req)) /\ Descends(Page(req).items)
         /\ \A s \in Members(Page(req).items), r \in Chosen(req) :
               Precedes(r, s) => r \in Members(Page(req).items)
         /\ Page(req).hasMore \in BOOLEAN
         /\ ~Page(req).hasMore => Members(Page(req).items) = Chosen(req)
         /\ Page(req).hasMore => Page(req).items # <<>>
<1> DEFINE S == Chosen(req)
           n == Cardinality(S)
           o == InOrder(S)
           ps == PageSize(req)
           last == Min({Len(o), ps + 1})
           rows == SubSeq(o, 1, last)
           m == IF n > ps THEN ps ELSE n
<1>1. S \subseteq Rows
  BY DEF Chosen
<1> HIDE DEF S
<1>2. /\ n \in Nat /\ o \in [1..n -> S]
      /\ \A r \in S : \E k \in 1..n : o[k] = r
      /\ \A j, k \in 1..n : j < k => Precedes(o[j], o[k])
  BY <1>1, InOrderFacts
<1>3. Page(req) = [items |-> IF Len(rows) > ps THEN SubSeq(rows, 1, ps) ELSE rows, hasMore |-> Len(rows) > ps]
  BY DEF Page, Selected, S, Chosen
<1> HIDE DEF o, n, ps
<1>4. o \in Seq(S) /\ Len(o) = n /\ ps \in Nat \ {0}
  BY <1>2 DEF ps
<1>5. last = IF n > ps THEN ps + 1 ELSE n
  <2>1. last = CHOOSE x \in {n, ps + 1} : \A y \in {n, ps + 1} : x =< y
    BY <1>4 DEF Min
  <2>2. \A x \in {n, ps + 1} : (\A y \in {n, ps + 1} : x =< y) <=> x = IF n > ps THEN ps + 1 ELSE n
    BY <1>2, <1>4
  <2> HIDE DEF last
  <2> QED BY <1>2, <1>4, <2>1, <2>2
<1> HIDE DEF last
<1>6. /\ rows \in Seq(S) /\ Len(rows) = last /\ \A i \in 1..last : rows[i] = o[i]
  <2>1. last \in Nat /\ last <= n /\ \A i \in 1..last : o[i] \in S
    BY <1>2, <1>4, <1>5
  <2>2. /\ rows \in Seq(S) /\ Len(rows) = IF 1 <= last THEN last - 1 + 1 ELSE 0
        /\ \A i \in 1..last - 1 + 1 : rows[i] = o[1 + i - 1]
    BY <2>1, SubSeqProperties
  <2> HIDE DEF rows
  <2> QED BY <2>1, <2>2
<1> HIDE DEF rows
<1>7. PICK items : items = Page(req).items
  OBVIOUS
<1>8. Page(req).hasMore = (n > ps)
  BY <1>2, <1>3, <1>4, <1>5, <1>6
<1>9. m \in Nat /\ m <= n /\ (n > ps => m >= 1) /\ (~(n > ps) => m = n)
  BY <1>2, <1>4
<1>10. /\ items \in Seq(S) /\ Len(items) = m /\ \A i \in 1..m : items[i] = o[i]
  <2>1. CASE n > ps
    <3>1. items = SubSeq(rows, 1, ps) /\ m = ps /\ last = ps + 1
      BY <1>2, <1>3, <1>4, <1>5, <1>6, <1>7, <2>1
    <3>2. \A i \in 1..ps : rows[i] \in S /\ rows[i] = o[i]
      BY <1>2, <1>4, <1>6, <2>1, <3>1
    <3>3. /\ SubSeq(rows, 1, ps) \in Seq(S) /\ Len(SubSeq(rows, 1, ps)) = IF 1 <= ps THEN ps - 1 + 1 ELSE 0
          /\ \A i \in 1..ps - 1 + 1 : SubSeq(rows, 1, ps)[i] = rows[1 + i - 1]
      BY <1>4, <3>2, SubSeqProperties
    <3> HIDE DEF m
    <3> QED BY <1>4, <3>1, <3>2, <3>3
  <2>2. CASE ~(n > ps)
    <3>1. items = rows /\ m = n /\ last = n
      BY <1>2, <1>3, <1>4, <1>5, <1>6, <1>7, <2>2
    <3> HIDE DEF m
    <3> QED BY <1>6, <3>1
  <2> QED BY <2>1, <2>2
<1> HIDE DEF m
<1>11. DOMAIN items = 1..m
  BY <1>10
<1>12. Descends(items)
  <2> SUFFICES ASSUME NEW i \in 1..m, NEW j \in 1..m, i < j PROVE Precedes(items[i], items[j])
    BY <1>11 DEF Descends
  <2>1. i \in 1..n /\ j \in 1..n
    BY <1>2, <1>9
  <2> QED BY <1>2, <1>10, <2>1
<1>13. ASSUME NEW s \in Members(items), NEW r \in S, Precedes(r, s)
       PROVE  r \in Members(items)
  <2>1. PICK i \in 1..m : s = items[i]
    BY <1>11 DEF Members
  <2>2. PICK k \in 1..n : o[k] = r
    BY <1>2
  <2>3. i \in 1..n /\ s = o[i] /\ s \in Rows /\ r \in Rows
    BY <1>1, <1>2, <1>9, <1>10, <2>1
  <2>4. ~(i <= k)
    <3> SUFFICES ASSUME i <= k PROVE FALSE
      OBVIOUS
    <3>1. i = k \/ i < k
      BY <2>3
    <3>2. s = r \/ Precedes(s, r)
      BY <1>2, <2>2, <2>3, <3>1
    <3> QED BY <1>13, <2>3, <3>2, OrderFacts
  <2>5. k \in 1..m
    BY <1>9, <2>3, <2>4
  <2> QED BY <1>10, <1>11, <2>2, <2>5 DEF Members
<1>14. ASSUME ~(n > ps) PROVE Members(items) = S
  <2>1. m = n
    BY <1>9, <1>14
  <2>2. \A r \in S : r \in Members(items)
    BY <1>2, <1>10, <1>11, <2>1 DEF Members
  <2>3. \A r \in Members(items) : r \in S
    BY <1>10 DEF Members
  <2> QED BY <2>2, <2>3
<1>15. ASSUME n > ps PROVE items # <<>>
  BY <1>9, <1>10, <1>15
<1>16. Page(req).hasMore \in BOOLEAN /\ (Page(req).hasMore <=> n > ps)
  <2>1. (n > ps) \in BOOLEAN
    BY <1>2, <1>4
  <2> QED BY <1>8, <2>1
<1>17. items \in Seq(S) /\ \A s \in Members(items), r \in S : Precedes(r, s) => r \in Members(items)
  BY <1>10, <1>13
<1>18. (~Page(req).hasMore => Members(items) = S) /\ (Page(req).hasMore => items # <<>>)
  BY <1>14, <1>15, <1>16
<1> HIDE DEF ps
<1> QED BY <1>7, <1>12, <1>16, <1>17, <1>18 DEF S

-----------------------------------------------------------------------------
(* The walk of a client.                                                   *)

ListFields == {"filters", "from", "to", "cursor"}
IsList(req) == ListFields \subseteq DOMAIN req /\ "id" \notin DOMAIN req

\* The request is for what follows the rows shown.
ContinuesAt(cursor) == DecodeCursor(cursor) = IF shown = <<>> THEN {} ELSE {Place(Last(shown))}

AInv ==
  /\ table \subseteq Rows /\ start \subseteq Rows /\ walks \in Nat
  /\ phase \in {"idle", "asked", "queried", "detail"}
  /\ phase # "idle" => walks # 0
  /\ shown \in Seq(Rows) /\ Descends(shown)
  /\ phase = "detail" => "id" \in DOMAIN request
  /\ phase = "queried" => "id" \notin DOMAIN request /\ PageSize(request) \in Nat \ {0}
  /\ phase \in {"asked", "queried"} /\ "id" \notin DOMAIN request =>
       IsList(request) /\ ContinuesAt(request.cursor)
  /\ phase = "idle" /\ answer.code = "Ok" /\ answer.cursor # <<>> =>
       /\ IsList(request) /\ shown # <<>> /\ walks # 0
       /\ answer.cursor = EncodeCursor(Place(Last(shown)))

LEMMA AnswerFields ==
  ASSUME NEW code, NEW items, NEW cursor
  PROVE  /\ ListAnswer(code, items, cursor).code = code
         /\ ListAnswer(code, items, cursor).cursor = cursor
BY DEF ListAnswer

LEMMA LastShown == ASSUME AInv, shown # <<>> PROVE Last(shown) \in Rows /\ Len(shown) \in DOMAIN shown
BY DEF AInv, Last

LEMMA ParsedSize == ASSUME NEW req, ParseQuery(req) = "Ok" PROVE PageSize(req) \in Nat \ {0}
<1>1. ~(req.pageSize # Absent /\ req.pageSize \notin 1..MaxPageSize)
  BY DEF ParseQuery
<1>2. DefaultPageSize \in Nat \ {0} /\ 1..MaxPageSize \subseteq Nat \ {0}
  BY ConfigAssumption
<1> QED BY <1>1, <1>2 DEF PageSize

\* The rows the next page is taken from: all of the list, or those after the
\* last row shown.
LEMMA ChosenFacts ==
  ASSUME AInv, phase = "queried"
  PROVE  /\ Chosen(request) \subseteq Listed(table) /\ Listed(table) \subseteq Rows
         /\ \A r \in Chosen(request) : \A i \in DOMAIN shown : Precedes(shown[i], r)
         /\ \A r \in Listed(table) : \/ r \in Chosen(request)
                                     \/ \E i \in DOMAIN shown : r = shown[i] \/ Precedes(r, shown[i])
<1>1. /\ IsList(request) /\ ContinuesAt(request.cursor) /\ table \subseteq Rows
      /\ shown \in Seq(Rows) /\ Descends(shown)
  BY DEF AInv
<1>2. Listed(table) = {r \in table : Matches(request, r)}
  BY <1>1 DEF Listed, IsList, ListFields
<1>3. CASE shown = <<>>
  <2>1. DOMAIN shown = {} /\ DecodeCursor(request.cursor) = {}
    BY <1>1, <1>3 DEF ContinuesAt
  <2>2. Chosen(request) = Listed(table)
    BY <1>2, <2>1 DEF Chosen
  <2> QED BY <1>1, <1>2, <2>1, <2>2
<1>4. CASE shown # <<>>
  <2>1. PICK l \in Rows : l = Last(shown) /\ l = shown[Len(shown)] /\ Len(shown) \in DOMAIN shown
    BY <1>4, LastShown DEF Last
  <2>2. DecodeCursor(request.cursor) = {Place(l)}
    BY <1>1, <1>4, <2>1 DEF ContinuesAt
  <2>3. \A r \in Rows : Behind(r, Place(l)) <=> Precedes(l, r)
    BY <2>1, CursorConditionIsOrder
  <2>4. \A r \in Listed(table) : r \in Rows /\ (r \in Chosen(request) <=> Precedes(l, r))
    BY <1>1, <1>2, <2>2, <2>3 DEF Chosen
  <2>5. Chosen(request) \subseteq Listed(table)
    BY <1>2 DEF Chosen
  <2>6. ASSUME NEW r \in Chosen(request), NEW i \in DOMAIN shown PROVE Precedes(shown[i], r)
    <3>1. shown[i] \in Rows /\ (i = Len(shown) \/ i < Len(shown))
      BY <1>1
    <3>2. shown[i] = l \/ Precedes(shown[i], l)
      BY <1>1, <2>1, <3>1 DEF Descends
    <3> QED BY <2>4, <2>5, <3>1, <3>2, OrderFacts
  <2>7. ASSUME NEW r \in Listed(table), r \notin Chosen(request)
        PROVE  \E i \in DOMAIN shown : r = shown[i] \/ Precedes(r, shown[i])
    BY <2>1, <2>4, <2>7, OrderFacts
  <2> QED BY <1>1, <1>2, <2>5, <2>6, <2>7
<1> QED BY <1>3, <1>4

\* The page MySQL answers with goes on where the walk was.
LEMMA ShownFacts ==
  ASSUME AInv, phase = "queried", shown' = shown \o Page(request).items
  PROVE  /\ shown' \in Seq(Rows) /\ Descends(shown')
         /\ Members(shown') = Members(shown) \cup Members(Page(request).items)
         /\ Page(request).items # <<>> => shown' # <<>> /\ Last(shown') = Last(Page(request).items)
<1>1. PICK items : items = Page(request).items
  OBVIOUS
<1>2. /\ PageSize(request) \in Nat \ {0} /\ table \subseteq Rows /\ shown \in Seq(Rows) /\ Descends(shown)
  BY DEF AInv
<1>3. items \in Seq(Chosen(request)) /\ Descends(items)
  BY <1>1, <1>2, PageFacts
<1>4. /\ Chosen(request) \subseteq Rows
      /\ \A r \in Chosen(request) : \A i \in DOMAIN shown : Precedes(shown[i], r)
  BY ChosenFacts
<1>5. items \in Seq(Rows)
  BY <1>3, <1>4
<1>6. PICK m, n \in Nat : m = Len(shown) /\ n = Len(items)
  BY <1>2, <1>5
<1>7. /\ DOMAIN shown = 1..m /\ DOMAIN items = 1..n
  BY <1>2, <1>5, <1>6
<1>8. /\ shown' \in Seq(Rows) /\ Len(shown') = m + n
      /\ \A i \in 1..m + n : shown'[i] = IF i <= m THEN shown[i] ELSE items[i - m]
  BY <1>1, <1>2, <1>5, <1>6, ConcatProperties
<1>9. DOMAIN shown' = 1..m + n
  BY <1>6, <1>8
<1>10. Descends(shown')
  <2> SUFFICES ASSUME NEW i \in 1..m + n, NEW j \in 1..m + n, i < j
               PROVE  Precedes(shown'[i], shown'[j])
    BY <1>9 DEF Descends
  <2>1. CASE j <= m
    <3>1. i \in 1..m /\ j \in 1..m /\ shown'[i] = shown[i] /\ shown'[j] = shown[j]
      BY <1>6, <1>8, <2>1
    <3> QED BY <1>2, <1>7, <3>1 DEF Descends
  <2>2. CASE i <= m /\ ~(j <= m)
    <3>1. i \in 1..m /\ j - m \in 1..n /\ shown'[i] = shown[i] /\ shown'[j] = items[j - m]
      BY <1>6, <1>8, <2>2
    <3>2. items[j - m] \in Chosen(request)
      BY <1>3, <1>7, <3>1
    <3> QED BY <1>4, <1>7, <3>1, <3>2
  <2>3. CASE ~(i <= m)
    <3>0. i - m \in 1..n /\ j - m \in 1..n /\ i - m < j - m /\ ~(j <= m)
      BY <1>6, <2>3
    <3>1. shown'[i] = items[i - m] /\ shown'[j] = items[j - m]
      BY <1>8, <2>3, <3>0
    <3> QED BY <1>3, <1>7, <3>0, <3>1 DEF Descends
  <2> QED BY <2>1, <2>2, <2>3
<1>11. Members(shown') = Members(shown) \cup Members(items)
  <2>1. ASSUME NEW r \in Members(shown') PROVE r \in Members(shown) \cup Members(items)
    <3>1. PICK i \in 1..m + n : r = shown'[i]
      BY <1>9 DEF Members
    <3>2. CASE i <= m
      <4>1. i \in 1..m /\ r = shown[i]
        BY <1>6, <1>8, <3>1, <3>2
      <4> QED BY <1>7, <4>1 DEF Members
    <3>3. CASE ~(i <= m)
      <4>1. i - m \in 1..n /\ r = items[i - m]
        BY <1>6, <1>8, <3>1, <3>3
      <4> QED BY <1>7, <4>1 DEF Members
    <3> QED BY <3>2, <3>3
  <2>2. ASSUME NEW r \in Members(shown) PROVE r \in Members(shown')
    <3>1. PICK i \in 1..m : r = shown[i]
      BY <1>7, <2>2 DEF Members
    <3>2. i \in 1..m + n /\ shown'[i] = r
      BY <1>6, <1>8, <3>1
    <3> QED BY <1>9, <3>2 DEF Members
  <2>3. ASSUME NEW r \in Members(items) PROVE r \in Members(shown')
    <3>1. PICK i \in 1..n : r = items[i]
      BY <1>7, <2>3 DEF Members
    <3>2. i + m \in 1..m + n /\ ~(i + m <= m) /\ (i + m) - m = i
      BY <1>6
    <3>3. shown'[i + m] = r
      BY <1>8, <3>1, <3>2
    <3> QED BY <1>9, <3>2, <3>3 DEF Members
  <2> QED BY <2>1, <2>2, <2>3
<1>12. ASSUME items # <<>> PROVE shown' # <<>> /\ Last(shown') = Last(items)
  <2>1. n > 0
    BY <1>5, <1>6, <1>12
  <2>2. m + n \in 1..m + n /\ ~(m + n <= m) /\ (m + n) - m = n
    BY <1>6, <2>1
  <2>3. shown'[m + n] = items[n]
    BY <1>8, <2>2
  <2> QED BY <1>6, <1>8, <2>1, <2>3 DEF Last
<1> QED BY <1>1, <1>8, <1>10, <1>11, <1>12

LEMMA ListRowsKeeps ==
  ASSUME AInv, ListRows
  PROVE  AInv'
<1>1. PICK page : page = Page(request)
  OBVIOUS
<1>2. /\ phase = "queried" /\ phase' = "idle" /\ UNCHANGED <<table, request, start, walks>>
      /\ shown' = shown \o Page(request).items
      /\ answer' = ListAnswer("Ok", page.items, NextCursor(page))
  BY <1>1 DEF ListRows
<1>3. /\ table \subseteq Rows /\ PageSize(request) \in Nat \ {0} /\ IsList(request)
      /\ walks # 0
  BY <1>2 DEF AInv
<1>4. /\ shown' \in Seq(Rows) /\ Descends(shown')
      /\ page.items # <<>> => shown' # <<>> /\ Last(shown') = Last(page.items)
  BY <1>1, <1>2, ShownFacts
<1>5. answer'.cursor = NextCursor(page)
  BY <1>2, AnswerFields
<1>6. ASSUME NextCursor(page) # <<>>
      PROVE  shown' # <<>> /\ NextCursor(page) = EncodeCursor(Place(Last(shown')))
  <2>1. page.items # <<>> /\ NextCursor(page) = EncodeCursor(Place(Last(page.items)))
    BY <1>6 DEF NextCursor, Place
  <2> QED BY <1>4, <2>1
<1> QED BY <1>2, <1>3, <1>4, <1>5, <1>6 DEF AInv, IsList, Descends

LEMMA FollowKeeps ==
  ASSUME AInv, FollowCursor
  PROVE  AInv' /\ DOMAIN request' = DOMAIN request
         /\ \A f \in DOMAIN request : f # "cursor" => request'[f] = request[f]
<1>1. /\ phase = "idle" /\ phase' = "asked" /\ answer.code = "Ok" /\ answer.cursor # <<>>
      /\ request' = [request EXCEPT !.cursor = answer.cursor]
      /\ UNCHANGED <<table, shown, start, walks>>
  BY DEF FollowCursor
<1>2. IsList(request) /\ shown # <<>> /\ walks # 0 /\ answer.cursor = EncodeCursor(Place(Last(shown)))
  BY <1>1 DEF AInv
<1>3. /\ DOMAIN request' = DOMAIN request /\ request'.cursor = answer.cursor
      /\ \A f \in DOMAIN request : f # "cursor" => request'[f] = request[f]
  BY <1>1, <1>2 DEF IsList, ListFields
<1>4. DecodeCursor(answer.cursor) = {Place(Last(shown))}
  BY <1>2, LastShown, CursorRoundTrip
<1>5. (IsList(request) /\ ContinuesAt(request.cursor))'
  BY <1>1, <1>2, <1>3, <1>4 DEF IsList, ContinuesAt
<1> QED BY <1>1, <1>2, <1>3, <1>5 DEF AInv, Descends

LEMMA BeginKeeps ==
  ASSUME AInv, BeginWalk
  PROVE  AInv' /\ IsList(request') /\ shown' = <<>> /\ walks' # 0
<1>1. PICK req \in Lists : request' = req
  BY DEF BeginWalk
<1>2. /\ phase' = "asked" /\ walks' = walks + 1 /\ shown' = <<>> /\ start' = table /\ table' = table
  BY DEF BeginWalk
<1>3. IsList(req) /\ DecodeCursor(req.cursor) = {}
  BY RequestsAssumption DEF IsList, ListFields
<1>4. (IsList(request) /\ ContinuesAt(request.cursor))'
  BY <1>1, <1>2, <1>3 DEF IsList, ContinuesAt
<1>5. <<>> \in Seq(Rows) /\ Descends(<<>>) /\ walks + 1 \in Nat /\ walks + 1 # 0
  BY DEF AInv, Descends
<1> QED BY <1>1, <1>2, <1>3, <1>4, <1>5 DEF AInv, Descends

LEMMA AskKeeps ==
  ASSUME AInv, AskDetail
  PROVE  AInv' /\ "id" \in DOMAIN request' /\ shown' = <<>> /\ start' = {}
<1>1. PICK req \in Details : request' = req
  BY DEF AskDetail
<1>2. /\ phase' = "asked" /\ walks' = walks + 1 /\ shown' = <<>> /\ start' = {} /\ table' = table
  BY DEF AskDetail
<1>3. "id" \in DOMAIN req
  BY RequestsAssumption
<1>4. <<>> \in Seq(Rows) /\ Descends(<<>>) /\ walks + 1 \in Nat /\ walks + 1 # 0
  BY DEF AInv, Descends
<1> QED BY <1>1, <1>2, <1>3, <1>4 DEF AInv, Descends

\* The handlers and MySQL's errors leave the walk as it is.
LEMMA RefuseKeeps ==
  ASSUME AInv, NEW code, code # "Ok", Refuse(code), UNCHANGED <<table, request, shown, start, walks>>
  PROVE  AInv' /\ phase' = "idle" /\ answer'.code # "Ok"
<1>1. phase' = "idle" /\ answer'.code = code
  BY AnswerFields DEF Refuse
<1> QED BY <1>1 DEF AInv, Descends

LEMMA HandleListCases ==
  ASSUME HandleList
  PROVE  /\ phase = "asked" /\ "id" \notin DOMAIN request
         /\ UNCHANGED <<table, request, shown, start, walks>>
         /\ \/ \E code : code # "Ok" /\ Refuse(code)
            \/ ParseQuery(request) = "Ok" /\ phase' = "queried" /\ answer' = answer
BY DEF HandleList

LEMMA HandleDetailCases ==
  ASSUME HandleDetail
  PROVE  /\ phase = "asked" /\ "id" \in DOMAIN request
         /\ UNCHANGED <<table, request, shown, start, walks>>
         /\ \/ \E code : code # "Ok" /\ Refuse(code)
            \/ phase' = "detail" /\ answer' = answer
BY DEF HandleDetail

LEMMA HandleListKeeps ==
  ASSUME AInv, HandleList
  PROVE  AInv'
<1>1. ASSUME NEW code, code # "Ok", Refuse(code) PROVE AInv'
  BY <1>1, HandleListCases, RefuseKeeps
<1>2. CASE ParseQuery(request) = "Ok" /\ phase' = "queried"
  <2>1. /\ phase = "asked" /\ "id" \notin DOMAIN request
        /\ UNCHANGED <<table, request, shown, start, walks>> /\ PageSize(request) \in Nat \ {0}
    BY <1>2, HandleListCases, ParsedSize
  <2>2. (IsList(request) /\ ContinuesAt(request.cursor))'
    BY <2>1 DEF AInv, IsList, ContinuesAt
  <2>3. PageSize(request')\in Nat \ {0}
    BY <2>1
  <2> QED BY <1>2, <2>1, <2>2, <2>3 DEF AInv, Descends
<1> QED BY <1>1, <1>2, HandleListCases

LEMMA HandleDetailKeeps ==
  ASSUME AInv, HandleDetail
  PROVE  AInv'
<1>1. ASSUME NEW code, code # "Ok", Refuse(code) PROVE AInv'
  BY <1>1, HandleDetailCases, RefuseKeeps
<1>2. CASE phase' = "detail"
  BY <1>2, HandleDetailCases DEF AInv, Descends
<1> QED BY <1>1, <1>2, HandleDetailCases

LEMMA FindRowKeeps ==
  ASSUME AInv, FindRow
  PROVE  AInv' /\ "id" \in DOMAIN request /\ UNCHANGED <<table, request, shown, start, walks>>
<1>1. /\ phase = "detail" /\ phase' = "idle" /\ UNCHANGED <<table, request, shown, start, walks>>
      /\ \E code, items : answer' = ListAnswer(code, items, <<>>)
  BY DEF FindRow
<1>2. answer'.cursor = <<>>
  BY <1>1, AnswerFields
<1> QED BY <1>1, <1>2 DEF AInv, Descends

LEMMA PagingStep == ASSUME AInv, [PagingNext]_pagingVars PROVE AInv'
<1>1. CASE NewRow
  <2>1. table' \subseteq Rows /\ UNCHANGED <<request, phase, answer, shown, start, walks>>
    BY <1>1 DEF NewRow, AInv
  <2>2. PageSize(request') = PageSize(request) /\ ContinuesAt(request.cursor)' = ContinuesAt(request.cursor)
    BY <2>1 DEF ContinuesAt
  <2> QED BY <2>1, <2>2 DEF AInv, Descends, IsList
<1>2. CASE UNCHANGED pagingVars
  <2>1. UNCHANGED <<table, request, phase, answer, shown, start, walks>>
    BY <1>2 DEF pagingVars
  <2>2. PageSize(request') = PageSize(request) /\ ContinuesAt(request.cursor)' = ContinuesAt(request.cursor)
    BY <2>1 DEF ContinuesAt
  <2> QED BY <2>1, <2>2 DEF AInv, Descends, IsList
<1>3. CASE MySqlUnavailable
  BY <1>3, RefuseKeeps DEF MySqlUnavailable
<1> QED BY <1>1, <1>2, <1>3, BeginKeeps, AskKeeps, FollowKeeps, HandleListKeeps, ListRowsKeeps,
           HandleDetailKeeps, FindRowKeeps DEF PagingNext

LEMMA PagingStart == ASSUME PagingInit PROVE AInv
<1>1. <<>> \in Seq(Rows) /\ Descends(<<>>)
  BY DEF Descends
<1>2. answer.code = ""
  <2>1. answer = ListAnswer("", <<>>, <<>>)
    BY DEF PagingInit, NoAnswer
  <2> QED BY <2>1 DEF ListAnswer
<1> QED BY <1>1, <1>2 DEF PagingInit, AInv

\* The invariant of the walk: the rows shown are in order, and the request in
\* progress, or the cursor the client holds, goes on after the last of them.
THEOREM PagingInvariant == PagingSpec => []AInv
<1>1. PagingInit => AInv
  BY PagingStart
<1>2. AInv /\ [PagingNext]_pagingVars => AInv'
  BY PagingStep
<1> QED BY <1>1, <1>2, PTL DEF PagingSpec

\* Descending for every table, every list request and every page size: over all
\* pages of a walk no row is shown twice and none out of order, although rows
\* are inserted between the pages and share their archived_at.
THEOREM ListDescends == PagingSpec => []Descending
<1>1. AInv => Descending
  <2> SUFFICES ASSUME AInv, NEW i \in 1..Len(shown) - 1 PROVE Precedes(shown[i], shown[i + 1])
    BY DEF Descending
  <2>1. i \in DOMAIN shown /\ i + 1 \in DOMAIN shown /\ i < i + 1
    BY DEF AInv
  <2> QED BY <2>1 DEF AInv, Descends
<1> QED BY <1>1, PagingInvariant, PTL

-----------------------------------------------------------------------------
(* The walk of PagedWalk.                                                  *)

\* Steps that leave the rows and the request alone.
LEMMA SameLists ==
  ASSUME UNCHANGED <<table, request, shown, start>>
  PROVE  /\ Listed(table)' = Listed(table) /\ Listed(start)' = Listed(start)
         /\ Members(shown)' = Members(shown)
BY DEF Listed, Members

LEMMA ListRowsShows ==
  ASSUME AInv, ListRows
  PROVE  Walk!Show
<1>1. PICK page : page = Page(request)
  OBVIOUS
<1>2. /\ phase = "queried" /\ phase' = "idle" /\ UNCHANGED <<table, request, start, walks>>
      /\ shown' = shown \o Page(request).items
      /\ answer' = ListAnswer("Ok", page.items, NextCursor(page))
  BY <1>1 DEF ListRows
<1>3. table \subseteq Rows /\ PageSize(request) \in Nat \ {0} /\ IsList(request) /\ walks # 0
  BY <1>2 DEF AInv
<1>4. /\ page.items \in Seq(Chosen(request))
      /\ \A s \in Members(page.items), r \in Chosen(request) : Precedes(r, s) => r \in Members(page.items)
      /\ ~page.hasMore => Members(page.items) = Chosen(request)
      /\ page.hasMore => page.items # <<>>
      /\ page.hasMore \in BOOLEAN
  BY <1>1, <1>3, PageFacts
<1>5. Members(shown') = Members(shown) \cup Members(page.items)
  BY <1>1, <1>2, ShownFacts
<1>6. /\ Chosen(request) \subseteq Listed(table) /\ Listed(table) \subseteq Rows
      /\ \A r \in Chosen(request) : \A i \in DOMAIN shown : Precedes(shown[i], r)
      /\ \A r \in Listed(table) : \/ r \in Chosen(request)
                                  \/ \E i \in DOMAIN shown : r = shown[i] \/ Precedes(r, shown[i])
  BY <1>2, ChosenFacts
<1>7. Members(page.items) \subseteq Chosen(request)
  BY <1>4 DEF Members
<1>8. \A r \in Chosen(request), q \in Members(shown) : Precedes(q, r)
  BY <1>6 DEF Members
<1>9. \A r \in Listed(table) : \/ r \in Chosen(request) \/ r \in Members(shown)
                               \/ \E q \in Members(shown) : Precedes(r, q)
  BY <1>6 DEF Members
<1>10. Listed(table)' = Listed(table) /\ Listed(start)' = Listed(start)
  BY <1>2 DEF Listed
<1>11. Walking = "walk"
  BY <1>2, <1>3 DEF Walking, IsList
<1>12. Walking' = IF answer'.cursor = <<>> THEN "done" ELSE "walk"
  <2>1. answer'.code = "Ok" /\ "id" \notin DOMAIN request' /\ walks' # 0
    BY <1>2, <1>3, AnswerFields DEF IsList
  <2> QED BY <1>2, <2>1 DEF Walking
<1>13. answer'.cursor = <<>> => ~page.hasMore
  <2> SUFFICES ASSUME page.hasMore PROVE answer'.cursor # <<>>
    BY <1>4
  <2>1. page.items # <<>> /\ Last(page.items) \in Rows
    BY <1>4, <1>6 DEF Last
  <2>2. answer'.cursor = EncodeCursor(Place(Last(page.items)))
    BY <1>2, <2>1, AnswerFields DEF NextCursor, Place
  <2> QED BY <2>1, <2>2, CursorRoundTrip
<1>14. ASSUME NEW s \in Members(shown') \ Members(shown), NEW r \in Listed(table), Precedes(r, s)
       PROVE  r \in Members(shown') \/ \E q \in Members(shown) : Precedes(r, q)
  BY <1>4, <1>5, <1>9, <1>14
<1>15. ASSUME Walking' = "done", NEW r \in Listed(table)
       PROVE  r \in Members(shown') \/ \E q \in Members(shown) : Precedes(r, q)
  BY <1>4, <1>5, <1>9, <1>12, <1>13, <1>15
<1>16. \A s \in Members(shown') \ Members(shown) : \A q \in Members(shown) : Precedes(q, s)
  BY <1>5, <1>7, <1>8
<1>17. Members(shown) \subseteq Members(shown') /\ Members(shown') \subseteq Members(shown) \cup Listed(table)
  BY <1>5, <1>6, <1>7
<1> QED BY <1>10, <1>11, <1>12, <1>14, <1>15, <1>16, <1>17 DEF Walk!Show, Walk!Passed, Members

LEMMA WalkStep ==
  ASSUME AInv, [PagingNext]_pagingVars
  PROVE  [Walk!Next]_(Walk!vars)
<1>1. ASSUME UNCHANGED <<table, request, shown, start>>, Walking' = Walking PROVE UNCHANGED Walk!vars
  BY <1>1, SameLists DEF Walk!vars, Members
<1>2. ASSUME UNCHANGED <<table, request, shown, start>>, Walking' = "idle" PROVE Walk!GiveUp
  BY <1>2, SameLists DEF Walk!GiveUp, Members
<1>3. ASSUME NEW code, code # "Ok", Refuse(code), UNCHANGED <<table, request, shown, start, walks>>
      PROVE  Walk!GiveUp
  <2>1. phase' = "idle" /\ answer'.code # "Ok"
    BY <1>3, RefuseKeeps
  <2>2. Walking' = "idle"
    BY <2>1 DEF Walking
  <2> QED BY <1>2, <1>3, <2>2
<1>4. CASE NewRow
  <2>1. /\ table \subseteq table' /\ table' \subseteq Rows
        /\ UNCHANGED <<request, phase, answer, shown, start, walks>>
    BY <1>4 DEF NewRow, AInv
  <2>2. /\ Listed(table) \subseteq Listed(table)' /\ Listed(table)' \subseteq Rows
        /\ Listed(start)' = Listed(start) /\ Members(shown)' = Members(shown)
    BY <2>1 DEF Listed, Members
  <2>3. Walking' = Walking
    BY <2>1 DEF Walking
  <2>4. Walk!Insert
    BY <2>2, <2>3 DEF Walk!Insert, Members
  <2> QED BY <2>4 DEF Walk!Next
<1>5. CASE BeginWalk
  <2>1. /\ IsList(request') /\ shown' = <<>> /\ walks' # 0 /\ phase' = "asked"
        /\ table' = table /\ start' = table /\ table \subseteq Rows
    BY <1>5, BeginKeeps DEF BeginWalk, AInv
  <2>2. Listed(start)' = Listed(table)' /\ Listed(table)' \subseteq Rows /\ Members(shown)' = {}
    BY <2>1 DEF Listed, Members
  <2>3. Walking' = "walk"
    BY <2>1 DEF Walking, IsList
  <2>4. Walk!Begin
    BY <2>2, <2>3 DEF Walk!Begin, Members
  <2> QED BY <2>4 DEF Walk!Next
<1>6. CASE AskDetail
  <2>1. "id" \in DOMAIN request' /\ shown' = <<>> /\ start' = {} /\ table' = table /\ table \subseteq Rows
    BY <1>6, AskKeeps DEF AskDetail, AInv
  <2>2. Listed(start)' = {} /\ Listed(table)' \subseteq Rows /\ Members(shown)' = {}
    BY <2>1 DEF Listed, Members
  <2>3. Walking' = "idle"
    BY <2>1 DEF Walking
  <2>4. Walk!Forget
    BY <2>2, <2>3 DEF Walk!Forget, Members
  <2> QED BY <2>4 DEF Walk!Next
<1>7. CASE FollowCursor
  <2>1. /\ phase = "idle" /\ phase' = "asked" /\ answer.code = "Ok" /\ answer.cursor # <<>>
        /\ UNCHANGED <<table, shown, start, walks>>
    BY <1>7 DEF FollowCursor
  <2>2. IsList(request) /\ walks # 0
    BY <2>1 DEF AInv
  <2>3. /\ DOMAIN request' = DOMAIN request
        /\ request'.filters = request.filters /\ request'.from = request.from /\ request'.to = request.to
    BY <1>7, <2>2, FollowKeeps DEF IsList, ListFields
  <2>4. Walking' = Walking
    BY <2>1, <2>2, <2>3 DEF Walking, IsList
  <2>5. /\ Listed(table)' = Listed(table) /\ Listed(start)' = Listed(start)
        /\ Members(shown)' = Members(shown)
    BY <2>1, <2>3 DEF Listed, Members, Matches
  <2>6. UNCHANGED Walk!vars
    BY <2>4, <2>5 DEF Walk!vars, Members
  <2> QED BY <2>6
<1>8. CASE HandleList
  <2>1. CASE phase' = "queried"
    <3>1. Walking' = Walking
      BY <1>8, <2>1, HandleListCases DEF Walking
    <3> QED BY <1>1, <1>8, <3>1, HandleListCases
  <2>2. CASE \E code : code # "Ok" /\ Refuse(code)
    BY <1>3, <1>8, <2>2, HandleListCases DEF Walk!Next
  <2> QED BY <1>8, <2>1, <2>2, HandleListCases
<1>9. CASE ListRows
  BY <1>9, ListRowsShows DEF Walk!Next
<1>10. CASE HandleDetail
  <2>1. "id" \in DOMAIN request /\ UNCHANGED <<table, request, shown, start, walks>>
    BY <1>10, HandleDetailCases
  <2>2. Walking' = Walking
    BY <2>1 DEF Walking
  <2> QED BY <1>1, <2>1, <2>2
<1>11. CASE FindRow
  <2>1. "id" \in DOMAIN request /\ UNCHANGED <<table, request, shown, start, walks>>
    BY <1>11, FindRowKeeps
  <2>2. Walking' = Walking
    BY <2>1 DEF Walking
  <2> QED BY <1>1, <2>1, <2>2
<1>12. CASE MySqlUnavailable
  BY <1>3, <1>12 DEF MySqlUnavailable, Walk!Next
<1>13. CASE UNCHANGED pagingVars
  <2>1. UNCHANGED <<table, request, phase, answer, shown, start, walks>>
    BY <1>13 DEF pagingVars
  <2>2. Walking' = Walking
    BY <2>1 DEF Walking
  <2> QED BY <1>1, <2>1, <2>2
<1> QED BY <1>4, <1>5, <1>6, <1>7, <1>8, <1>9, <1>10, <1>11, <1>12, <1>13 DEF PagingNext

\* The archive list implements PagedWalk, for every table, all requests and all
\* page sizes: the rows of a page are behind all rows shown, no row between them
\* is left out, and a page without next_cursor leaves nothing of the list.
THEOREM ListImplementsPagedWalk == PagingSpec => ImplementsPagedWalk
<1>1. PagingInit => Walk!Init
  <2> SUFFICES ASSUME PagingInit PROVE Walk!Init
    OBVIOUS
  <2>1. table \subseteq Rows /\ shown = <<>> /\ start = {} /\ walks = 0
    BY DEF PagingInit
  <2>2. Listed(table) \subseteq Rows /\ Listed(start) = {} /\ Members(shown) = {}
    BY <2>1 DEF Listed, Members
  <2>3. Walking = "idle"
    BY <2>1 DEF Walking
  <2> QED BY <2>2, <2>3 DEF Walk!Init, Members
<1>2. AInv /\ [PagingNext]_pagingVars => [Walk!Next]_(Walk!vars)
  BY WalkStep
<1> QED BY <1>1, <1>2, PagingInvariant, PTL DEF PagingSpec, ImplementsPagedWalk, Walk!Spec

Walks == INSTANCE PagedWalkProofs WITH
  Row <- Rows, Before <- Precedes,
  table <- Listed(table), start <- Listed(start),
  shown <- {shown[i] : i \in DOMAIN shown}, status <- Walking

\* WalkComplete for every table, all requests and all page sizes: the client
\* that has got a null next_cursor has been shown every row of its list that
\* was there when it began.
THEOREM ListWalkIsComplete == PagingSpec => []WalkComplete
<1>0. Walks!StrictOrder
  BY ListOrderIsStrict DEF Walk!StrictOrder, Walks!StrictOrder
<1>1. Walks!Spec => []Walks!WalkComplete
  BY <1>0, Walks!WalkIsComplete
<1>2. Walks!WalkComplete => WalkComplete
  BY DEF WalkComplete, Walks!WalkComplete
<1>3. Walk!Init => Walks!Init
  BY DEF Walk!Init, Walks!Init
<1>4. [Walk!Next]_(Walk!vars) => [Walks!Next]_(Walks!vars)
  BY DEF Walk!Next, Walks!Next, Walk!vars, Walks!vars, Walk!Begin, Walks!Begin, Walk!Insert, Walks!Insert,
         Walk!Show, Walks!Show, Walk!Passed, Walks!Passed, Walk!GiveUp, Walks!GiveUp, Walk!Forget, Walks!Forget
<1>5. Walk!Spec => Walks!Spec
  BY <1>3, <1>4, PTL DEF Walk!Spec, Walks!Spec
<1> QED BY <1>1, <1>2, <1>5, ListImplementsPagedWalk, PTL DEF ImplementsPagedWalk
=============================================================================
