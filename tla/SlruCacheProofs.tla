-------------------------- MODULE SlruCacheProofs --------------------------
(***************************************************************************)
(* The two lists and the map of the cache stay in step, an entry that was  *)
(* hit is not evicted before it was demoted, and the cache is a lossy map, *)
(* for all keys, values and capacities.                                    *)
(***************************************************************************)
EXTENDS SlruCache, TLAPS

-----------------------------------------------------------------------------
(* Lists.  A list without repetitions is described by its members.         *)

Members(s) == {s[i] : i \in 1..Len(s)}
Distinct(s) == \A i, j \in 1..Len(s) : s[i] = s[j] => i = j

\* A function on 1..n is a sequence of length n.
LEMMA FunctionIsSequence ==
  ASSUME NEW S, NEW n \in Nat, NEW f \in [1..n -> S]
  PROVE  f \in Seq(S) /\ Len(f) = n
  OBVIOUS

\* push_front adds its element.
LEMMA PushFrontFacts ==
  ASSUME NEW S, NEW s \in Seq(S), NEW k \in S
  PROVE  /\ PushFront(k, s) \in Seq(S) /\ Len(PushFront(k, s)) = Len(s) + 1
         /\ PushFront(k, s)[1] = k
         /\ \A i \in 1..Len(s) : PushFront(k, s)[i + 1] = s[i]
         /\ Members(PushFront(k, s)) = Members(s) \cup {k}
<1> DEFINE t == PushFront(k, s)
<1>1. Len(s) \in Nat /\ \A i \in 1..Len(s) : s[i] \in S
  OBVIOUS
<1>2. t \in [1..Len(s) + 1 -> S]
  BY <1>1 DEF PushFront
<1>3. t \in Seq(S) /\ Len(t) = Len(s) + 1
  BY <1>1, <1>2, FunctionIsSequence
<1>4. t[1] = k /\ \A i \in 1..Len(s) : t[i + 1] = s[i]
  BY <1>1 DEF PushFront
<1>5. \A i \in 1..Len(s) + 1 : i # 1 => i - 1 \in 1..Len(s) /\ t[i] = s[i - 1]
  BY <1>1 DEF PushFront
<1> HIDE DEF t
<1>6. Members(t) = Members(s) \cup {k}
  <2>1. ASSUME NEW x \in Members(t) PROVE x \in Members(s) \cup {k}
    BY <1>1, <1>3, <1>4, <1>5 DEF Members
  <2>2. ASSUME NEW x \in Members(s) PROVE x \in Members(t)
    <3>1. PICK i \in 1..Len(s) : x = s[i]
      BY DEF Members
    <3>2. i + 1 \in 1..Len(t) /\ t[i + 1] = x
      BY <1>1, <1>3, <1>4, <3>1
    <3> QED BY <3>2 DEF Members
  <2>3. k \in Members(t)
    BY <1>1, <1>3, <1>4 DEF Members
  <2> QED BY <2>1, <2>2, <2>3
<1> QED BY <1>3, <1>4, <1>6 DEF t

\* push_front of a new element keeps the list distinct.
LEMMA PushFrontDistinct ==
  ASSUME NEW S, NEW s \in Seq(S), NEW k \in S, Distinct(s), k \notin Members(s)
  PROVE  /\ PushFront(k, s) \in Seq(S) /\ Len(PushFront(k, s)) = Len(s) + 1
         /\ PushFront(k, s)[1] = k
         /\ Members(PushFront(k, s)) = Members(s) \cup {k}
         /\ Distinct(PushFront(k, s))
<1> DEFINE t == PushFront(k, s)
<1>a. /\ t \in Seq(S) /\ Len(t) = Len(s) + 1 /\ t[1] = k
      /\ Members(t) = Members(s) \cup {k}
  BY PushFrontFacts
<1>1. Len(s) \in Nat /\ t[1] = k /\ Len(t) = Len(s) + 1
  BY PushFrontFacts
<1>2. \A i \in 1..Len(t) : i # 1 => i - 1 \in 1..Len(s) /\ t[i] = s[i - 1]
  BY <1>1 DEF PushFront
<1>3. \A m \in 1..Len(s) : s[m] # k
  BY DEF Members
<1> HIDE DEF t
<1> SUFFICES ASSUME NEW i \in 1..Len(t), NEW j \in 1..Len(t), t[i] = t[j] PROVE i = j
  BY <1>a DEF Distinct, t
<1>4. CASE i = 1 \/ j = 1
  BY <1>1, <1>2, <1>3, <1>4
<1>5. CASE i # 1 /\ j # 1
  <2>1. i - 1 \in 1..Len(s) /\ j - 1 \in 1..Len(s) /\ s[i - 1] = s[j - 1]
    BY <1>2, <1>5
  <2>2. i - 1 = j - 1
    BY <2>1 DEF Distinct
  <2> QED BY <1>1, <2>2
<1> QED BY <1>4, <1>5

\* pop_back takes the last element out.
LEMMA PopBackFacts ==
  ASSUME NEW S, NEW s \in Seq(S), Len(s) > 0, Distinct(s)
  PROVE  /\ PopBack(s) \in Seq(S) /\ Len(PopBack(s)) = Len(s) - 1
         /\ Distinct(PopBack(s))
         /\ Members(PopBack(s)) = Members(s) \ {s[Len(s)]}
         /\ s[Len(s)] \in Members(s)
<1> DEFINE t == PopBack(s)
<1>1. Len(s) \in Nat /\ \A i \in 1..Len(s) : s[i] \in S
  OBVIOUS
<1>2. t \in [1..Len(s) - 1 -> S] /\ Len(s) - 1 \in Nat
  BY <1>1 DEF PopBack
<1>3. t \in Seq(S) /\ Len(t) = Len(s) - 1
  BY <1>2, FunctionIsSequence
<1>4. \A i \in 1..Len(s) - 1 : t[i] = s[i]
  BY DEF PopBack
<1> HIDE DEF t
<1>5. Distinct(t)
  BY <1>1, <1>3, <1>4 DEF Distinct
<1>6. Members(t) = Members(s) \ {s[Len(s)]}
  <2>1. ASSUME NEW x \in Members(t) PROVE x \in Members(s) \ {s[Len(s)]}
    <3>1. PICK i \in 1..Len(t) : x = t[i]
      BY DEF Members
    <3>2. i \in 1..Len(s) /\ i # Len(s) /\ x = s[i] /\ Len(s) \in 1..Len(s)
      BY <1>1, <1>3, <1>4, <3>1
    <3> QED BY <3>2 DEF Members, Distinct
  <2>2. ASSUME NEW x \in Members(s), x # s[Len(s)] PROVE x \in Members(t)
    <3>1. PICK i \in 1..Len(s) : x = s[i]
      BY DEF Members
    <3>2. i \in 1..Len(t) /\ t[i] = x
      BY <1>1, <1>3, <1>4, <2>2, <3>1
    <3> QED BY <3>2 DEF Members
  <2> QED BY <2>1, <2>2
<1>7. s[Len(s)] \in Members(s)
  BY <1>1 DEF Members
<1> QED BY <1>3, <1>5, <1>6, <1>7 DEF t

\* erase at the iterator of a key takes out this key and no other.
LEMMA RemoveFacts ==
  ASSUME NEW S, NEW s \in Seq(S), Distinct(s), NEW k \in Members(s)
  PROVE  /\ Unlink(s, k) \in Seq(S) /\ Len(Unlink(s, k)) = Len(s) - 1
         /\ Distinct(Unlink(s, k))
         /\ Members(Unlink(s, k)) = Members(s) \ {k}
<1> DEFINE p == Position(s, k)
           t == Unlink(s, k)
<1>1. Len(s) \in Nat /\ \A i \in 1..Len(s) : s[i] \in S
  OBVIOUS
<1>2. p \in 1..Len(s) /\ s[p] = k
  BY DEF Position, Members
<1> HIDE DEF p
<1>3. Len(s) - 1 \in Nat /\ t \in [1..Len(s) - 1 -> S]
  BY <1>1, <1>2 DEF Unlink, EraseAt, p
<1>4. t \in Seq(S) /\ Len(t) = Len(s) - 1
  BY <1>3, FunctionIsSequence
<1>5. \A i \in 1..Len(s) - 1 : t[i] = IF i < p THEN s[i] ELSE s[i + 1]
  BY DEF Unlink, EraseAt, p
<1> HIDE DEF t
<1>6. Distinct(t)
  <2> SUFFICES ASSUME NEW i \in 1..Len(t), NEW j \in 1..Len(t), t[i] = t[j] PROVE i = j
    BY DEF Distinct
  <2> QED BY <1>1, <1>2, <1>4, <1>5 DEF Distinct
<1>7. Members(t) = Members(s) \ {k}
  <2>1. ASSUME NEW x \in Members(t) PROVE x \in Members(s) \ {k}
    <3>1. PICK i \in 1..Len(t) : x = t[i]
      BY DEF Members
    <3>2. \E j \in 1..Len(s) : j # p /\ x = s[j]
      BY <1>1, <1>2, <1>4, <1>5, <3>1
    <3> QED BY <1>2, <3>2 DEF Members, Distinct
  <2>2. ASSUME NEW x \in Members(s), x # k PROVE x \in Members(t)
    <3>1. PICK j \in 1..Len(s) : x = s[j]
      BY DEF Members
    <3>2. \E i \in 1..Len(t) : t[i] = x
      <4>1. CASE j < p
        BY <1>1, <1>2, <1>4, <1>5, <3>1, <4>1
      <4>2. CASE j > p
        <5>1. j - 1 \in 1..Len(t) /\ t[j - 1] = s[j]
          BY <1>1, <1>2, <1>4, <1>5, <4>2
        <5> QED BY <3>1, <5>1
      <4> QED BY <1>1, <1>2, <2>2, <3>1, <4>1, <4>2
    <3> QED BY <3>2 DEF Members
  <2> QED BY <2>1, <2>2
<1> QED BY <1>4, <1>6, <1>7 DEF t

-----------------------------------------------------------------------------
(* The state of the cache as the record the operators work on.             *)

Entry == [value : Values \cup {Absent}, protected : BOOLEAN]
Current == State(probation, protected, entries)

Typed(s) == s.prob \in Seq(Keys) /\ s.prot \in Seq(Keys) /\ s.ent \in [Keys -> Entry]

InProbation(s) == {k \in Keys : s.ent[k].value # Absent /\ ~s.ent[k].protected}
InProtected(s) == {k \in Keys : s.ent[k].value # Absent /\ s.ent[k].protected}

\* Lists and map agree, whatever their lengths.
Matched(s) ==
  /\ Distinct(s.prob) /\ Members(s.prob) = InProbation(s)
  /\ Distinct(s.prot) /\ Members(s.prot) = InProtected(s)

Good(s) == Typed(s) /\ Matched(s)

Fits(s) == Len(s.prob) <= ProbationCapacity /\ Len(s.prot) <= ProtectedCapacity

\* The inductive invariant.
SInv == Good(Current) /\ Fits(Current) /\ found \in Values \cup {Absent}

\* What becomes of the values: nothing, or one key is lost.
SameValues(s, t) == \A j \in Keys : t.ent[j].value = s.ent[j].value
Loses(s, t, lost) == \A j \in Keys : t.ent[j].value = IF j = lost THEN Absent ELSE s.ent[j].value

LEMMA StateFields ==
  ASSUME NEW a, NEW b, NEW c
  PROVE  State(a, b, c).prob = a /\ State(a, b, c).prot = b /\ State(a, b, c).ent = c
BY DEF State

\* An entry without a value has no flag to speak of.
LEMMA NoneFacts == None \in Entry /\ None.value = Absent
BY DEF None, Entry

\* evict: at most one key is lost, the last of Probation, which is not the
\* first of it.
LEMMA EvictFacts ==
  ASSUME NEW s, Good(s), Len(s.prob) <= ProbationCapacity + 1,
         Len(s.prot) <= ProtectedCapacity
  PROVE  /\ Good(Evict(s)) /\ Fits(Evict(s))
         /\ \/ SameValues(s, Evict(s))
            \/ \E lost \in InProbation(s) : lost # s.prob[1] /\ Loses(s, Evict(s), lost)
<1>1. s.prob \in Seq(Keys) /\ s.prot \in Seq(Keys) /\ s.ent \in [Keys -> Entry]
      /\ Len(s.prob) \in Nat /\ Len(s.prot) \in Nat
  BY DEF Good, Typed
<1>2. CASE Len(s.prob) <= ProbationCapacity
  BY <1>2 DEF Evict, Fits, SameValues
<1>3. CASE Len(s.prob) > ProbationCapacity
  <2> DEFINE k == s.prob[Len(s.prob)]
             e == [s.ent EXCEPT ![k] = None]
             t == Evict(s)
  <2>1. Len(s.prob) > 1 /\ Len(s.prob) = ProbationCapacity + 1
    BY <1>1, <1>3, CapacityAssumption
  <2>2. t = State(PopBack(s.prob), s.prot, e)
    BY <1>1, <1>3, CapacityAssumption DEF Evict
  <2>3. t.prob = PopBack(s.prob) /\ t.prot = s.prot /\ t.ent = e
    BY <2>2, StateFields
  <2>4. /\ PopBack(s.prob) \in Seq(Keys) /\ Len(PopBack(s.prob)) = Len(s.prob) - 1
        /\ Distinct(PopBack(s.prob)) /\ Members(PopBack(s.prob)) = Members(s.prob) \ {k}
        /\ k \in Members(s.prob)
    BY <1>1, <2>1, PopBackFacts DEF Good, Matched
  <2>5. k \in InProbation(s) /\ k \in Keys
    BY <2>4 DEF Good, Matched, InProbation
  <2>6. k # s.prob[1]
    BY <1>1, <2>1 DEF Good, Matched, Distinct
  <2> HIDE DEF k
  <2>7. e \in [Keys -> Entry] /\ e[k].value = Absent /\ \A j \in Keys : j # k => e[j] = s.ent[j]
    BY <1>1, <2>5, NoneFacts
  <2> HIDE DEF e, t
  <2>8. InProbation(t) = InProbation(s) \ {k} /\ InProtected(t) = InProtected(s)
    BY <2>3, <2>5, <2>7 DEF InProbation, InProtected
  <2>9. Good(t)
    BY <1>1, <2>3, <2>4, <2>7, <2>8 DEF Good, Typed, Matched
  <2>10. Fits(t)
    BY <2>1, <2>3, <2>4, CapacityAssumption DEF Fits
  <2>11. Loses(s, t, k)
    BY <2>3, <2>7 DEF Loses
  <2> QED BY <2>5, <2>6, <2>9, <2>10, <2>11 DEF t
<1> QED BY <1>1, <1>2, <1>3, CapacityAssumption

\* demote: the last of Protected moves to the front of Probation, and what is
\* lost then is neither it nor anything that is protected.
LEMMA DemoteFacts ==
  ASSUME NEW s, Good(s), Len(s.prob) <= ProbationCapacity,
         Len(s.prot) <= ProtectedCapacity + 1
  PROVE  /\ Good(Demote(s)) /\ Fits(Demote(s))
         /\ \/ SameValues(s, Demote(s))
            \/ \E lost \in InProbation(s) : Loses(s, Demote(s), lost)
<1>1. s.prob \in Seq(Keys) /\ s.prot \in Seq(Keys) /\ s.ent \in [Keys -> Entry]
      /\ Len(s.prob) \in Nat /\ Len(s.prot) \in Nat
  BY DEF Good, Typed
<1>2. CASE Len(s.prot) <= ProtectedCapacity
  BY <1>2 DEF Demote, Fits, SameValues
<1>3. CASE Len(s.prot) > ProtectedCapacity
  <2> DEFINE k == s.prot[Len(s.prot)]
             e == [s.ent EXCEPT ![k].protected = FALSE]
             m == State(PushFront(k, s.prob), PopBack(s.prot), e)
  <2>1. Len(s.prot) > 0 /\ Len(s.prot) = ProtectedCapacity + 1
    BY <1>1, <1>3, CapacityAssumption
  <2>2. Demote(s) = Evict(m)
    BY <1>1, <1>3, CapacityAssumption DEF Demote
  <2>3. m.prob = PushFront(k, s.prob) /\ m.prot = PopBack(s.prot) /\ m.ent = e
    BY StateFields
  <2>4. /\ PopBack(s.prot) \in Seq(Keys) /\ Len(PopBack(s.prot)) = Len(s.prot) - 1
        /\ Distinct(PopBack(s.prot)) /\ Members(PopBack(s.prot)) = Members(s.prot) \ {k}
        /\ k \in Members(s.prot)
    BY <1>1, <2>1, PopBackFacts DEF Good, Matched
  <2>5. k \in InProtected(s) /\ k \in Keys /\ k \notin Members(s.prob) /\ Distinct(s.prob)
    BY <2>4 DEF Good, Matched, InProtected, InProbation
  <2> HIDE DEF k, e, m
  <2>6. /\ PushFront(k, s.prob) \in Seq(Keys) /\ Len(PushFront(k, s.prob)) = Len(s.prob) + 1
        /\ Members(PushFront(k, s.prob)) = Members(s.prob) \cup {k}
        /\ Distinct(PushFront(k, s.prob))
        /\ PushFront(k, s.prob)[1] = k
    BY <1>1, <2>5, PushFrontDistinct
  <2>8. /\ e \in [Keys -> Entry] /\ e[k].value = s.ent[k].value /\ e[k].protected = FALSE
        /\ \A j \in Keys : j # k => e[j] = s.ent[j]
    BY <1>1, <2>5 DEF Entry, e
  <2>9. InProbation(m) = InProbation(s) \cup {k} /\ InProtected(m) = InProtected(s) \ {k}
    BY <2>3, <2>5, <2>8 DEF InProbation, InProtected
  <2>10. Good(m)
    BY <2>3, <2>4, <2>6, <2>8, <2>9 DEF Good, Typed, Matched
  <2>11. Len(m.prob) <= ProbationCapacity + 1 /\ Len(m.prot) <= ProtectedCapacity
    BY <1>1, <2>1, <2>3, <2>4, <2>6, CapacityAssumption
  <2>12. /\ Good(Evict(m)) /\ Fits(Evict(m))
         /\ \/ SameValues(m, Evict(m))
            \/ \E lost \in InProbation(m) : lost # m.prob[1] /\ Loses(m, Evict(m), lost)
    BY <2>10, <2>11, EvictFacts
  <2>13. \A j \in Keys : m.ent[j].value = s.ent[j].value
    BY <2>3, <2>8
  <2>14. SameValues(m, Evict(m)) => SameValues(s, Evict(m))
    BY <2>13 DEF SameValues
  <2>15. ASSUME NEW lost \in InProbation(m), lost # m.prob[1], Loses(m, Evict(m), lost)
         PROVE  lost \in InProbation(s) /\ Loses(s, Evict(m), lost)
    BY <2>3, <2>6, <2>9, <2>13, <2>15 DEF Loses
  <2> QED BY <2>2, <2>12, <2>14, <2>15
<1> QED BY <1>1, <1>2, <1>3, CapacityAssumption

\* A key that moves to the front of its list leaves the list's members.
LEMMA MoveFrontFacts ==
  ASSUME NEW S, NEW s \in Seq(S), NEW k \in S, Distinct(s), k \in Members(s)
  PROVE  /\ PushFront(k, Unlink(s, k)) \in Seq(S)
         /\ Len(PushFront(k, Unlink(s, k))) = Len(s)
         /\ Distinct(PushFront(k, Unlink(s, k)))
         /\ Members(PushFront(k, Unlink(s, k))) = Members(s)
<1> DEFINE r == Unlink(s, k)
<1>1. /\ r \in Seq(S) /\ Len(r) = Len(s) - 1 /\ Distinct(r) /\ Members(r) = Members(s) \ {k}
  BY RemoveFacts
<1> HIDE DEF r
<1>2. k \notin Members(r)
  BY <1>1
<1>3. /\ PushFront(k, r) \in Seq(S) /\ Len(PushFront(k, r)) = Len(r) + 1
      /\ Members(PushFront(k, r)) = Members(r) \cup {k} /\ Distinct(PushFront(k, r))
  BY <1>1, <1>2, PushFrontDistinct
<1>4. Len(s) \in Nat
  OBVIOUS
<1>5. Members(PushFront(k, r)) = Members(s) /\ Len(PushFront(k, r)) = Len(s)
  BY <1>1, <1>3, <1>4
<1> QED BY <1>3, <1>5 DEF r

-----------------------------------------------------------------------------
(* The operations.                                                         *)

\* The invariant in the terms the operations use.
LEMMA CurrentFacts ==
  ASSUME SInv
  PROVE  /\ probation \in Seq(Keys) /\ protected \in Seq(Keys) /\ entries \in [Keys -> Entry]
         /\ Distinct(probation) /\ Members(probation) = InProbation(Current)
         /\ Distinct(protected) /\ Members(protected) = InProtected(Current)
         /\ Len(probation) <= ProbationCapacity /\ Len(protected) <= ProtectedCapacity
         /\ Current.prob = probation /\ Current.prot = protected /\ Current.ent = entries
         /\ Len(probation) \in Nat /\ Len(protected) \in Nat
<1>1. Current.prob = probation /\ Current.prot = protected /\ Current.ent = entries
  BY StateFields DEF Current
<1>2. Typed(Current) /\ Matched(Current) /\ Fits(Current)
  BY DEF SInv, Good
<1> QED BY <1>1, <1>2 DEF Typed, Matched, Fits

\* A hit: the lists match again, the key keeps its value, and at most one
\* other key is lost, one that was not protected.
LEMMA TouchedFacts ==
  ASSUME SInv, NEW k \in Keys, Present(k)
  PROVE  /\ Good(Touched(k)) /\ Fits(Touched(k))
         /\ \/ SameValues(Current, Touched(k))
            \/ \E lost \in InProbation(Current) \ {k} : Loses(Current, Touched(k), lost)
<1> DEFINE t == Touched(k)
<1>1. /\ probation \in Seq(Keys) /\ protected \in Seq(Keys) /\ entries \in [Keys -> Entry]
      /\ Distinct(probation) /\ Members(probation) = InProbation(Current)
      /\ Distinct(protected) /\ Members(protected) = InProtected(Current)
      /\ Len(probation) <= ProbationCapacity /\ Len(protected) <= ProtectedCapacity
      /\ Current.prob = probation /\ Current.prot = protected /\ Current.ent = entries
      /\ Len(probation) \in Nat /\ Len(protected) \in Nat
  BY CurrentFacts
<1>2. CASE entries[k].protected
  <2> DEFINE q == PushFront(k, Unlink(protected, k))
  <2>1. k \in Members(protected)
    BY <1>1, <1>2 DEF InProtected, Present
  <2>2. q \in Seq(Keys) /\ Len(q) = Len(protected) /\ Distinct(q)
        /\ Members(q) = Members(protected)
    BY <1>1, <2>1, MoveFrontFacts
  <2>3. t = State(probation, q, entries)
    BY <1>2 DEF Touched
  <2> HIDE DEF q, t
  <2>4. t.prob = probation /\ t.prot = q /\ t.ent = entries
    BY <2>3, StateFields
  <2>5. InProbation(t) = InProbation(Current) /\ InProtected(t) = InProtected(Current)
    BY <1>1, <2>4 DEF InProbation, InProtected
  <2>6. Good(t) /\ Fits(t)
    BY <1>1, <2>2, <2>4, <2>5 DEF Good, Typed, Matched, Fits
  <2>7. SameValues(Current, t)
    BY <1>1, <2>4 DEF SameValues
  <2> QED BY <2>6, <2>7 DEF t
<1>3. CASE ~entries[k].protected
  <2> DEFINE r == Unlink(probation, k)
             q == PushFront(k, protected)
             e == [entries EXCEPT ![k].protected = TRUE]
             m == State(r, q, e)
  <2>1. k \in Members(probation) /\ k \notin Members(protected)
    BY <1>1, <1>3 DEF InProtected, InProbation, Present
  <2>2. r \in Seq(Keys) /\ Len(r) = Len(probation) - 1 /\ Distinct(r)
        /\ Members(r) = Members(probation) \ {k}
    BY <1>1, <2>1, RemoveFacts
  <2>3. q \in Seq(Keys) /\ Len(q) = Len(protected) + 1
        /\ Members(q) = Members(protected) \cup {k} /\ Distinct(q)
    BY <1>1, <2>1, PushFrontDistinct
  <2>4. t = Demote(m)
    BY <1>3 DEF Touched
  <2>5. m.prob = r /\ m.prot = q /\ m.ent = e
    BY StateFields
  <2>6. /\ e \in [Keys -> Entry] /\ e[k].value = entries[k].value /\ e[k].protected = TRUE
        /\ \A j \in Keys : j # k => e[j] = entries[j]
    BY <1>1 DEF Entry
  <2> HIDE DEF r, q, e, m, t
  <2>7. InProbation(m) = InProbation(Current) \ {k} /\ InProtected(m) = InProtected(Current) \cup {k}
    BY <1>1, <2>1, <2>5, <2>6 DEF InProbation, InProtected, Present
  <2>8. Good(m)
    BY <1>1, <2>2, <2>3, <2>5, <2>6, <2>7 DEF Good, Typed, Matched
  <2>9. Len(m.prob) <= ProbationCapacity /\ Len(m.prot) <= ProtectedCapacity + 1
    BY <1>1, <2>2, <2>3, <2>5, CapacityAssumption
  <2>10. /\ Good(Demote(m)) /\ Fits(Demote(m))
         /\ \/ SameValues(m, Demote(m))
            \/ \E lost \in InProbation(m) : Loses(m, Demote(m), lost)
    BY <2>8, <2>9, DemoteFacts
  <2>11. \A j \in Keys : m.ent[j].value = Current.ent[j].value
    BY <1>1, <2>5, <2>6
  <2>12. SameValues(m, Demote(m)) => SameValues(Current, Demote(m))
    BY <2>11 DEF SameValues
  <2>13. \A lost : Loses(m, Demote(m), lost) => Loses(Current, Demote(m), lost)
    BY <2>11 DEF Loses
  <2> QED BY <2>4, <2>7, <2>10, <2>12, <2>13 DEF t
<1> QED BY <1>2, <1>3

\* An update or an insert: the lists match again, the key has the new value,
\* and at most one other key is lost, one that was not protected.
LEMMA InsertedFacts ==
  ASSUME SInv, NEW k \in Keys, NEW v \in Values
  PROVE  /\ Good(Inserted(k, v)) /\ Fits(Inserted(k, v)) /\ Inserted(k, v).ent[k].value = v
         /\ \/ \A j \in Keys \ {k} : Inserted(k, v).ent[j].value = entries[j].value
            \/ \E lost \in InProbation(Current) \ {k} : \A j \in Keys \ {k} :
                 Inserted(k, v).ent[j].value = IF j = lost THEN Absent ELSE entries[j].value
<1> DEFINE t == Inserted(k, v)
<1>1. /\ probation \in Seq(Keys) /\ protected \in Seq(Keys) /\ entries \in [Keys -> Entry]
      /\ Distinct(probation) /\ Members(probation) = InProbation(Current)
      /\ Distinct(protected) /\ Members(protected) = InProtected(Current)
      /\ Len(probation) <= ProbationCapacity /\ Len(protected) <= ProtectedCapacity
      /\ Current.prob = probation /\ Current.prot = protected /\ Current.ent = entries
      /\ Len(probation) \in Nat /\ Len(protected) \in Nat
  BY CurrentFacts
<1>2. CASE Present(k)
  <2> DEFINE e == [entries EXCEPT ![k].value = v]
             q == PushFront(k, Unlink(protected, k))
             r == PushFront(k, Unlink(probation, k))
  <2>1. /\ e \in [Keys -> Entry] /\ e[k].value = v /\ v # Absent
        /\ e[k].protected = entries[k].protected
        /\ \A j \in Keys : j # k => e[j] = entries[j]
    BY <1>1, ValuesAssumption DEF Entry
  <2>2. t = IF entries[k].protected THEN State(probation, q, e) ELSE State(r, protected, e)
    BY <1>2 DEF Inserted
  <2>3. entries[k].protected =>
          q \in Seq(Keys) /\ Len(q) = Len(protected) /\ Distinct(q) /\ Members(q) = Members(protected)
    <3> SUFFICES ASSUME entries[k].protected
                 PROVE  q \in Seq(Keys) /\ Len(q) = Len(protected) /\ Distinct(q)
                        /\ Members(q) = Members(protected)
      OBVIOUS
    <3>1. k \in Members(protected)
      BY <1>1, <1>2 DEF InProtected, Present
    <3> QED BY <1>1, <3>1, MoveFrontFacts
  <2>4. ~entries[k].protected =>
          r \in Seq(Keys) /\ Len(r) = Len(probation) /\ Distinct(r) /\ Members(r) = Members(probation)
    <3> SUFFICES ASSUME ~entries[k].protected
                 PROVE  r \in Seq(Keys) /\ Len(r) = Len(probation) /\ Distinct(r)
                        /\ Members(r) = Members(probation)
      OBVIOUS
    <3>1. k \in Members(probation)
      BY <1>1, <1>2 DEF InProbation, Present
    <3> QED BY <1>1, <3>1, MoveFrontFacts
  <2> HIDE DEF e, q, r, t
  <2>5. ASSUME NEW s, s.ent = e
        PROVE  InProbation(s) = InProbation(Current) /\ InProtected(s) = InProtected(Current)
    BY <1>1, <1>2, <2>1, <2>5 DEF InProbation, InProtected, Present
  <2>6. CASE entries[k].protected
    <3>1. t.prob = probation /\ t.prot = q /\ t.ent = e
      BY <2>2, <2>6, StateFields
    <3>2. Good(t) /\ Fits(t)
      BY <1>1, <2>1, <2>3, <2>5, <2>6, <3>1 DEF Good, Typed, Matched, Fits
    <3> QED BY <2>1, <3>1, <3>2 DEF t
  <2>7. CASE ~entries[k].protected
    <3>1. t.prob = r /\ t.prot = protected /\ t.ent = e
      BY <2>2, <2>7, StateFields
    <3>2. Good(t) /\ Fits(t)
      BY <1>1, <2>1, <2>4, <2>5, <2>7, <3>1 DEF Good, Typed, Matched, Fits
    <3> QED BY <2>1, <3>1, <3>2 DEF t
  <2> QED BY <2>6, <2>7
<1>3. CASE ~Present(k)
  <2> DEFINE e == [entries EXCEPT ![k] = [value |-> v, protected |-> FALSE]]
             r == PushFront(k, probation)
             m == State(r, protected, e)
  <2>1. /\ e \in [Keys -> Entry] /\ e[k].value = v /\ v # Absent /\ e[k].protected = FALSE
        /\ \A j \in Keys : j # k => e[j] = entries[j]
    BY <1>1, ValuesAssumption DEF Entry
  <2>2. t = Evict(m)
    BY <1>3 DEF Inserted
  <2>3. k \notin Members(probation) /\ k \notin Members(protected)
    BY <1>1, <1>3 DEF InProbation, InProtected, Present
  <2>4. r \in Seq(Keys) /\ Len(r) = Len(probation) + 1 /\ r[1] = k
        /\ Members(r) = Members(probation) \cup {k} /\ Distinct(r)
    BY <1>1, <2>3, PushFrontDistinct
  <2>5. m.prob = r /\ m.prot = protected /\ m.ent = e
    BY StateFields
  <2> HIDE DEF e, r, m, t
  <2>6. InProbation(m) = InProbation(Current) \cup {k} /\ InProtected(m) = InProtected(Current)
    BY <1>1, <1>3, <2>1, <2>5 DEF InProbation, InProtected, Present
  <2>7. Good(m)
    BY <1>1, <2>1, <2>4, <2>5, <2>6 DEF Good, Typed, Matched
  <2>8. Len(m.prob) <= ProbationCapacity + 1 /\ Len(m.prot) <= ProtectedCapacity
    BY <1>1, <2>4, <2>5, CapacityAssumption
  <2>9. /\ Good(Evict(m)) /\ Fits(Evict(m))
        /\ \/ SameValues(m, Evict(m))
           \/ \E lost \in InProbation(m) : lost # m.prob[1] /\ Loses(m, Evict(m), lost)
    BY <2>7, <2>8, EvictFacts
  <2>10. CASE SameValues(m, t)
    <3>1. t.ent[k].value = v /\ \A j \in Keys \ {k} : t.ent[j].value = entries[j].value
      BY <2>1, <2>5, <2>10 DEF SameValues
    <3> QED BY <2>2, <2>9, <3>1 DEF t
  <2>11. ASSUME NEW lost \in InProbation(m), lost # m.prob[1], Loses(m, t, lost)
         PROVE  /\ t.ent[k].value = v /\ lost \in InProbation(Current) \ {k}
                /\ \A j \in Keys \ {k} : t.ent[j].value = IF j = lost THEN Absent ELSE entries[j].value
    <3>1. lost # k /\ lost \in InProbation(Current) \ {k}
      BY <2>4, <2>5, <2>6, <2>11
    <3> QED BY <2>1, <2>5, <2>11, <3>1 DEF Loses
  <2> QED BY <2>2, <2>9, <2>10, <2>11 DEF t
<1> QED BY <1>2, <1>3

\* erase: the key leaves its list and the map, nothing else changes.
Erased(k) ==
  IF entries[k].protected
  THEN State(probation, Unlink(protected, k), [entries EXCEPT ![k] = None])
  ELSE State(Unlink(probation, k), protected, [entries EXCEPT ![k] = None])

LEMMA ErasedFacts ==
  ASSUME SInv, NEW k \in Keys, Present(k)
  PROVE  /\ Good(Erased(k)) /\ Fits(Erased(k))
         /\ Erased(k).ent[k].value = Absent
         /\ \A j \in Keys \ {k} : Erased(k).ent[j] = entries[j]
<1> DEFINE t == Erased(k)
           e == [entries EXCEPT ![k] = None]
           q == Unlink(protected, k)
           r == Unlink(probation, k)
<1>1. /\ probation \in Seq(Keys) /\ protected \in Seq(Keys) /\ entries \in [Keys -> Entry]
      /\ Distinct(probation) /\ Members(probation) = InProbation(Current)
      /\ Distinct(protected) /\ Members(protected) = InProtected(Current)
      /\ Len(probation) <= ProbationCapacity /\ Len(protected) <= ProtectedCapacity
      /\ Current.prob = probation /\ Current.prot = protected /\ Current.ent = entries
      /\ Len(probation) \in Nat /\ Len(protected) \in Nat
  BY CurrentFacts
<1>2. e \in [Keys -> Entry] /\ e[k].value = Absent /\ \A j \in Keys : j # k => e[j] = entries[j]
  BY <1>1, NoneFacts
<1>3. t = IF entries[k].protected THEN State(probation, q, e) ELSE State(r, protected, e)
  BY DEF Erased
<1>4. CASE entries[k].protected
  <2>1. k \in Members(protected) /\ k \notin Members(probation)
    BY <1>1, <1>4 DEF InProtected, InProbation, Present
  <2>2. q \in Seq(Keys) /\ Len(q) = Len(protected) - 1 /\ Distinct(q)
        /\ Members(q) = Members(protected) \ {k}
    BY <1>1, <2>1, RemoveFacts
  <2> HIDE DEF e, q, r, t
  <2>3. t.prob = probation /\ t.prot = q /\ t.ent = e
    BY <1>3, <1>4, StateFields
  <2>4. InProbation(t) = InProbation(Current) /\ InProtected(t) = InProtected(Current) \ {k}
    BY <1>1, <1>2, <1>4, <2>3 DEF InProbation, InProtected
  <2>5. Good(t)
    BY <1>1, <1>2, <2>2, <2>3, <2>4 DEF Good, Typed, Matched
  <2>6. Fits(t)
    BY <1>1, <2>2, <2>3, CapacityAssumption DEF Fits
  <2> QED BY <1>2, <2>3, <2>5, <2>6 DEF t
<1>5. CASE ~entries[k].protected
  <2>1. k \in Members(probation) /\ k \notin Members(protected)
    BY <1>1, <1>5 DEF InProtected, InProbation, Present
  <2>2. r \in Seq(Keys) /\ Len(r) = Len(probation) - 1 /\ Distinct(r)
        /\ Members(r) = Members(probation) \ {k}
    BY <1>1, <2>1, RemoveFacts
  <2> HIDE DEF e, q, r, t
  <2>3. t.prob = r /\ t.prot = protected /\ t.ent = e
    BY <1>3, <1>5, StateFields
  <2>4. InProbation(t) = InProbation(Current) \ {k} /\ InProtected(t) = InProtected(Current)
    BY <1>1, <1>2, <1>5, <2>3 DEF InProbation, InProtected
  <2>5. Good(t)
    BY <1>1, <1>2, <2>2, <2>3, <2>4 DEF Good, Typed, Matched
  <2>6. Fits(t)
    BY <1>1, <2>2, <2>3, CapacityAssumption DEF Fits
  <2> QED BY <1>2, <2>3, <2>5, <2>6 DEF t
<1> QED BY <1>4, <1>5

\* clear, and the start: both lists empty, no entry.
LEMMA EmptyFacts ==
  ASSUME NEW s, s.prob = <<>>, s.prot = <<>>, s.ent = [k \in Keys |-> None]
  PROVE  Good(s) /\ Fits(s) /\ \A k \in Keys : s.ent[k].value = Absent
<1>1. <<>> \in Seq(Keys) /\ Len(<<>>) = 0
  OBVIOUS
<1>2. s.ent \in [Keys -> Entry] /\ \A k \in Keys : s.ent[k].value = Absent
  BY NoneFacts
<1>3. InProbation(s) = {} /\ InProtected(s) = {}
  BY <1>2 DEF InProbation, InProtected
<1>4. Members(<<>>) = {} /\ Distinct(<<>>)
  BY <1>1 DEF Members, Distinct
<1>5. Good(s)
  BY <1>1, <1>2, <1>3, <1>4 DEF Good, Typed, Matched
<1>6. Fits(s)
  BY <1>1, CapacityAssumption DEF Fits
<1> QED BY <1>2, <1>5, <1>6

-----------------------------------------------------------------------------
(* What each action does, in one place: the invariant holds afterwards,    *)
(* and the values of the map change as the lossy cache allows.             *)

LEMMA BecomesCurrent ==
  ASSUME NEW STATE s, Becomes(s), Good(s), Fits(s)
  PROVE  Good(Current)' /\ Fits(Current)' /\ entries' = s.ent
<1>1. probation' = s.prob /\ protected' = s.prot /\ entries' = s.ent
  BY DEF Becomes
<1>2. Current' = State(s.prob, s.prot, s.ent)
  BY <1>1 DEF Current
<1>3. (Current').prob = s.prob /\ (Current').prot = s.prot /\ (Current').ent = s.ent
  BY <1>2, StateFields
<1>4. Good(Current')
  BY <1>3 DEF Good, Typed, Matched, InProbation, InProtected
<1>5. Fits(Current')
  BY <1>3 DEF Fits
<1> QED BY <1>1, <1>4, <1>5

LEMMA GetFacts ==
  ASSUME SInv, NEW k \in Keys, Get(k)
  PROVE  /\ SInv' /\ found' = entries[k].value /\ entries'[k].value = entries[k].value
         /\ \/ \A j \in Keys : entries'[j].value = entries[j].value
            \/ \E lost \in InProbation(Current) \ {k} : \A j \in Keys :
                 entries'[j].value = IF j = lost THEN Absent ELSE entries[j].value
<1>1. entries \in [Keys -> Entry] /\ Current.ent = entries
  BY CurrentFacts
<1>2. found' = entries[k].value /\ found' \in Values \cup {Absent}
  BY <1>1 DEF Get, Entry
<1>3. CASE Present(k)
  <2>1. Becomes(Touched(k))
    BY <1>3 DEF Get
  <2>2. /\ Good(Touched(k)) /\ Fits(Touched(k))
        /\ \/ SameValues(Current, Touched(k))
           \/ \E lost \in InProbation(Current) \ {k} : Loses(Current, Touched(k), lost)
    BY <1>3, TouchedFacts
  <2>3. Good(Current)' /\ Fits(Current)' /\ entries' = Touched(k).ent
    BY <2>1, <2>2, BecomesCurrent
  <2>4. SInv'
    BY <1>2, <2>3 DEF SInv
  <2>5. SameValues(Current, Touched(k)) => \A j \in Keys : entries'[j].value = entries[j].value
    BY <1>1, <2>3 DEF SameValues
  <2>6. ASSUME NEW lost, Loses(Current, Touched(k), lost)
        PROVE  \A j \in Keys : entries'[j].value = IF j = lost THEN Absent ELSE entries[j].value
    BY <1>1, <2>3, <2>6 DEF Loses
  <2>7. CASE SameValues(Current, Touched(k))
    BY <1>2, <2>4, <2>5, <2>7
  <2>8. ASSUME NEW lost \in InProbation(Current) \ {k}, Loses(Current, Touched(k), lost)
        PROVE  /\ entries'[k].value = entries[k].value
               /\ \A j \in Keys : entries'[j].value = IF j = lost THEN Absent ELSE entries[j].value
    BY <2>6, <2>8
  <2> QED BY <1>2, <2>2, <2>4, <2>7, <2>8
<1>4. CASE ~Present(k)
  <2>1. probation' = probation /\ protected' = protected /\ entries' = entries
    BY <1>4 DEF Get, cache
  <2>2. Current' = Current
    BY <2>1 DEF Current
  <2>3. SInv'
    BY <1>2, <2>1, <2>2 DEF SInv, Good, Fits, Typed, Matched, InProbation, InProtected
  <2> QED BY <1>2, <2>1, <2>3
<1> QED BY <1>3, <1>4

LEMMA PutFacts ==
  ASSUME SInv, NEW k \in Keys, NEW v \in Values, Put(k, v)
  PROVE  /\ SInv' /\ found' = found /\ entries'[k].value = v
         /\ \/ \A j \in Keys \ {k} : entries'[j].value = entries[j].value
            \/ \E lost \in InProbation(Current) \ {k} : \A j \in Keys \ {k} :
                 entries'[j].value = IF j = lost THEN Absent ELSE entries[j].value
<1>1. Becomes(Inserted(k, v)) /\ found' = found
  BY DEF Put
<1>2. /\ Good(Inserted(k, v)) /\ Fits(Inserted(k, v)) /\ Inserted(k, v).ent[k].value = v
      /\ \/ \A j \in Keys \ {k} : Inserted(k, v).ent[j].value = entries[j].value
         \/ \E lost \in InProbation(Current) \ {k} : \A j \in Keys \ {k} :
              Inserted(k, v).ent[j].value = IF j = lost THEN Absent ELSE entries[j].value
  BY InsertedFacts
<1>3. Good(Current)' /\ Fits(Current)' /\ entries' = Inserted(k, v).ent
  BY <1>1, <1>2, BecomesCurrent
<1>4. SInv'
  BY <1>1, <1>3 DEF SInv
<1> QED BY <1>1, <1>2, <1>3, <1>4

LEMMA EraseFacts ==
  ASSUME SInv, NEW k \in Keys, Erase(k)
  PROVE  /\ SInv' /\ found' = found /\ entries'[k].value = Absent
         /\ \A j \in Keys \ {k} : entries'[j].value = entries[j].value
<1>1. found' = found
  BY DEF Erase
<1>2. CASE Present(k)
  <2>1. Becomes(Erased(k))
    BY <1>2 DEF Erase, Erased
  <2>2. /\ Good(Erased(k)) /\ Fits(Erased(k)) /\ Erased(k).ent[k].value = Absent
        /\ \A j \in Keys \ {k} : Erased(k).ent[j] = entries[j]
    BY <1>2, ErasedFacts
  <2>3. Good(Current)' /\ Fits(Current)' /\ entries' = Erased(k).ent
    BY <2>1, <2>2, BecomesCurrent
  <2> QED BY <1>1, <2>2, <2>3 DEF SInv
<1>3. CASE ~Present(k)
  <2>1. probation' = probation /\ protected' = protected /\ entries' = entries
    BY <1>3 DEF Erase, cache
  <2>2. Current' = Current
    BY <2>1 DEF Current
  <2>3. SInv'
    BY <1>1, <2>1, <2>2 DEF SInv, Good, Fits, Typed, Matched, InProbation, InProtected
  <2> QED BY <1>1, <1>3, <2>1, <2>3 DEF Present
<1> QED BY <1>2, <1>3

LEMMA ClearFacts ==
  ASSUME SInv, Clear
  PROVE  SInv' /\ found' = found /\ \A k \in Keys : entries'[k].value = Absent
<1> DEFINE s == State(<<>>, <<>>, [k \in Keys |-> None])
<1>1. Becomes(s) /\ found' = found
  BY DEF Clear
<1>2. Good(s) /\ Fits(s) /\ \A k \in Keys : s.ent[k].value = Absent
  BY EmptyFacts, StateFields
<1> HIDE DEF s
<1>3. Good(Current)' /\ Fits(Current)' /\ entries' = s.ent
  BY <1>1, <1>2, BecomesCurrent
<1> QED BY <1>1, <1>2, <1>3 DEF SInv

-----------------------------------------------------------------------------
(* The theorems.                                                           *)

LEMMA InitSInv == CacheInit => SInv
<1> SUFFICES ASSUME CacheInit PROVE SInv
  OBVIOUS
<1>1. Current.prob = <<>> /\ Current.prot = <<>> /\ Current.ent = [k \in Keys |-> None]
  BY StateFields DEF CacheInit, Current
<1>2. Good(Current) /\ Fits(Current)
  BY <1>1, EmptyFacts
<1> QED BY <1>2 DEF SInv, CacheInit

LEMMA NextSInv ==
  ASSUME SInv, [CacheNext]_cacheVars
  PROVE  SInv'
<1>1. ASSUME NEW k \in Keys, Get(k) PROVE SInv'
  BY <1>1, GetFacts
<1>2. ASSUME NEW k \in Keys, Erase(k) PROVE SInv'
  BY <1>2, EraseFacts
<1>3. ASSUME NEW k \in Keys, NEW v \in Values, Put(k, v) PROVE SInv'
  BY <1>3, PutFacts
<1>4. CASE Clear
  BY <1>4, ClearFacts
<1>5. CASE UNCHANGED cacheVars
  <2>1. probation' = probation /\ protected' = protected /\ entries' = entries /\ found' = found
    BY <1>5 DEF cacheVars
  <2>2. Current' = Current
    BY <2>1 DEF Current
  <2> QED BY <2>1, <2>2 DEF SInv, Good, Fits, Typed, Matched, InProbation, InProtected
<1> QED BY <1>1, <1>2, <1>3, <1>4, <1>5 DEF CacheNext

\* The two lists and the map describe the same cache after every operation.
THEOREM ListsInductive == CacheSpec => []SInv
<1>1. CacheInit => SInv
  BY InitSInv
<1>2. SInv /\ [CacheNext]_cacheVars => SInv'
  BY NextSInv
<1> QED BY <1>1, <1>2, PTL DEF CacheSpec

LEMMA SInvLists == SInv => ListsMatchEntries
<1> SUFFICES ASSUME SInv PROVE ListsMatchEntries
  OBVIOUS
<1>1. /\ probation \in Seq(Keys) /\ protected \in Seq(Keys) /\ entries \in [Keys -> Entry]
      /\ Distinct(probation) /\ Members(probation) = InProbation(Current)
      /\ Distinct(protected) /\ Members(protected) = InProtected(Current)
      /\ Len(probation) <= ProbationCapacity /\ Len(protected) <= ProtectedCapacity
      /\ Current.ent = entries
  BY CurrentFacts
<1>2. \A i \in 1..Len(probation) : Present(probation[i]) /\ ~entries[probation[i]].protected
  BY <1>1 DEF Members, InProbation, Present
<1>3. \A i \in 1..Len(protected) : Present(protected[i]) /\ entries[protected[i]].protected
  BY <1>1 DEF Members, InProtected, Present
<1>4. ASSUME NEW k \in Keys, Present(k)
      PROVE  IF entries[k].protected THEN \E i \in 1..Len(protected) : protected[i] = k
                                     ELSE \E i \in 1..Len(probation) : probation[i] = k
  <2>1. CASE entries[k].protected
    <3>1. k \in Members(protected)
      BY <1>1, <1>4, <2>1 DEF InProtected, Present
    <3> QED BY <2>1, <3>1 DEF Members
  <2>2. CASE ~entries[k].protected
    <3>1. k \in Members(probation)
      BY <1>1, <1>4, <2>2 DEF InProbation, Present
    <3> QED BY <2>2, <3>1 DEF Members
  <2> QED BY <2>1, <2>2
<1> QED BY <1>1, <1>2, <1>3, <1>4 DEF ListsMatchEntries, Distinct

\* Every list element is an entry with the matching flag, every entry is in
\* the list its flag names, no key is listed twice and no list outgrows its
\* capacity, after any sequence of get, put, erase and clear, for all keys,
\* values and capacities: the iterators of the entries are valid.
THEOREM ListsAlwaysMatch == CacheSpec => []ListsMatchEntries
BY ListsInductive, SInvLists, PTL

LEMMA StepKeepsHits ==
  ASSUME SInv, NEW k \in Keys, Present(k), entries[k].protected,
         NEW j \in Keys \ {k}, Get(j) \/ Erase(j) \/ \E v \in Values : Put(j, v)
  PROVE  Present(k)'
<1>1. k \notin InProbation(Current)
  BY CurrentFacts DEF InProbation
<1>2. entries'[k].value = entries[k].value
  <2>1. CASE Get(j)
    BY <1>1, <2>1, GetFacts
  <2>2. CASE Erase(j)
    BY <2>2, EraseFacts
  <2>3. ASSUME NEW v \in Values, Put(j, v) PROVE entries'[k].value = entries[k].value
    BY <1>1, <2>3, PutFacts
  <2> QED BY <2>1, <2>2, <2>3
<1> QED BY <1>2 DEF Present

\* An entry that was hit leaves the cache only after it was demoted: no get,
\* put or erase of another key takes it from Protected out of the map.
THEOREM HitsAlwaysSurvive == CacheSpec => HitsSurvive
<1>1. SInv /\ [CacheNext]_cacheVars =>
        [\A k \in Keys :
          /\ Present(k) /\ entries[k].protected
          /\ \E j \in Keys \ {k} : Get(j) \/ Erase(j) \/ \E v \in Values : Put(j, v)
          => Present(k)']_cacheVars
  BY StepKeepsHits
<1> QED BY <1>1, ListsInductive, PTL DEF CacheSpec, HitsSurvive

-----------------------------------------------------------------------------
(* Refinement: the values of the map are a lossy cache.                    *)

ValueOf == [k \in Keys |-> entries[k].value]

LEMMA StoreFacts ==
  ASSUME SInv
  PROVE  ValueOf \in [Keys -> Values \cup {Absent}] /\ \A k \in Keys : ValueOf[k] = entries[k].value
BY CurrentFacts DEF ValueOf, Entry

LEMMA StepImplements ==
  ASSUME SInv, SInv', [CacheNext]_cacheVars
  PROVE  [Lossy!LossyNext]_(Lossy!lvars)
<1>1. entries' \in [Keys -> Entry]
  BY DEF SInv, Good, Typed, Current, State
<1>2. ValueOf' \in [Keys -> Values \cup {Absent}]
  BY <1>1 DEF ValueOf, Entry
<1>3. \A k \in Keys : ValueOf[k] = entries[k].value
  BY DEF ValueOf
<1>4. \A k \in Keys : (ValueOf')[k] = entries'[k].value
  BY DEF ValueOf
<1>5. InProbation(Current) \subseteq Keys
  BY DEF InProbation
<1>6. ASSUME NEW k \in Keys, Get(k) PROVE Lossy!Get(k)
  <2>1. /\ found' = entries[k].value /\ entries'[k].value = entries[k].value
        /\ \/ \A j \in Keys : entries'[j].value = entries[j].value
           \/ \E lost \in InProbation(Current) \ {k} : \A j \in Keys :
                entries'[j].value = IF j = lost THEN Absent ELSE entries[j].value
    BY <1>6, GetFacts
  <2>2. \/ \A j \in Keys \ {k} : (ValueOf')[j] = ValueOf[j]
        \/ \E lost \in Keys \ {k} : \A j \in Keys \ {k} :
             (ValueOf')[j] = IF j = lost THEN Absent ELSE ValueOf[j]
    BY <1>3, <1>4, <1>5, <2>1
  <2>3. (ValueOf')[k] = ValueOf[k] /\ found' = ValueOf[k]
    BY <1>3, <1>4, <2>1
  <2> QED BY <1>2, <2>2, <2>3 DEF ValueOf, Lossy!Get, Lossy!Others, Lossy!LoseOne
<1>7. ASSUME NEW k \in Keys, NEW v \in Values, Put(k, v) PROVE Lossy!Put(k, v)
  <2>1. /\ found' = found /\ entries'[k].value = v
        /\ \/ \A j \in Keys \ {k} : entries'[j].value = entries[j].value
           \/ \E lost \in InProbation(Current) \ {k} : \A j \in Keys \ {k} :
                entries'[j].value = IF j = lost THEN Absent ELSE entries[j].value
    BY <1>7, PutFacts
  <2>2. \/ \A j \in Keys \ {k} : (ValueOf')[j] = ValueOf[j]
        \/ \E lost \in Keys \ {k} : \A j \in Keys \ {k} :
             (ValueOf')[j] = IF j = lost THEN Absent ELSE ValueOf[j]
    BY <1>3, <1>4, <1>5, <2>1
  <2>3. (ValueOf')[k] = v /\ found' = found
    BY <1>4, <2>1
  <2> QED BY <1>2, <2>2, <2>3 DEF ValueOf, Lossy!Put, Lossy!Others, Lossy!LoseOne
<1>8. ASSUME NEW k \in Keys, Erase(k) PROVE Lossy!Erase(k)
  <2>1. /\ found' = found /\ entries'[k].value = Absent
        /\ \A j \in Keys \ {k} : entries'[j].value = entries[j].value
    BY <1>8, EraseFacts
  <2>2. ValueOf' = [ValueOf EXCEPT ![k] = Absent]
    BY <2>1 DEF ValueOf
  <2> QED BY <2>1, <2>2 DEF ValueOf, Lossy!Erase
<1>9. ASSUME Clear PROVE Lossy!Clear
  <2>1. found' = found /\ \A k \in Keys : entries'[k].value = Absent
    BY <1>9, ClearFacts
  <2>2. ValueOf' = [k \in Keys |-> Absent]
    BY <2>1 DEF ValueOf
  <2> QED BY <2>1, <2>2 DEF ValueOf, Lossy!Clear
<1>10. CASE UNCHANGED cacheVars
  BY <1>10 DEF cacheVars, Lossy!lvars
<1>11. CacheNext => Lossy!LossyNext
  BY <1>6, <1>7, <1>8, <1>9 DEF CacheNext, Lossy!LossyNext
<1> QED BY <1>10, <1>11

\* The two-segment cache is a lossy map for all keys, values and capacities:
\* get returns the value that was put last or nothing, put stores, and no
\* operation changes or revives another entry or loses more than one.
THEOREM SlruIsLossy == CacheSpec => ImplementsLossyCache
<1>1. CacheInit => Lossy!LossyInit
  BY DEF CacheInit, Lossy!LossyInit, None
<1>2. SInv /\ SInv' /\ [CacheNext]_cacheVars => [Lossy!LossyNext]_(Lossy!lvars)
  BY StepImplements
<1> QED BY <1>1, <1>2, ListsInductive, PTL DEF CacheSpec, ImplementsLossyCache, Lossy!LossySpec
=============================================================================
