----------------------------- MODULE SlruCache -----------------------------
(***************************************************************************)
(* SlruCache: a map of entries and two lists of keys, Probation and        *)
(* Protected, most recent first.  A mutex makes every operation one step.  *)
(* The iterator an entry keeps is the position of its key in the list its  *)
(* is_protected flag names.                                                *)
(*                                                                         *)
(* A definition placed directly above another under a name that extends    *)
(* its name is a faulty variant of it, used only to show that a property   *)
(* notices the fault.                                                      *)
(***************************************************************************)
EXTENDS Naturals, Sequences

CONSTANTS
  Keys, Values, Absent,
  ProbationCapacity, ProtectedCapacity

ASSUME CapacityAssumption ==
  ProbationCapacity \in Nat \ {0} /\ ProtectedCapacity \in Nat \ {0}
ASSUME ValuesAssumption == Absent \notin Values

VARIABLES
  probation,   \* list of keys
  protected,   \* list of keys
  entries,     \* key -> value (or Absent) and is_protected
  found        \* what the last get returned

cacheVars == <<probation, protected, entries, found>>
cache == <<probation, protected, entries>>

-----------------------------------------------------------------------------
(* std::list: push_front, pop_back and erase at an iterator.               *)

PushFront(k, s) == [j \in 1..Len(s) + 1 |-> IF j = 1 THEN k ELSE s[j - 1]]
PopBack(s) == [j \in 1..Len(s) - 1 |-> s[j]]
EraseAt(s, i) == [j \in 1..Len(s) - 1 |-> IF j < i THEN s[j] ELSE s[j + 1]]
Position(s, k) == CHOOSE i \in 1..Len(s) : s[i] = k
Unlink(s, k) == EraseAt(s, Position(s, k))

None == [value |-> Absent, protected |-> FALSE]
Present(k) == entries[k].value # Absent

State(prob, prot, ent) == [prob |-> prob, prot |-> prot, ent |-> ent]
Becomes(s) == probation' = s.prob /\ protected' = s.prot /\ entries' = s.ent

EvictUnindexed(s) ==
  IF Len(s.prob) <= ProbationCapacity THEN s ELSE State(PopBack(s.prob), s.prot, s.ent)
Evict(s) ==
  IF Len(s.prob) <= ProbationCapacity THEN s
  ELSE State(PopBack(s.prob), s.prot, [s.ent EXCEPT ![s.prob[Len(s.prob)]] = None])

DemoteDropping(s) ==
  IF Len(s.prot) <= ProtectedCapacity THEN s
  ELSE State(s.prob, PopBack(s.prot), [s.ent EXCEPT ![s.prot[Len(s.prot)]] = None])
Demote(s) ==
  IF Len(s.prot) <= ProtectedCapacity THEN s
  ELSE LET k == s.prot[Len(s.prot)] IN
       Evict(State(PushFront(k, s.prob), PopBack(s.prot), [s.ent EXCEPT ![k].protected = FALSE]))

-----------------------------------------------------------------------------
(* The operations.                                                         *)

\* A hit moves to the front of Protected; the entry that overflows from
\* there gets a second chance at the front of Probation.
Touched(k) ==
  IF entries[k].protected
  THEN State(probation, PushFront(k, Unlink(protected, k)), entries)
  ELSE Demote(State(Unlink(probation, k), PushFront(k, protected),
                    [entries EXCEPT ![k].protected = TRUE]))

Get(k) ==
  /\ IF Present(k) THEN Becomes(Touched(k)) ELSE UNCHANGED cache
  /\ found' = entries[k].value

\* An update stays in its list; a new key enters Probation.
Inserted(k, v) ==
  IF Present(k)
  THEN LET ent == [entries EXCEPT ![k].value = v] IN
       IF entries[k].protected
       THEN State(probation, PushFront(k, Unlink(protected, k)), ent)
       ELSE State(PushFront(k, Unlink(probation, k)), protected, ent)
  ELSE Evict(State(PushFront(k, probation), protected,
                   [entries EXCEPT ![k] = [value |-> v, protected |-> FALSE]]))

Put(k, v) == Becomes(Inserted(k, v)) /\ found' = found

Erase(k) ==
  /\ IF ~Present(k) THEN UNCHANGED cache
     ELSE Becomes(IF entries[k].protected
                  THEN State(probation, Unlink(protected, k), [entries EXCEPT ![k] = None])
                  ELSE State(Unlink(probation, k), protected, [entries EXCEPT ![k] = None]))
  /\ found' = found

ClearUnprotected ==
  /\ Becomes(State(<<>>, protected, [k \in Keys |-> IF entries[k].protected THEN entries[k] ELSE None]))
  /\ found' = found
Clear == Becomes(State(<<>>, <<>>, [k \in Keys |-> None])) /\ found' = found

CacheInit ==
  /\ probation = <<>> /\ protected = <<>> /\ entries = [k \in Keys |-> None] /\ found = Absent

CacheNext ==
  \/ \E k \in Keys : Get(k) \/ Erase(k) \/ \E v \in Values : Put(k, v)
  \/ Clear

CacheSpec == CacheInit /\ [][CacheNext]_cacheVars

-----------------------------------------------------------------------------
(* Properties.                                                             *)

\* The map and the two lists describe the same keys: every list element is
\* an entry with the matching flag, every entry is in the list its flag
\* names, and no key is listed twice, so every iterator is valid.  Neither
\* list outgrows its capacity, whatever is promoted and demoted.
ListsMatchEntries ==
  /\ Len(probation) <= ProbationCapacity /\ Len(protected) <= ProtectedCapacity
  /\ \A i \in 1..Len(probation) : Present(probation[i]) /\ ~entries[probation[i]].protected
  /\ \A i \in 1..Len(protected) : Present(protected[i]) /\ entries[protected[i]].protected
  /\ \A k \in Keys : Present(k) =>
       IF entries[k].protected THEN \E i \in 1..Len(protected) : protected[i] = k
                               ELSE \E i \in 1..Len(probation) : probation[i] = k
  /\ \A i, j \in 1..Len(probation) : probation[i] = probation[j] => i = j
  /\ \A i, j \in 1..Len(protected) : protected[i] = protected[j] => i = j

\* A key that was hit is evicted only after it was demoted: no operation on
\* other keys takes it from Protected out of the cache.
HitsSurvive ==
  [][\A k \in Keys :
       /\ Present(k) /\ entries[k].protected
       /\ \E j \in Keys \ {k} : Get(j) \/ Erase(j) \/ \E v \in Values : Put(j, v)
       => Present(k)']_cacheVars

\* The cache is a lossy map: it returns the value put last or nothing.
Lossy == INSTANCE LossyCache WITH store <- [k \in Keys |-> entries[k].value], found <- found
ImplementsLossyCache == Lossy!LossySpec
=============================================================================
