----------------------------- MODULE LossyCache -----------------------------
(***************************************************************************)
(* What a cache promises: an entry holds the value that was put last, and  *)
(* one that was just put or found is there.  A step may lose one other     *)
(* entry, never change it or bring one back.                               *)
(***************************************************************************)
CONSTANTS Keys, Values, Absent

VARIABLES
  store,    \* the value of each key, or Absent
  found     \* what the last lookup returned

lvars == <<store, found>>

LossyInit == store = [k \in Keys |-> Absent] /\ found = Absent

\* Every key but those of kept keeps its value or is lost, one at most.
LoseOne(kept) ==
  \E lost \in Keys \ kept : \A j \in Keys \ kept :
    store'[j] = IF j = lost THEN Absent ELSE store[j]
Others(kept) == LoseOne(kept) \/ \A j \in Keys \ kept : store'[j] = store[j]

Get(k) == store' \in [Keys -> Values \cup {Absent}]
          /\ store'[k] = store[k] /\ found' = store[k] /\ Others({k})
Put(k, v) == store' \in [Keys -> Values \cup {Absent}]
             /\ store'[k] = v /\ found' = found /\ Others({k})
Erase(k) == store' = [store EXCEPT ![k] = Absent] /\ found' = found
Clear == store' = [k \in Keys |-> Absent] /\ found' = found

LossyNext ==
  \/ \E k \in Keys : Get(k) \/ Erase(k) \/ \E v \in Values : Put(k, v)
  \/ Clear

LossySpec == LossyInit /\ [][LossyNext]_lvars
=============================================================================
