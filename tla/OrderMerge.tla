------------------------------- MODULE OrderMerge -------------------------------
(***************************************************************************)
(* mergeOrder (internal/reconcile/merge.go) on orders: slide_order of a    *)
(* deck, or the children of an HTML element.  Two writers start from       *)
(* "base"; what must be true of the order they are merged into.            *)
(***************************************************************************)
EXTENDS ReconcileOps

CONSTANTS Bases,   \* the common ancestors considered: sequences without repetition
          Lists    \* the orders a writer may have: sequences without repetition

NoRepetition(s) == s \in Seq(ToSet(s)) /\ IsInjective(s)

ASSUME OrdersAssumption == \A s \in Bases \cup Lists : NoRepetition(s)

\* The sets of keys that base and ours have, in the same order.
InSameOrder(base, ours) ==
  {K \in SUBSET (ToSet(base) \cap ToSet(ours)) : Only(base, K) = Only(ours, K)}

--------------------------------------------------------------------------------
(***************************************************************************)
(* "Reapply the minimum incoming moves" (merge.go:312): the keys left in   *)
(* place are a largest set that base and ours order alike.                 *)
(***************************************************************************)
FewestMoves(base, ours) ==
  LET stable == StableKeys(base, ours)
  IN  /\ stable \in InSameOrder(base, ours)
      /\ \A K \in InSameOrder(base, ours) : Cardinality(K) <= Cardinality(stable)

(***************************************************************************)
(* "... that would undo independent moves" (merge.go:313): keys ours did   *)
(* not move keep the order theirs gave them.                               *)
(***************************************************************************)
TheirMovesSurvive(base, ours, theirs, result) ==
  LET untouched == (StableKeys(base, ours) \cup (ToSet(theirs) \ ToSet(ours)))
                     \cap ToSet(result)
  IN  Only(result, untouched) = Only(theirs, untouched)

(***************************************************************************)
(* Every key ours moved or inserted ends right behind the key it follows   *)
(* in ours, or behind the nearest earlier one that is still there.         *)
(***************************************************************************)
OurMovesSurvive(base, ours, theirs, result) ==
  ours # base =>
    \A i \in DOMAIN ours :
      ours[i] \notin StableKeys(base, ours) =>
        LET before == Only(SubSeq(ours, 1, i - 1), ToSet(result))
            at == Position(result, ours[i])
        IN  IF before = <<>> THEN at = 1 ELSE at > 1 /\ result[at - 1] = Last(before)

(***************************************************************************)
(* No key is lost, repeated or invented: exactly what one side has and the *)
(* other did not delete, plus what ours moved although theirs deleted it.  *)
(***************************************************************************)
KeysAreExact(base, ours, theirs, result) ==
  /\ IsInjective(result)
  /\ ToSet(result) = (ToSet(theirs) \ (ToSet(base) \ ToSet(ours)))
                       \cup (ToSet(ours) \ StableKeys(base, ours))
================================================================================
