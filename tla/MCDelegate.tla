----------------------------- MODULE MCDelegate -----------------------------
(***************************************************************************)
(* Two methods, both classes, two calls.  A first array has room for four  *)
(* methods: lists of five fill it and grow it.  Three lists are the current *)
(* one, a retired one that a call may be using, and the one a change       *)
(* builds.                                                                 *)
(***************************************************************************)
EXTENDS Delegate, TLC

CONSTANTS m1, m2, l1, l2, l3, a1, a2, a3

BothClasses == {"_Delegate", "_Delegate_S"}
TwoCalls    == {1, 2}
SomeArgs    == {<<m1>>, <<m1, m2>>}

(* Lists of more than three methods are only looked at further while they  *)
(* are alone.                                                              *)
ShortLists ==
  \A l \in Lists : lists[l].size <= IF retired = {} /\ \A c \in Calls : call[c] = Idle
                                THEN MaxMethods ELSE 3

(* Addresses are only compared. *)
Addresses == Permutations({l1, l2, l3}) \cup Permutations({a1, a2, a3})
=============================================================================
