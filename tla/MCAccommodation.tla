--------------------------- MODULE MCAccommodation ---------------------------
(* Instances of Accommodation for TLC.                                      *)
EXTENDS Accommodation, TLC

Setting(required, partial, test) == [required |-> required, partial |-> partial, test |-> test]

(* Partial payment through the live gateway, full payment with a test key. *)
MCPolicies == {Setting(TRUE, TRUE, FALSE), Setting(TRUE, FALSE, TRUE)}

(* Workers overlap on one booking; the second, which the first must not    *)
(* pay for, is handled by one at a time.  With a test key, where only the  *)
(* gateway differs, there is one allocation.                               *)
Bounds ==
  /\ Cardinality({p \in Apps : apps[p] # NoApp}) > 1
       => Cardinality({w \in Workers : mem[w] # Idle}) <= 1
  /\ policy.test => Cardinality({a \in Allocations : allocs[a] # NoAllocation}) <= 1

Keys == Permutations(Apps) \cup Permutations(Allocations) \cup Permutations(Fees)
          \cup Permutations(Refs) \cup Permutations(Workers)
=============================================================================
