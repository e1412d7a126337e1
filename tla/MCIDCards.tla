----------------------------- MODULE MCIDCards ------------------------------
(***************************************************************************)
(* Instances of IDCards for TLC.                                           *)
(***************************************************************************)
EXTENDS IDCards, TLC

(* The defaults, an institution that approves and renews by itself, and    *)
(* one whose renewals fail because students may not ask for a replacement. *)
MCPolicies ==
  {[approval |-> "yes", renewal |-> "no", requests |-> "yes"],
   [approval |-> "no", renewal |-> "yes", requests |-> "yes"],
   [approval |-> "yes", renewal |-> "yes", requests |-> "no"]}

Keys == Permutations(Workers)
=============================================================================
