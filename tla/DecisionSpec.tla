---------------------------- MODULE DecisionSpec ----------------------------
(***************************************************************************)
(* The documented contract of a policy decision (docs/SYSTEM.md section 5, *)
(* implemented by Evaluator::evaluate): filter by action; any matching     *)
(* deny wins, the highest-priority one being named; otherwise the highest- *)
(* priority matching allow; otherwise the default deny.  One atomic step,  *)
(* no sorting, no loop: module Evaluator refines it.                       *)
(***************************************************************************)
EXTENDS PolicyMatch

CONSTANTS PolicyLists  \* the policy files considered, sequences of Policy

VARIABLES request, policies, decision

NoPolicy  == [named |-> FALSE]
Named(id) == [named |-> TRUE, id |-> id]

Undecided == [effect |-> "none", matched |-> NoPolicy]

\* The best-placed of a non-empty set of positions.
Winner(ps, S) == CHOOSE i \in S : \A j \in S \ {i} : Before(ps, i, j)

DecisionOf(q, ps) ==
    LET denies == Hits(q, ps, "deny")
        allows == Hits(q, ps, "allow")
    IN  IF denies # {} THEN [effect  |-> "deny",
                             matched |-> Named(ps[Winner(ps, denies)].id)]
        ELSE IF allows # {} THEN [effect  |-> "allow",
                                  matched |-> Named(ps[Winner(ps, allows)].id)]
        ELSE [effect |-> "deny", matched |-> NoPolicy]

vars == <<request, policies, decision>>

Init == /\ request \in Requests
        /\ policies \in PolicyLists
        /\ decision = Undecided

Decide == /\ decision = Undecided
          /\ decision' = DecisionOf(request, policies)
          /\ UNCHANGED <<request, policies>>

Spec == Init /\ [][Decide]_vars
============================================================================
