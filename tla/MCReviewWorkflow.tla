--------------------------- MODULE MCReviewWorkflow ---------------------------
(* Two reviews over one worktree, runtime and ledger.  A candidate changes    *)
(* the code and its test (in one way or another), or also a denied path in a  *)
(* commit that is not made as the task asks.                                  *)
EXTENDS ReviewWorkflow, TLC

CONSTANTS base, good, other, bad

MCPaths == {"code", "test", "harness", "secret"}
MCTree ==
  base :> [code |-> 1, test |-> 0, harness |-> 2, secret |-> 0] @@
  good :> [code |-> 3, test |-> 4, harness |-> 2, secret |-> 0] @@
  other :> [code |-> 6, test |-> 4, harness |-> 2, secret |-> 0] @@
  bad :> [code |-> 3, test |-> 4, harness |-> 5, secret |-> 0]
MCDecisions == [reviewer |-> {"accept"}, adversary |-> {"accept", "medium"}]
\* all as expected, or a test that passes before the change already
MCOutcomes == {[gate |-> "pass", red |-> r, green |-> "pass"] : r \in {"pass", "fail"}}
===============================================================================
