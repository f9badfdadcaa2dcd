--------------------------- MODULE WorkflowGraphs ---------------------------
(***************************************************************************)
(* The workflow definitions that the instances of Runtime run.             *)
(***************************************************************************)

\* fetch -> wait -> done: an activity, a timer and the end.
LinearNode == {"fetch", "wait", "done"}
LinearOrder == <<"done", "fetch", "wait">>
LinearKind == [fetch |-> "activity", wait |-> "timer", done |-> "success"]
LinearSucc == [fetch |-> {"wait"}, wait |-> {"done"}, done |-> {}]
LinearBranch == [n \in LinearNode |-> {}]
LinearJoins == LinearBranch
LinearPure == [n \in LinearNode |-> "PURE"]
LinearNonCooperating == [n \in LinearNode |-> "NON_COOPERATING"]

\* root -> left, right -> join -> done: the graph of TestM1InterpreterFanoutJoin.
FanoutNode == {"root", "left", "right", "join", "done"}
FanoutOrder == <<"done", "join", "left", "right", "root">>
FanoutKind == [root |-> "fanout", left |-> "activity", right |-> "activity",
               join |-> "join", done |-> "success"]
FanoutSucc == [root |-> {}, left |-> {"join"}, right |-> {"join"}, join |-> {"done"},
               done |-> {}]
FanoutBranch == [n \in FanoutNode |-> IF n = "root" THEN {"left", "right"} ELSE {}]
FanoutJoins == [n \in FanoutNode |-> IF n = "root" THEN {"join"} ELSE {}]
FanoutPure == [n \in FanoutNode |-> "PURE"]
FanoutNonCooperating == [n \in FanoutNode |-> "NON_COOPERATING"]

\* The identifiers of cmd/dur050-fixture sort in another order: the branches, the
\* join, the fan-out node "root", and last the end, "succeeded".
FanoutFixtureOrder == <<"left", "right", "join", "root", "done">>
=============================================================================================================================================
