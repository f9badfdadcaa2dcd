----------------------------- MODULE MCRuntimes -----------------------------
(***************************************************************************)
(* Four instances of Runtime, checked in one run: a behaviour is one of    *)
(* instance part.  Two schedulers race in each.                            *)
(***************************************************************************)
EXTENDS Integers, WorkflowGraphs, TLC

CONSTANTS None, s1, s2, e1, e2

VARIABLES lease, ref, read, wf, node, att, retries, timers, cancel, sched, exec, faults,
          part   \* the instance this behaviour is of

vars == <<lease, ref, read, wf, node, att, retries, timers, cancel, sched, exec, faults, part>>

Two == {s1, s2}
Symmetry == Permutations(Two) \cup Permutations({e1, e2})

\* A linear workflow, retried, cancelled, with two faults.
Linear == INSTANCE Runtime WITH
  Scheduler <- Two, Slot <- {e1}, Root <- "fetch",
  Node <- LinearNode, NodeOrder <- LinearOrder, Kind <- LinearKind, Succ <- LinearSucc,
  Branch <- LinearBranch, Joins <- LinearJoins, EffectClass <- LinearPure,
  Registered <- LinearNode, Outcome <- {"SUCCEEDED", "FAILED_RETRYABLE"},
  External <- TRUE, Cancellable <- TRUE, MaxRetries <- 1, MaxFaults <- 2

\* A fan-out of two activities and a join, cancelled, with one fault.
Fanout == INSTANCE Runtime WITH
  Scheduler <- Two, Slot <- {e1, e2}, Root <- "root",
  Node <- FanoutNode, NodeOrder <- FanoutOrder, Kind <- FanoutKind, Succ <- FanoutSucc,
  Branch <- FanoutBranch, Joins <- FanoutJoins, EffectClass <- FanoutPure,
  Registered <- FanoutNode, Outcome <- {"SUCCEEDED", "FAILED_RETRYABLE"},
  External <- TRUE, Cancellable <- TRUE, MaxRetries <- 0, MaxFaults <- 1

\* Activities with effects run inside the scheduler process: unknown outcomes.
InProcess == INSTANCE Runtime WITH
  Scheduler <- Two, Slot <- {}, Root <- "fetch",
  Node <- LinearNode, NodeOrder <- LinearOrder, Kind <- LinearKind, Succ <- LinearSucc,
  Branch <- LinearBranch, Joins <- LinearJoins, EffectClass <- LinearNonCooperating,
  Registered <- LinearNode, Outcome <- {"SUCCEEDED", "FAILED_RETRYABLE", "FAILED_FINAL"},
  External <- FALSE, Cancellable <- FALSE, MaxRetries <- 1, MaxFaults <- 3

\* The deployed runtime given a definition it does not support.
Unsupported == INSTANCE Runtime WITH
  Scheduler <- Two, Slot <- {e1, e2}, Root <- "fetch",
  Node <- LinearNode, NodeOrder <- LinearOrder, Kind <- LinearKind, Succ <- LinearSucc,
  Branch <- LinearBranch, Joins <- LinearJoins, EffectClass <- LinearNonCooperating,
  Registered <- LinearNode, Outcome <- {"SUCCEEDED", "FAILED_RETRYABLE"},
  External <- TRUE, Cancellable <- TRUE, MaxRetries <- 1, MaxFaults <- 2

Init ==
  \/ part = "linear" /\ Linear!Init
  \/ part = "fanout" /\ Fanout!Init
  \/ part = "in process" /\ InProcess!Init
  \/ part = "unsupported" /\ Unsupported!Init

Next ==
  /\ UNCHANGED part
  /\ \/ part = "linear" /\ Linear!Next
     \/ part = "fanout" /\ Fanout!Next
     \/ part = "in process" /\ InProcess!Next
     \/ part = "unsupported" /\ Unsupported!Next

Spec == Init /\ [][Next]_vars

\* P holds in the instance that runs.
Holds(linear, fanout, inProcess, unsupported) ==
  /\ part = "linear" => linear
  /\ part = "fanout" => fanout
  /\ part = "in process" => inProcess
  /\ part = "unsupported" => unsupported
-----------------------------------------------------------------------------
\* An effect whose outcome is unknown is never tried again (TimeoutAttempt,
\* recoverActivity).
UnknownNotRetried ==
  Holds(Linear!UnknownNotRetried, Fanout!UnknownNotRetried,
        InProcess!UnknownNotRetried, Unsupported!UnknownNotRetried)

\* A step decided on an old snapshot is still due at its commit (lockLease and
\* the expected revision).
DecisionsFresh ==
  Holds(Linear!DecisionsFresh, Fanout!DecisionsFresh,
        InProcess!DecisionsFresh, Unsupported!DecisionsFresh)

\* No two worker slots run the same attempt (ClaimAttempt, RuntimeActivity).
OneExecutionPerAttempt ==
  Holds(Linear!OneExecutionPerAttempt, Fanout!OneExecutionPerAttempt,
        InProcess!OneExecutionPerAttempt, Unsupported!OneExecutionPerAttempt)

\* Retryable failures are paid for, and a backoff has its timer (ConsumeResult,
\* ScheduleTimer).
RetriesBounded ==
  Holds(Linear!RetriesBounded, Fanout!RetriesBounded,
        InProcess!RetriesBounded, Unsupported!RetriesBounded)

\* Progress follows the graph, and a join its branches (AdvanceGraph).
GraphOrder ==
  Holds(Linear!GraphOrder, Fanout!GraphOrder, InProcess!GraphOrder, Unsupported!GraphOrder)

\* Every change of the workflow's state is one checkHistory accepts; the rule
\* is the same in every instance.
HistoryAllowed == Linear!HistoryAllowed
=============================================================================
