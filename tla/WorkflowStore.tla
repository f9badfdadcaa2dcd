---------------------------- MODULE WorkflowStore ----------------------------
(***************************************************************************)
(* The durable state of one workflow execution and the PostgreSQL          *)
(* transactions of internal/state that change it.  Each transaction is one *)
(* atomic action: it locks the lease row, the workflow row and the rows it *)
(* reads, and holds the locks to the commit (PartitionLease shows that the *)
(* fence survives the moments in between).                                 *)
(*                                                                         *)
(* Three encodings keep counters out of the state.                         *)
(*   - ref: the schedulers whose LeaseRef carries the epoch of the row;    *)
(*   - read: the schedulers whose last read of the workflow row still has  *)
(*     its revision.  A transaction that increments the revision empties   *)
(*     read; the check of expected_revision is s \in read;                 *)
(*   - a deadline or due time is a flag that says whether it has passed.   *)
(***************************************************************************)
EXTENDS Integers, Sequences, FiniteSets

CONSTANTS
  Scheduler,    \* scheduler processes (lease owners)
  None,         \* SQL NULL
  Node,         \* nodes of the definition's graph
  Root,         \* its entry
  Kind,         \* the kind of each node
  Succ,         \* "next" of each node
  Branch,       \* "branches" of each node
  Joins,        \* "join" of each node: a set of at most one node
  EffectClass,  \* the effect class of each activity
  MaxRetries    \* max_retries of the retry policy

ASSUME GraphAssumption ==
  /\ None \notin Scheduler \cup Node
  /\ Root \in Node
  /\ Kind \in [Node -> {"activity", "fanout", "join", "timer", "success", "failure"}]
  /\ Succ \in [Node -> SUBSET Node]
  /\ Branch \in [Node -> SUBSET Node]
  /\ Joins \in [Node -> SUBSET Node]
  /\ EffectClass \in [Node -> {"PURE", "COOPERATING", "NON_COOPERATING"}]
  /\ MaxRetries \in Nat

VARIABLES
  lease,    \* partition_leases: the owner, and whether the lease is unexpired
  ref,      \* schedulers whose LeaseRef has the row's epoch
  read,     \* schedulers whose last read of the workflow has its revision
  wf,       \* workflow_executions.state
  node,     \* node_instances
  att,      \* activity_attempts of each node, by attempt number
  retries,  \* retry_policies.retries_used
  timers,   \* unconsumed timers of each node, and how many of them are due
  cancel    \* cancellation_requests.status of the one request of this model

leaseVars == <<lease, ref>>
dataVars == <<read, wf, node, att, retries, timers, cancel>>
storeVars == <<lease, ref, read, wf, node, att, retries, timers, cancel>>

WorkflowState ==
  {"RUNNABLE", "WAITING_ACTIVITY", "WAITING_TIMER", "PAUSED_UNSUPPORTED_VERSION",
   "RECONCILIATION_REQUIRED", "SUCCEEDED", "FAILED", "CANCELED"}

isTerminalWorkflowState(st) == st \in {"SUCCEEDED", "FAILED", "CANCELED"}

AttemptState ==
  {"DISPATCHABLE", "CLAIMED", "SUCCEEDED", "FAILED_RETRYABLE", "FAILED_FINAL",
   "TIMED_OUT", "CANCELED"}

\* The outcomes a worker reports.
isTerminalAttempt(st) == st \in {"SUCCEEDED", "FAILED_RETRYABLE", "FAILED_FINAL"}

\* unknown: outcome_disposition is OUTCOME_UNKNOWN; expired: heartbeat_deadline
\* has passed; evidence: a row of attempt_result_evidence exists.
Attempt == [state : AttemptState, current : BOOLEAN, unknown : BOOLEAN,
            expired : BOOLEAN, evidence : BOOLEAN]

NewAttempt == [state |-> "DISPATCHABLE", current |-> TRUE, unknown |-> FALSE,
               expired |-> FALSE, evidence |-> FALSE]

\* accepted is the number of the attempt whose result was accepted (0: none),
\* cur is current_attempt_number (0: NULL).
NodeRow == [state : WorkflowState \cup {"ABSENT"}, cur : Nat, accepted : Nat,
            fired : BOOLEAN]

NewNode == [state |-> "RUNNABLE", cur |-> 0, accepted |-> 0, fired |-> FALSE]

StoreTypeOK ==
  /\ lease \in [owner : Scheduler \cup {None}, live : BOOLEAN]
  /\ ref \subseteq Scheduler
  /\ read \subseteq Scheduler
  /\ wf \in WorkflowState
  /\ node \in [Node -> NodeRow]
  /\ att \in [Node -> Seq(Attempt)]
  /\ retries \in [Node -> Nat]
  /\ timers \in [Node -> [pending : Nat, due : Nat]]
  /\ cancel \in {"NONE", "PENDING", "APPLIED"}

\* CreateWorkflow commits the workflow and its initial node.
StoreInit ==
  /\ lease = [owner |-> None, live |-> FALSE]
  /\ ref = {}
  /\ read = {}
  /\ wf = "RUNNABLE"
  /\ node = [n \in Node |-> IF n = Root THEN NewNode ELSE [NewNode EXCEPT !.state = "ABSENT"]]
  /\ att = [n \in Node |-> <<>>]
  /\ retries = [n \in Node |-> 0]
  /\ timers = [n \in Node |-> [pending |-> 0, due |-> 0]]
  /\ cancel = "NONE"

Exists(n) == node[n].state # "ABSENT"

SetNode(n, row) == node' = [node EXCEPT ![n] = row]

SetAttempt(n, a, row) == att' = [att EXCEPT ![n] = [att[n] EXCEPT ![a] = row]]

\* A node that lets its workflow end: terminal and without an attempt.
Settled(n) == isTerminalWorkflowState(node[n].state) /\ node[n].cur = 0

-----------------------------------------------------------------------------
(* The partition lease *)

AcquireLease(s) ==
  /\ ~(lease.live /\ lease.owner # s)
  /\ ref' = IF lease.live THEN ref \cup {s} ELSE {s}
  /\ lease' = [owner |-> s, live |-> TRUE]
  /\ UNCHANGED dataVars

\* The fence of every scheduler transaction.
lockLease(s) == lease.owner = s /\ lease.live /\ s \in ref

ReleaseLease(s) ==
  /\ lockLease(s)
  /\ lease' = [owner |-> None, live |-> FALSE]
  /\ UNCHANGED ref

LeaseExpires ==
  /\ lease.live
  /\ lease' = [lease EXCEPT !.live = FALSE]
  /\ UNCHANGED <<ref, dataVars>>

\* Mutant: neither fence.
Unfenced(s) == TRUE

\* lockLease and the check of the expected revision.
Fenced(s) == lockLease(s) /\ s \in read

-----------------------------------------------------------------------------
(* Transactions of the lease owner *)

legalTransition ==
  [RUNNABLE |-> {"RUNNABLE", "WAITING_ACTIVITY", "WAITING_TIMER",
                 "PAUSED_UNSUPPORTED_VERSION", "SUCCEEDED", "FAILED", "CANCELED"},
   WAITING_ACTIVITY |-> {"WAITING_ACTIVITY", "RECONCILIATION_REQUIRED", "CANCELED"},
   WAITING_TIMER |-> {"RUNNABLE", "CANCELED"},
   PAUSED_UNSUPPORTED_VERSION |-> {"RUNNABLE", "CANCELED"},
   RECONCILIATION_REQUIRED |-> {"RUNNABLE", "CANCELED"},
   SUCCEEDED |-> {}, FAILED |-> {}, CANCELED |-> {}]

\* The timer is consumed only when the workflow itself is WAITING_TIMER.
ConsumesTimer(new) == wf = "WAITING_TIMER" /\ new = "RUNNABLE"

\* The engine's three calls: TIMER_DUE and ACTIVITY_SCHEDULED name a node, which
\* takes the state of the workflow; LOCAL_ACTIVITY_UNSUPPORTED names none.
CanApplyOwnerTransition(s, new, n) ==
  /\ Fenced(s)
  /\ new \in legalTransition[wf]
  /\ n # None => Exists(n)
  /\ ConsumesTimer(new) => n # None /\ timers[n].due > 0

ApplyOwnerTransition(s, new, n) ==
  /\ CanApplyOwnerTransition(s, new, n)
  /\ wf' = new
  /\ IF n = None THEN UNCHANGED node
     ELSE SetNode(n, [node[n] EXCEPT !.state = new,
                        !.fired = @ \/ (ConsumesTimer(new) /\ Kind[n] = "timer")])
  /\ timers' = IF ConsumesTimer(new)
               THEN [timers EXCEPT ![n] = [pending |-> @.pending - 1, due |-> @.due - 1]]
               ELSE timers
  /\ read' = {}
  /\ UNCHANGED <<leaseVars, att, retries, cancel>>

CanCreateAttempt(s, n) ==
  /\ Fenced(s)
  /\ wf = "WAITING_ACTIVITY"
  /\ node[n].state = "WAITING_ACTIVITY"
  /\ node[n].cur = 0

CreateAttempt(s, n) ==
  /\ CanCreateAttempt(s, n)
  /\ att' = [att EXCEPT ![n] = Append(@, NewAttempt)]
  /\ SetNode(n, [node[n] EXCEPT !.cur = Len(att[n]) + 1])
  /\ read' = {}
  /\ UNCHANGED <<leaseVars, wf, retries, timers, cancel>>

\* Mutant: one retry too many.
RetryExhaustedLate(n, st) == st = "FAILED_RETRYABLE" /\ retries[n] > MaxRetries

\* The retry budget overrides the state the caller asked for.
RetryExhausted(n, st) == st = "FAILED_RETRYABLE" /\ retries[n] >= MaxRetries

\* Mutant: a successful result ends the workflow.
StateAfterEnds(n, st) ==
  CASE st = "SUCCEEDED" -> "SUCCEEDED"
    [] st = "FAILED_FINAL" \/ RetryExhausted(n, st) -> "FAILED"
    [] OTHER -> "WAITING_TIMER"

\* The workflow state after a result: the engine asks for RUNNABLE, WAITING_TIMER
\* or FAILED according to the outcome.
StateAfter(n, st) ==
  CASE st = "SUCCEEDED" -> "RUNNABLE"
    [] st = "FAILED_FINAL" \/ RetryExhausted(n, st) -> "FAILED"
    [] OTHER -> "WAITING_TIMER"

CanConsumeResult(s, n, a) ==
  /\ Fenced(s)
  /\ wf \in {"WAITING_ACTIVITY", "RUNNABLE", "WAITING_TIMER"}
  /\ node[n].cur = a
  /\ ~att[n][a].current
  /\ isTerminalAttempt(att[n][a].state)
  /\ isTerminalWorkflowState(StateAfter(n, att[n][a].state)) =>
       \A m \in Node \ {n} : Exists(m) => Settled(m)

\* Mutant: the node takes the state of the workflow on success, too.
ConsumedNodeRunnable(n, a, st) ==
  [node[n] EXCEPT !.state = StateAfter(n, st), !.cur = 0,
                  !.accepted = IF st = "SUCCEEDED" THEN a ELSE @]

ConsumedNode(n, a, st) ==
  IF st = "SUCCEEDED" THEN [node[n] EXCEPT !.state = "SUCCEEDED", !.cur = 0, !.accepted = a]
  ELSE [node[n] EXCEPT !.state = StateAfter(n, st), !.cur = 0]

ConsumeResult(s, n, a) ==
  LET st == att[n][a].state
      new == StateAfter(n, st)
  IN  /\ CanConsumeResult(s, n, a)
      /\ wf' = new
      /\ SetNode(n, ConsumedNode(n, a, st))
      /\ retries' = IF new = "WAITING_TIMER" THEN [retries EXCEPT ![n] = @ + 1] ELSE retries
      /\ timers' = IF new = "WAITING_TIMER"
                   THEN [timers EXCEPT ![n] = [timers[n] EXCEPT !.pending = @ + 1]] ELSE timers
      /\ read' = {}
      /\ UNCHANGED <<leaseVars, att, cancel>>

CanTimeoutAttempt(s, n, a) ==
  /\ Fenced(s)
  /\ ~isTerminalWorkflowState(wf)
  /\ node[n].cur = a
  /\ att[n][a].current
  /\ att[n][a].expired

\* An attempt nobody claimed keeps its number and is dispatched again.
RedispatchUnclaimed(s, n, a) ==
  /\ CanTimeoutAttempt(s, n, a)
  /\ att[n][a].state = "DISPATCHABLE"
  /\ SetAttempt(n, a, [att[n][a] EXCEPT !.expired = FALSE])
  /\ UNCHANGED <<wf, node>>

\* Mutant: the attempt keeps is_current.
TimedOutStillCurrent(r) == [r EXCEPT !.state = "TIMED_OUT"]

TimedOut(r) == [r EXCEPT !.state = "TIMED_OUT", !.current = FALSE]

\* The outcome of a claimed non-cooperating effect is unknown: no replacement.
TimeoutReconciliation(s, n, a) ==
  /\ CanTimeoutAttempt(s, n, a)
  /\ att[n][a].state = "CLAIMED"
  /\ EffectClass[n] = "NON_COOPERATING"
  /\ SetAttempt(n, a, [TimedOut(att[n][a]) EXCEPT !.unknown = TRUE])
  /\ wf' = "RECONCILIATION_REQUIRED"
  /\ UNCHANGED node

\* Mutant: a replacement whatever the effect class.
TimeoutReplacesAll(s, n, a) ==
  /\ CanTimeoutAttempt(s, n, a)
  /\ att[n][a].state = "CLAIMED"
  /\ att' = [att EXCEPT ![n] = Append([att[n] EXCEPT ![a] = TimedOut(att[n][a])], NewAttempt)]
  /\ SetNode(n, [node[n] EXCEPT !.cur = a + 1])
  /\ UNCHANGED wf

TimeoutReplacement(s, n, a) ==
  /\ CanTimeoutAttempt(s, n, a)
  /\ att[n][a].state = "CLAIMED"
  /\ EffectClass[n] # "NON_COOPERATING"
  /\ att' = [att EXCEPT ![n] = Append([att[n] EXCEPT ![a] = TimedOut(att[n][a])], NewAttempt)]
  /\ SetNode(n, [node[n] EXCEPT !.cur = a + 1])
  /\ UNCHANGED wf

TimeoutAttempt(s, n, a) ==
  /\ \/ RedispatchUnclaimed(s, n, a)
     \/ TimeoutReconciliation(s, n, a)
     \/ TimeoutReplacement(s, n, a)
  /\ read' = {}
  /\ UNCHANGED <<leaseVars, retries, timers, cancel>>

CanScheduleTimer(s, n) ==
  /\ Fenced(s)
  /\ wf = "RUNNABLE"
  /\ node[n].state = "RUNNABLE"

ScheduleTimer(s, n) ==
  /\ CanScheduleTimer(s, n)
  /\ wf' = "WAITING_TIMER"
  /\ SetNode(n, [node[n] EXCEPT !.state = "WAITING_TIMER"])
  /\ timers' = [timers EXCEPT ![n] = [timers[n] EXCEPT !.pending = @ + 1]]
  /\ read' = {}
  /\ UNCHANGED <<leaseVars, att, retries, cancel>>

\* The successors the definition declares for a node.
Expected(n) == Succ[n] \cup (IF Kind[n] = "fanout" THEN Branch[n] \cup Joins[n] ELSE {})

\* The state of the workflow after the node: SUCCEEDED without successors, FAILED
\* for a failure node.
FinalState(n, next) ==
  IF Kind[n] = "failure" THEN "FAILED" ELSE IF next = {} THEN "SUCCEEDED" ELSE "RUNNABLE"

FinalNodeState(n) == IF Kind[n] = "failure" THEN "FAILED" ELSE "SUCCEEDED"

CanAdvanceGraph(s, n, next) ==
  /\ Fenced(s)
  /\ FinalState(n, next) \in legalTransition[wf]
  /\ node[n].cur = 0
  /\ IF Kind[n] = "activity" THEN node[n].state = "SUCCEEDED" /\ node[n].accepted # 0
     ELSE node[n].state = "RUNNABLE"
  /\ next = Expected(n)
  /\ next # {} => FinalState(n, next) = "RUNNABLE"
  /\ isTerminalWorkflowState(FinalState(n, next)) =>
       \A m \in Node \ {n} : Exists(m) => Settled(m)

AdvanceGraph(s, n, next) ==
  /\ CanAdvanceGraph(s, n, next)
  /\ wf' = FinalState(n, next)
  /\ node' = [m \in Node |->
                CASE m = n -> [node[m] EXCEPT !.state = FinalNodeState(n)]
                  [] m \in next /\ ~Exists(m) -> NewNode
                  [] OTHER -> node[m]]
  /\ read' = {}
  /\ UNCHANGED <<leaseVars, att, retries, timers, cancel>>

\* Mutant: the attempt keeps is_current.
CanceledStillCurrent(n, r) == IF r.current THEN [r EXCEPT !.state = "CANCELED"] ELSE r

\* cancelWorkflowTx on one node: the current attempt is settled with it.
CanceledAttempt(n, r) ==
  IF r.current
  THEN [r EXCEPT !.state = "CANCELED", !.current = FALSE,
                 !.unknown = (r.state = "CLAIMED" /\ EffectClass[n] # "PURE")]
  ELSE r

CanceledNode(n) == [node[n] EXCEPT !.state = "CANCELED", !.cur = 0]

cancelWorkflowTx ==
  LET live == {n \in Node : Exists(n) /\ ~isTerminalWorkflowState(node[n].state)}
  IN  /\ wf' = "CANCELED"
      /\ node' = [n \in Node |-> IF n \in live THEN CanceledNode(n) ELSE node[n]]
      /\ att' = [n \in Node |->
                   IF n \in live /\ node[n].cur # 0
                   THEN [att[n] EXCEPT ![node[n].cur] = CanceledAttempt(n, @)]
                   ELSE att[n]]
      /\ read' = {}

ApplyCancellationRequest(s) ==
  /\ lockLease(s)
  /\ cancel = "PENDING"
  /\ cancel' = "APPLIED"
  /\ IF isTerminalWorkflowState(wf) THEN UNCHANGED <<wf, node, att, read>> ELSE cancelWorkflowTx
  /\ UNCHANGED <<leaseVars, retries, timers>>

RequestCancellation ==
  /\ cancel = "NONE"
  /\ cancel' = "PENDING"
  /\ UNCHANGED <<leaseVars, read, wf, node, att, retries, timers>>

-----------------------------------------------------------------------------
(* Transactions of workers: no lease, no expected revision, but the claim     *)
(* token of the attempt.  Whether the caller holds the token of attempt a of  *)
(* node n is the caller's state.                                              *)

\* Mutant: an attempt can be claimed twice.
CanClaimAgain(n, a) ==
  /\ wf = "WAITING_ACTIVITY"
  /\ node[n].cur = a
  /\ att[n][a].current

CanClaim(n, a) ==
  /\ wf = "WAITING_ACTIVITY"
  /\ node[n].cur = a
  /\ att[n][a].current
  /\ att[n][a].state = "DISPATCHABLE"

\* A claim does not change the revision.
ClaimAttempt(n, a) ==
  /\ CanClaim(n, a)
  /\ SetAttempt(n, a, [att[n][a] EXCEPT !.state = "CLAIMED", !.expired = FALSE])
  /\ UNCHANGED <<leaseVars, read, wf, node, retries, timers, cancel>>

\* The same worker_request_id again: the stored token is returned.
CanReplayClaim(n, a) ==
  /\ wf = "WAITING_ACTIVITY"
  /\ att[n][a].current
  /\ att[n][a].state = "CLAIMED"

HeartbeatAttempt(n, a) ==
  /\ ~isTerminalWorkflowState(wf)
  /\ node[n].cur = a
  /\ att[n][a].current
  /\ att[n][a].state = "CLAIMED"
  /\ SetAttempt(n, a, [att[n][a] EXCEPT !.expired = FALSE])
  /\ UNCHANGED <<leaseVars, read, wf, node, retries, timers, cancel>>

CanRecordResult(n, a) ==
  /\ ~isTerminalWorkflowState(wf)
  /\ node[n].cur = a
  /\ att[n][a].current
  /\ att[n][a].state = "CLAIMED"

\* The accepted receipt: the attempt ends, but stays the node's current attempt
\* until the lease owner consumes it.
RecordResult(n, a, st) ==
  /\ CanRecordResult(n, a)
  /\ SetAttempt(n, a, [att[n][a] EXCEPT !.state = st, !.current = FALSE])
  /\ read' = {}
  /\ UNCHANGED <<leaseVars, wf, node, retries, timers, cancel>>

\* The same receipt again, or ErrResultConflict.
AlreadyRecorded(n, a) == ~att[n][a].current /\ isTerminalAttempt(att[n][a].state)

isLateEvidenceAttempt(n, a) ==
  /\ att[n][a].unknown
  /\ \/ EffectClass[n] = "NON_COOPERATING" /\ att[n][a].state = "TIMED_OUT"
     \/ EffectClass[n] # "PURE" /\ att[n][a].state = "CANCELED"

\* A result of an attempt whose outcome was declared unknown is kept as evidence.
RecordEvidence(n, a) ==
  /\ ~AlreadyRecorded(n, a)
  /\ isLateEvidenceAttempt(n, a)
  /\ SetAttempt(n, a, [att[n][a] EXCEPT !.evidence = TRUE])
  /\ UNCHANGED <<leaseVars, read, wf, node, retries, timers, cancel>>

-----------------------------------------------------------------------------
(* The database clock *)

DeadlinePasses(n) ==
  LET a == node[n].cur
  IN  /\ a # 0
      /\ att[n][a].current
      /\ ~att[n][a].expired
      /\ SetAttempt(n, a, [att[n][a] EXCEPT !.expired = TRUE])
      /\ UNCHANGED <<leaseVars, read, wf, node, retries, timers, cancel>>

TimerDue(n) ==
  /\ timers[n].due < timers[n].pending
  /\ timers' = [timers EXCEPT ![n] = [timers[n] EXCEPT !.due = @ + 1]]
  /\ UNCHANGED <<leaseVars, read, wf, node, att, retries, cancel>>
=============================================================================
