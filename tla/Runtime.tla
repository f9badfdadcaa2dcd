------------------------------ MODULE Runtime --------------------------------
(***************************************************************************)
(* One workflow execution of the running system: scheduler processes,      *)
(* worker slots, the database clock, clients that ask for cancellation,    *)
(* and faults.  External = TRUE is the deployed runtime (cmd/runtime with  *)
(* Kafka workers); External = FALSE is the engine that runs activities in  *)
(* its own process (the readiness check, the benchmarks and the tests).    *)
(***************************************************************************)
EXTENDS Worker

CONSTANTS
  MaxFaults,    \* bound on crashes, failed calls, lost responses and early expiries
  Cancellable   \* whether a client asks for cancellation

ASSUME RuntimeAssumption == MaxFaults \in Nat /\ Cancellable \in BOOLEAN

VARIABLE faults

vars == <<lease, ref, read, wf, node, att, retries, timers, cancel, sched, exec, faults>>

TypeOK ==
  /\ StoreTypeOK
  /\ SchedTypeOK
  /\ WorkerTypeOK
  /\ faults \in 0 .. MaxFaults

Init == StoreInit /\ SchedInit /\ WorkerInit /\ faults = 0

\* A step that happens only MaxFaults times in a behaviour.
Fault == faults < MaxFaults /\ faults' = faults + 1

SchedulerStep(s) == SchedulerAction(s) /\ UNCHANGED <<exec, faults>>

WorkerStep(e) == WorkerAction(e) /\ UNCHANGED <<sched, faults>>

HeartbeatStep(e) == Heartbeat(e) /\ UNCHANGED <<sched, faults>>

DeliverStep(e) == (\E n \in Node : Deliver(e, n)) /\ UNCHANGED <<sched, faults>>

TimerDueStep(n) == TimerDue(n) /\ UNCHANGED <<sched, exec, faults>>

\* A lease of a live pass expires only if the process is delayed past the TTL,
\* which is a fault; a lease of a dead process expires by itself.
LeaseExpiresStep ==
  /\ LeaseExpires
  /\ lease.owner # None
  /\ Fault
  /\ UNCHANGED <<sched, exec>>

AbandonedLeaseExpires ==
  /\ LeaseExpires
  /\ lease.owner = None
  /\ UNCHANGED <<sched, exec, faults>>

\* Somebody runs attempt a of node n and sends its heartbeats.
Attended(n, a) ==
  \/ \E e \in Slot : exec[e].own /\ exec[e].n = n /\ exec[e].a = a
  \/ \E s \in Scheduler : /\ sched[s].pc \in {"running", "record"}
                          /\ sched[s].n = n /\ sched[s].a = a

DeadlinePassesStep(n) ==
  /\ DeadlinePasses(n)
  /\ ~Attended(n, node[n].cur)
  /\ UNCHANGED <<sched, exec, faults>>

\* The heartbeats of a running attempt are delayed past its deadline.
HeartbeatsDelayed(n) ==
  /\ DeadlinePasses(n)
  /\ Attended(n, node[n].cur)
  /\ Fault
  /\ UNCHANGED <<sched, exec>>

CancellationStep ==
  /\ Cancellable
  /\ RequestCancellation
  /\ UNCHANGED <<sched, exec, faults>>

CrashSchedulerStep(s) == CrashScheduler(s) /\ Fault /\ UNCHANGED exec

PassFailsStep(s) == PassFails(s) /\ Fault /\ UNCHANGED exec

\* A worker dies, or the response of one of its calls is lost.
WorkerFault(e) ==
  /\ CrashWorker(e) \/ ClaimResponseLost(e) \/ ResultResponseLost(e)
  /\ Fault
  /\ UNCHANGED sched

\* A workflow that has ended, or waits for an operator, with nothing running.
Quiescent ==
  /\ Blocked(wf)
  /\ cancel # "PENDING"
  /\ \A s \in Scheduler : sched[s].pc = "idle"
  /\ \A e \in Slot : exec[e].pc = "idle"

Done == Quiescent /\ UNCHANGED vars

Next ==
  \/ \E s \in Scheduler : SchedulerStep(s) \/ CrashSchedulerStep(s) \/ PassFailsStep(s)
  \/ \E e \in Slot : WorkerStep(e) \/ HeartbeatStep(e) \/ DeliverStep(e) \/ WorkerFault(e)
  \/ \E n \in Node : TimerDueStep(n) \/ DeadlinePassesStep(n) \/ HeartbeatsDelayed(n)
  \/ LeaseExpiresStep
  \/ AbandonedLeaseExpires
  \/ CancellationStep
  \/ Done

Spec == Init /\ [][Next]_vars

\* Each live process keeps running, Kafka and the outbox relay keep delivering
\* unclaimed attempts, and time passes.  Nothing forces a fault or a client.
Fairness ==
  /\ \A s \in Scheduler : WF_vars(SchedulerStep(s))
  /\ \A e \in Slot : WF_vars(WorkerStep(e))
  /\ WF_vars(\E e \in Slot : DeliverStep(e))
  /\ \A n \in Node : WF_vars(TimerDueStep(n)) /\ WF_vars(DeadlinePassesStep(n))
  /\ WF_vars(AbandonedLeaseExpires)

FairSpec == Spec /\ Fairness
-----------------------------------------------------------------------------
(* Safety *)

\* An attempt that can still be claimed, run or timed out is the newest attempt of
\* its node, the node points to it, and it has no outcome: at most one attempt per
\* node is current (CreateAttempt, TimeoutAttempt, RecordResultReceipt, cancel).
CurrentIsNewest ==
  \A n \in Node : \A a \in DOMAIN att[n] : att[n][a].current =>
    /\ a = Len(att[n])
    /\ node[n].cur = a
    /\ node[n].state = "WAITING_ACTIVITY"
    /\ att[n][a].state \in {"DISPATCHABLE", "CLAIMED"}

\* A recorded success is never run again: no later attempt of the node exists,
\* whatever crashes between the receipt (RecordResultReceipt) and its consumption
\* (ConsumeResult), and the result a node accepted is that of its last attempt.
SuccessNotRepeated ==
  \A n \in Node :
    /\ \A a \in DOMAIN att[n] : att[n][a].state = "SUCCEEDED" => a = Len(att[n])
    /\ node[n].accepted # 0 =>
         /\ node[n].accepted = Len(att[n])
         /\ att[n][node[n].accepted].state = "SUCCEEDED"

\* An attempt of a non-cooperating effect that timed out after its claim, or whose
\* outcome was declared unknown, is never followed by another attempt
\* (TimeoutAttempt, recoverActivity).
UnknownNotRetried ==
  \A n \in Node : \A a \in DOMAIN att[n] :
    /\ EffectClass[n] = "NON_COOPERATING"
    /\ att[n][a].unknown \/ att[n][a].state = "TIMED_OUT"
    => a = Len(att[n])

\* A workflow ends only when all its nodes have ended, with no attempt left that a
\* worker could claim or complete (AdvanceGraph, ConsumeResult, cancelWorkflowTx).
EndedIsQuiet ==
  isTerminalWorkflowState(wf) =>
    \A n \in Node : Exists(n) => Settled(n) /\ \A a \in DOMAIN att[n] : ~att[n][a].current

\* The fences do their work: a step decided on a snapshot and committed later, after
\* takeovers, claims, results and cancellations, is still the step that the state at
\* its commit calls for (lockLease and the expected revision).
DecisionsFresh ==
  \A s \in Scheduler :
    LET p == sched[s]
    IN  p.pc = "step" /\ p.op \notin {"none", "claim"} /\ CanStep(s, p.op, p.n, p.a) =>
          IF p.op = "timer" THEN TimerReady(p.n) ELSE p.op \in Due(p.n)

\* A claim token has one holder: no two worker slots run the same attempt, however
\* deliveries are repeated and claims retried (ClaimAttempt, RuntimeActivity).
OneExecutionPerAttempt ==
  \A d, e \in Slot :
    exec[d].own /\ exec[e].own /\ exec[d].n = exec[e].n /\ exec[d].a = exec[e].a => d = e

\* Retryable failures are paid for: each one but the last has used up a retry of
\* the policy, so at most MaxRetries + 1 are ever recorded, and a node in backoff, or
\* a timer node, has a timer that will wake it (ConsumeResult, ScheduleTimer).
RetriesBounded ==
  \A n \in Node :
    LET failed == {a \in DOMAIN att[n] : att[n][a].state = "FAILED_RETRYABLE"}
    IN  /\ retries[n] <= MaxRetries
        /\ Cardinality(failed) <= retries[n] + 1
        /\ node[n].state \in {"RUNNABLE", "WAITING_TIMER"} => Cardinality(failed) = retries[n]
        /\ node[n].state = "WAITING_TIMER" => timers[n].pending > 0

\* Progress follows the graph: a node exists only after a node that declares it has
\* succeeded, and a join has run only after all its branches (AdvanceGraph).
GraphOrder ==
  \A n \in Node :
    /\ Exists(n) /\ n # Root =>
         \E m \in Node : n \in Expected(m) /\ node[m].state = "SUCCEEDED"
    /\ Kind[n] = "join" /\ node[n].state = "SUCCEEDED" =>
         \A d \in Deps(n) : node[d].state = "SUCCEEDED"

\* A terminal workflow is never reopened: only evidence is added to it, and its
\* cancellation request is answered.
EndIsFinal ==
  [][isTerminalWorkflowState(wf) =>
       /\ UNCHANGED <<wf, node, retries>>
       /\ \A n \in Node : \A a \in DOMAIN att[n] :
            [att'[n][a] EXCEPT !.evidence = att[n][a].evidence] = att[n][a]]_vars

\* The transitions that checkHistory of internal/invariants accepts, between the
\* states of this model (no approvals, rejections or abandonment); it also accepts
\* a transition from a state to itself.
allowedTransition ==
  [RUNNABLE |-> {"WAITING_ACTIVITY", "WAITING_TIMER", "PAUSED_UNSUPPORTED_VERSION",
                 "SUCCEEDED", "FAILED", "CANCELED"},
   WAITING_ACTIVITY |-> {"RUNNABLE", "WAITING_TIMER", "RECONCILIATION_REQUIRED",
                         "FAILED", "CANCELED"},
   WAITING_TIMER |-> {"RUNNABLE", "CANCELED"},
   PAUSED_UNSUPPORTED_VERSION |-> {"RUNNABLE", "CANCELED"},
   RECONCILIATION_REQUIRED |-> {"RUNNABLE", "CANCELED"},
   SUCCEEDED |-> {}, FAILED |-> {}, CANCELED |-> {}]

\* Every change of the workflow's state, by any of the transactions and not only
\* those that call legalTransition, is one that the invariant checker accepts.
HistoryAllowed == [][wf' # wf => wf' \in allowedTransition[wf]]_vars

-----------------------------------------------------------------------------
(* Liveness *)

\* The repair scan strands no work: a workflow ends, or stops for an operator.
NotStranded == <>Blocked(wf)

\* A recorded result is eventually consumed, or the workflow ends without it.
ResultsConsumed ==
  \A n \in Node :
    (node[n].cur # 0 /\ AlreadyRecorded(n, node[n].cur)) ~> (node[n].cur = 0)

\* A cancellation request is eventually applied, whatever the state of the workflow.
CancellationsApplied == (cancel = "PENDING") ~> (cancel = "APPLIED")
=============================================================================
