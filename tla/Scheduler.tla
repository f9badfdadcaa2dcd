------------------------------ MODULE Scheduler ------------------------------
(***************************************************************************)
(* The scheduling passes of internal/engine: Engine.Run acquires the       *)
(* partition lease, then repeats "renew, read, take the first step that is *)
(* due" until nothing is due, and releases the lease.  Every scheduler     *)
(* process runs passes over the same workflow.                             *)
(*                                                                         *)
(* A pass decides on a snapshot and commits later, in another transaction: *)
(* Decide and the step it chose are two actions.  The reads of a decision  *)
(* are one action, because a change between two of them increments the     *)
(* revision and the chosen step then fails on the expected revision, as it *)
(* does when the change comes after the decision.                          *)
(***************************************************************************)
EXTENDS WorkflowStore

CONSTANTS
  External,    \* Engine.ExternalActivities: workers run the activities
  Registered,  \* activities of the runtime's registry
  NodeOrder,   \* the nodes in the order of their identifiers (ListNodes)
  Outcome      \* the outcomes an activity can have

ASSUME SchedulerAssumption ==
  /\ External \in BOOLEAN
  /\ Registered \subseteq Node
  /\ NodeOrder \in Seq(Node)
  /\ \A n \in Node : \E i \in 1 .. Len(NodeOrder) : NodeOrder[i] = n
  /\ Outcome \subseteq {"SUCCEEDED", "FAILED_RETRYABLE", "FAILED_FINAL"}

VARIABLE sched  \* the pass of each scheduler

\* The steps of a pass that are transactions of their own.
StepOp == {"timer", "schedule", "create", "consume", "timeout", "settimer",
           "expand", "next", "final", "claim"}

SchedPC == {"idle", "owned", "cancel", "enter", "loop", "step", "reread",
            "running", "record", "close"}

Pass == [pc : SchedPC, op : StepOp \cup {"none"}, n : Node \cup {None}, a : Nat,
         st : {"none", "SUCCEEDED", "FAILED_RETRYABLE", "FAILED_FINAL"}]

At(pc) == [pc |-> pc, op |-> "none", n |-> None, a |-> 0, st |-> "none"]

SchedTypeOK == sched \in [Scheduler -> Pass]

SchedInit == sched = [s \in Scheduler |-> At("idle")]

SetPass(s, p) == sched' = [sched EXCEPT ![s] = p]

Goto(s, pc) == SetPass(s, At(pc))

-----------------------------------------------------------------------------
(* The beginning and the end of a pass *)

\* Mutant: the scan leaves out workflows that wait for a timer.
RuntimeWorkNoTimer ==
  IF External
  THEN wf \in {"RUNNABLE", "WAITING_ACTIVITY"} \/ cancel = "PENDING"
  ELSE ~isTerminalWorkflowState(wf)

\* RuntimeWork lists the workflow; an in-process caller runs what has not ended.
RuntimeWork ==
  IF External
  THEN wf \in {"RUNNABLE", "WAITING_ACTIVITY", "WAITING_TIMER"} \/ cancel = "PENDING"
  ELSE ~isTerminalWorkflowState(wf)

StartPass(s) ==
  /\ sched[s].pc = "idle"
  /\ RuntimeWork
  /\ AcquireLease(s)
  /\ Goto(s, IF External THEN "owned" ELSE "loop")

\* Mutant: the requests of a workflow that has ended are passed over.
ListUnlessEnded(s) ==
  /\ sched[s].pc = "owned"
  /\ Goto(s, IF cancel = "PENDING" /\ ~isTerminalWorkflowState(wf) THEN "cancel" ELSE "enter")
  /\ UNCHANGED storeVars

\* ApplyRuntimeCancellations reads the pending requests, then applies each.
ListCancellations(s) ==
  /\ sched[s].pc = "owned"
  /\ Goto(s, IF cancel = "PENDING" THEN "cancel" ELSE "enter")
  /\ UNCHANGED storeVars

ApplyCancellation(s) ==
  /\ sched[s].pc = "cancel"
  /\ IF lockLease(s)
     THEN /\ IF cancel = "PENDING" THEN ApplyCancellationRequest(s) ELSE UNCHANGED storeVars
          /\ Goto(s, "enter")
     ELSE UNCHANGED storeVars /\ Goto(s, "close")

\* RuntimeVersion: the local runtime runs registered pure activities only.
Supported == \A n \in Node : Kind[n] = "activity" =>
               n \in Registered /\ EffectClass[n] = "PURE"

Blocked(st) == isTerminalWorkflowState(st)
               \/ st \in {"PAUSED_UNSUPPORTED_VERSION", "RECONCILIATION_REQUIRED"}

EnterPass(s) ==
  /\ sched[s].pc = "enter"
  /\ read' = read \cup {s}
  /\ Goto(s, CASE Blocked(wf) -> "close" [] Supported -> "loop" [] OTHER -> "step")
  /\ UNCHANGED <<leaseVars, wf, node, att, retries, timers, cancel>>

\* Only EnterPass leaves "step" without an operation.
PauseUnsupported(s) ==
  /\ sched[s] = At("step")
  /\ IF CanApplyOwnerTransition(s, "PAUSED_UNSUPPORTED_VERSION", None)
     THEN ApplyOwnerTransition(s, "PAUSED_UNSUPPORTED_VERSION", None)
     ELSE UNCHANGED storeVars
  /\ Goto(s, "close")

\* The deferred cleanup; ReleaseLease is fenced and its error is ignored.
ClosePass(s) ==
  /\ sched[s].pc = "close"
  /\ IF lockLease(s) THEN ReleaseLease(s) ELSE UNCHANGED leaseVars
  /\ Goto(s, "idle")
  /\ UNCHANGED dataVars

-----------------------------------------------------------------------------
(* The step a pass takes next *)

Deps(n) == UNION {Branch[f] : f \in {m \in Node : Kind[m] = "fanout" /\ n \in Joins[m]}}

\* Mutant: one finished branch is enough.
joinReadyAny(n) == \E d \in Deps(n) : node[d].state = "SUCCEEDED"

joinReady(n) == Deps(n) # {} /\ \A d \in Deps(n) : node[d].state = "SUCCEEDED"

\* A WAITING_TIMER node whose earliest unconsumed timer is due.
TimerReady(n) == node[n].state = "WAITING_TIMER" /\ timers[n].due > 0

\* runNode: what a RUNNABLE node does.
RunNode(n) ==
  CASE Kind[n] = "activity" -> {"schedule"}
    [] Kind[n] = "fanout" -> {"expand"}
    [] Kind[n] = "join" -> IF joinReady(n) THEN {"next"} ELSE {}
    [] Kind[n] = "timer" -> IF node[n].fired THEN {"next"} ELSE {"settimer"}
    [] OTHER -> {"final"}

\* Mutant: only successes are consumed.
RecoverSuccesses(r) ==
  CASE ~r.current /\ r.state = "SUCCEEDED" -> {"consume"}
    [] r.state = "DISPATCHABLE" /\ ~External -> {"claim"}
    [] r.state \in {"DISPATCHABLE", "CLAIMED"} /\ r.expired -> {"timeout"}
    [] OTHER -> {}

\* recoverActivity on a node that has an attempt.
RecoverAttempt(r) ==
  CASE ~r.current /\ isTerminalAttempt(r.state) -> {"consume"}
    [] r.state = "DISPATCHABLE" /\ ~External -> {"claim"}
    [] r.state \in {"DISPATCHABLE", "CLAIMED"} /\ r.expired -> {"timeout"}
    [] OTHER -> {}

\* The step due at a node, as a set of at most one operation.
Due(n) ==
  CASE node[n].state = "RUNNABLE" -> RunNode(n)
    [] node[n].state = "WAITING_ACTIVITY" ->
         IF node[n].cur = 0 THEN {"create"} ELSE RecoverAttempt(att[n][node[n].cur])
    \* recoverSucceeded: nothing only if there are successors and all exist
    [] node[n].state = "SUCCEEDED" ->
         IF Succ[n] # {} /\ \A m \in Succ[n] : Exists(m) THEN {} ELSE {"next"}
    [] OTHER -> {}

\* n comes first among the nodes of S.
IsFirst(S, n) ==
  /\ n \in S
  /\ \E i \in DOMAIN NodeOrder :
       NodeOrder[i] = n /\ \A j \in 1 .. i - 1 : NodeOrder[j] \notin S

TimerNodes == {n \in Node : TimerReady(n)}
DueNodes == {n \in Node : Due(n) # {}}

\* advanceDueTimer looks at all nodes first; then the first node with a step wins.
Chosen(n, op) ==
  \/ op = "timer" /\ IsFirst(TimerNodes, n)
  \/ TimerNodes = {} /\ IsFirst(DueNodes, n) /\ op \in Due(n)

NothingDue == TimerNodes = {} /\ DueNodes = {}

\* RenewLease, GetWorkflow, ListNodes and the choice.
Decide(s) ==
  /\ sched[s].pc = "loop"
  /\ lockLease(s)
  /\ read' = read \cup {s}
  /\ \/ (isTerminalWorkflowState(wf) \/ NothingDue) /\ Goto(s, "close")
     \/ /\ ~isTerminalWorkflowState(wf)
        /\ \E n \in Node, op \in StepOp :
             /\ Chosen(n, op)
             /\ SetPass(s, [pc |-> IF op = "consume" THEN "reread" ELSE "step",
                             op |-> op, n |-> n, a |-> node[n].cur, st |-> "none"])
  /\ UNCHANGED <<leaseVars, wf, node, att, retries, timers, cancel>>

\* RenewLease fails: the pass ends.
LostLease(s) ==
  /\ sched[s].pc = "loop"
  /\ ~lockLease(s)
  /\ Goto(s, "close")
  /\ UNCHANGED storeVars

\* GetWorkflow before CreateAttempt in runActivity, and in consumeRecordedResult.
Reread(s) ==
  /\ sched[s].pc = "reread"
  /\ read' = read \cup {s}
  /\ SetPass(s, [sched[s] EXCEPT !.pc = "step"])
  /\ UNCHANGED <<leaseVars, wf, node, att, retries, timers, cancel>>

-----------------------------------------------------------------------------
(* The transaction of a step *)

\* The successors the engine passes to AdvanceGraph.
NextInputs(op, n) ==
  CASE op = "expand" -> Branch[n] \cup Joins[n]
    [] op = "next" -> Succ[n]
    [] OTHER -> {}

CanStep(s, op, n, a) ==
  CASE op = "timer" -> CanApplyOwnerTransition(s, "RUNNABLE", n)
    [] op = "schedule" -> CanApplyOwnerTransition(s, "WAITING_ACTIVITY", n)
    [] op = "create" -> CanCreateAttempt(s, n)
    [] op = "consume" -> CanConsumeResult(s, n, a)
    [] op = "timeout" -> CanTimeoutAttempt(s, n, a)
    [] op = "settimer" -> CanScheduleTimer(s, n)
    [] op = "claim" -> CanClaim(n, a) \/ CanReplayClaim(n, a)
    [] OTHER -> CanAdvanceGraph(s, n, NextInputs(op, n))

\* After ACTIVITY_SCHEDULED the same pass reads the workflow and creates the
\* attempt; an engine that runs activities itself goes on to claim it.
ScheduleActivity(s, n) ==
  /\ ApplyOwnerTransition(s, "WAITING_ACTIVITY", n)
  /\ SetPass(s, [sched[s] EXCEPT !.pc = "reread", !.op = "create"])

StartActivity(s, n) ==
  /\ CreateAttempt(s, n)
  /\ IF External THEN Goto(s, "loop")
     ELSE SetPass(s, [sched[s] EXCEPT !.op = "claim", !.a = Len(att[n]) + 1])

\* The request identifier names the attempt, so a second engine that read the
\* attempt before it was claimed gets the token of the first.  ExpectedAttempt is
\* not set, but an engine with the request of an older attempt is refused all the
\* same: that attempt carries the request and is no longer CLAIMED.
EngineClaim(s, n, a) ==
  /\ IF CanClaim(n, a) THEN ClaimAttempt(n, a) ELSE UNCHANGED storeVars
  /\ SetPass(s, [sched[s] EXCEPT !.pc = "running"])

TakeStep(s) ==
  LET n == sched[s].n
      a == sched[s].a
      op == sched[s].op
  IN  /\ sched[s].pc = "step"
      /\ op # "none"
      /\ CanStep(s, op, n, a)
      /\ \/ op = "timer" /\ ApplyOwnerTransition(s, "RUNNABLE", n) /\ Goto(s, "loop")
         \/ op = "schedule" /\ ScheduleActivity(s, n)
         \/ op = "create" /\ StartActivity(s, n)
         \/ op = "consume" /\ ConsumeResult(s, n, a) /\ Goto(s, "loop")
         \/ op = "timeout" /\ TimeoutAttempt(s, n, a) /\ Goto(s, "loop")
         \/ op = "settimer" /\ ScheduleTimer(s, n) /\ Goto(s, "loop")
         \/ op = "claim" /\ EngineClaim(s, n, a)
         \/ /\ op \in {"expand", "next", "final"}
            /\ AdvanceGraph(s, n, NextInputs(op, n))
            /\ Goto(s, "loop")

\* The transaction returns an error: the pass ends.
StepFails(s) ==
  /\ sched[s].pc = "step"
  /\ sched[s].op # "none"
  /\ ~CanStep(s, sched[s].op, sched[s].n, sched[s].a)
  /\ Goto(s, "close")
  /\ UNCHANGED storeVars

-----------------------------------------------------------------------------
(* Activities run by the engine itself *)

EngineRuns(s) ==
  /\ sched[s].pc = "running"
  /\ \E st \in Outcome : SetPass(s, [sched[s] EXCEPT !.pc = "record", !.st = st])
  /\ UNCHANGED storeVars

\* The receipt is followed by consumeRecordedResult; ResultRecordedAsEvidence is
\* not an error either.  A repeated receipt is an error if its payload differs.
EngineRecords(s) ==
  LET n == sched[s].n
      a == sched[s].a
      consume == SetPass(s, [sched[s] EXCEPT !.pc = "reread", !.op = "consume", !.st = "none"])
  IN  /\ sched[s].pc = "record"
      /\ \/ RecordResult(n, a, sched[s].st) /\ consume
         \/ RecordEvidence(n, a) /\ consume
         \/ /\ AlreadyRecorded(n, a) /\ att[n][a].state = sched[s].st
            /\ consume
            /\ UNCHANGED storeVars
         \/ /\ ~CanRecordResult(n, a) /\ ~isLateEvidenceAttempt(n, a)
            /\ Goto(s, "close")
            /\ UNCHANGED storeVars

-----------------------------------------------------------------------------

\* A call of the pass fails for a reason outside the state: the iteration timeout of
\* ServeWithOptions, a lost connection (before the commit or after it).
PassFails(s) ==
  /\ sched[s].pc \notin {"idle", "close"}
  /\ Goto(s, "close")
  /\ UNCHANGED storeVars

\* The process dies with its pass and its LeaseRef.  It restarts under a new
\* owner identifier: a lease it held belongs to nobody until it expires.
CrashScheduler(s) ==
  /\ sched[s].pc # "idle"
  /\ Goto(s, "idle")
  /\ read' = read \ {s}
  /\ ref' = ref \ {s}
  /\ lease' = IF lease.owner = s THEN [lease EXCEPT !.owner = None] ELSE lease
  /\ UNCHANGED <<wf, node, att, retries, timers, cancel>>

SchedulerAction(s) ==
  \/ StartPass(s) \/ ListCancellations(s) \/ ApplyCancellation(s) \/ EnterPass(s)
  \/ PauseUnsupported(s) \/ Decide(s) \/ LostLease(s) \/ Reread(s) \/ TakeStep(s)
  \/ StepFails(s) \/ EngineRuns(s) \/ EngineRecords(s) \/ ClosePass(s)
=============================================================================
