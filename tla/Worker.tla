------------------------------- MODULE Worker --------------------------------
(***************************************************************************)
(* The executions of the Python workers: a delivery from Kafka becomes a   *)
(* claim, an activity run with heartbeats, and a result posted to the API. *)
(* An execution has one worker_request_id; own says whether that request   *)
(* holds the claim token of attempt a of node n.                           *)
(***************************************************************************)
EXTENDS Scheduler

CONSTANT Slot  \* worker slots

VARIABLE exec  \* the execution of each slot

ExecPC == {"idle", "claiming", "running", "posting"}

Execution == [pc : ExecPC, n : Node \cup {None}, a : Nat, own : BOOLEAN,
              st : {"none", "SUCCEEDED", "FAILED_RETRYABLE", "FAILED_FINAL"}]

IdleSlot == [pc |-> "idle", n |-> None, a |-> 0, own |-> FALSE, st |-> "none"]

WorkerTypeOK == exec \in [Slot -> Execution]

WorkerInit == exec = [e \in Slot |-> IdleSlot]

SetSlot(e, x) == exec' = [exec EXCEPT ![e] = x]

Free(e) == SetSlot(e, IdleSlot)

\* The API answers a delivery with a task only if RuntimeActivity finds the
\* attempt current and unclaimed.  Every delivery of the dispatch event, first
\* or repeated, is an opportunity to take this action.
Deliver(e, n) ==
  /\ External
  /\ exec[e].pc = "idle"
  /\ node[n].cur # 0
  /\ CanClaim(n, node[n].cur)
  /\ SetSlot(e, [IdleSlot EXCEPT !.pc = "claiming", !.n = n, !.a = node[n].cur])
  /\ UNCHANGED storeVars

\* The first call claims; a retry of the same request returns the stored token.
Claims(e) ==
  LET n == exec[e].n
      a == exec[e].a
  IN  /\ exec[e].pc = "claiming"
      /\ IF exec[e].own THEN CanReplayClaim(n, a) /\ UNCHANGED storeVars ELSE ClaimAttempt(n, a)

Claim(e) ==
  /\ Claims(e)
  /\ SetSlot(e, [exec[e] EXCEPT !.pc = "running", !.own = TRUE])

\* The claim commits and its response is lost; RetryingControl sends it again.
ClaimResponseLost(e) ==
  /\ Claims(e)
  /\ SetSlot(e, [exec[e] EXCEPT !.own = TRUE])

ClaimRefused(e) ==
  LET n == exec[e].n
      a == exec[e].a
  IN  /\ exec[e].pc = "claiming"
      /\ IF exec[e].own THEN ~CanReplayClaim(n, a) ELSE ~CanClaim(n, a)
      /\ Free(e)
      /\ UNCHANGED storeVars

\* The heartbeat thread of run_task; a refused heartbeat changes nothing.
Heartbeat(e) ==
  /\ exec[e].pc = "running"
  /\ att[exec[e].n][exec[e].a].expired
  /\ HeartbeatAttempt(exec[e].n, exec[e].a)
  /\ UNCHANGED exec

\* The activity returns or raises.
Finish(e) ==
  /\ exec[e].pc = "running"
  /\ \E st \in Outcome : SetSlot(e, [exec[e] EXCEPT !.pc = "posting", !.st = st])
  /\ UNCHANGED storeVars

\* The receipt, the same receipt again, evidence, or a refusal.
PostResult(e) ==
  LET n == exec[e].n
      a == exec[e].a
  IN  /\ exec[e].pc = "posting"
      /\ \/ RecordResult(n, a, exec[e].st)
         \/ RecordEvidence(n, a)
         \/ /\ ~CanRecordResult(n, a)
            /\ AlreadyRecorded(n, a) \/ ~isLateEvidenceAttempt(n, a)
            /\ UNCHANGED storeVars
      /\ Free(e)

\* The receipt commits, its response is lost and the result is posted again.
ResultResponseLost(e) ==
  /\ exec[e].pc = "posting"
  /\ RecordResult(exec[e].n, exec[e].a, exec[e].st)
  /\ UNCHANGED exec

CrashWorker(e) ==
  /\ exec[e].pc # "idle"
  /\ Free(e)
  /\ UNCHANGED storeVars

WorkerAction(e) == Claim(e) \/ ClaimRefused(e) \/ Finish(e) \/ PostResult(e)
=============================================================================
