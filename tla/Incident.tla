------------------------------ MODULE Incident ------------------------------
(* One incident run of InvestigationWorkflow over its SQLite store and the   *)
(* bounded MCP tools. Every DurableStore method is one commit, so a command  *)
(* (start, investigate, approve, reject, resume) is a chain of commits that  *)
(* a crash can cut anywhere; the tool-call budget lives in memory.           *)
EXTENDS Integers, Sequences

CONSTANTS
  Proposals,    \* remediation proposals, told apart by their argument hash
  MaxToolCalls, \* BoundedMCPServer.max_calls
  MaxRounds,    \* bound: investigations begun
  MaxCrashes    \* bound: crashes

None == "none"

VARIABLES
  row,       \* the incidents row: state, revision, proposal, receipt
  approval,  \* the approvals row: decision or None
  grant,     \* the approval_grants row or NoGrant
  effects,   \* keys of the effects table
  recorded,  \* tool calls checkpointed in the timeline
  calls,     \* tool calls counted by the MCP server of this process
  pc,        \* next commit of the running command
  ctx,       \* locals of the running command: proposal, interrupt
  round,     \* ghost: investigations begun
  approved,  \* ghost: <<proposal, round>> a person approved
  applied,   \* ghost: proposal -> times the remediation was carried out
  crashes

vars == <<row, approval, grant, effects, recorded, calls, pc, ctx, round, approved, applied, crashes>>
store == <<approval, grant, effects, recorded>>
ghost == <<round, approved, applied, crashes>>

Terminal == {"COMPLETED", "ABSTAINED", "REJECTED"}
NoGrant == [proposal |-> None, revision |-> 0, state |-> None]
NoContext == [proposal |-> None, interrupt |-> FALSE]

Init ==
  /\ row = [state |-> None, revision |-> 0, proposal |-> None, receipt |-> FALSE]
  /\ approval = None /\ grant = NoGrant /\ effects = {}
  /\ recorded = [logs |-> 0, metrics |-> 0, search |-> <<>>] /\ calls = 0
  /\ pc = "idle" /\ ctx = NoContext
  /\ round = 0 /\ approved = {} /\ applied = [p \in Proposals |-> 0] /\ crashes = 0

-----------------------------------------------------------------------------
(* DurableStore.event and update; a command goes on at the label next.       *)
Go(next) == pc' = next /\ ctx' = IF next = "idle" THEN NoContext ELSE ctx
Event(next) ==
  /\ row' = [row EXCEPT !.revision = @ + 1] /\ Go(next)
  /\ UNCHANGED <<store, calls, ghost>>
Update(state, next) ==
  /\ row' = [row EXCEPT !.state = state] /\ Go(next)
  /\ UNCHANGED <<store, calls, ghost>>
(* An exception, or a return without a commit. *)
Return == Go("idle") /\ UNCHANGED <<row, store, calls, ghost>>
At(label) == pc = label

Start ==
  \/ At("idle") /\ row.state = None /\ Update("ACCEPTED", "accepted")
  \/ At("idle") /\ row.state # None /\ row.revision = 0
     /\ pc' = "accepted" /\ UNCHANGED <<row, store, calls, ctx, ghost>>
  \/ At("accepted") /\ Event("idle")

-----------------------------------------------------------------------------
Begin(interrupt) ==
  /\ round < MaxRounds /\ round' = round + 1
  /\ row' = [row EXCEPT !.state = "INVESTIGATING"]
  /\ pc' = "started" /\ ctx' = [NoContext EXCEPT !.interrupt = interrupt]
  /\ UNCHANGED <<store, calls, approved, applied, crashes>>

Investigate ==
  /\ At("idle") /\ row.state \notin Terminal \cup {None}
  /\ \E interrupt \in BOOLEAN : Begin(interrupt)
InvestigationStarted == At("started") /\ Event("logs")

Affordable == calls < MaxToolCalls
(* A bounded MCP call: refused over budget, possibly lost after the server   *)
(* counted it, otherwise checkpointed in the timeline by the event.          *)
Call(record, next) ==
  \/ ~Affordable /\ Return
  \/ Affordable /\ calls' = calls + 1 /\ Go("idle") /\ UNCHANGED <<row, store, ghost>>
  \/ /\ Affordable /\ calls' = calls + 1
     /\ recorded' = record /\ row' = [row EXCEPT !.revision = @ + 1] /\ Go(next)
     /\ UNCHANGED <<approval, grant, effects, ghost>>
Replay(next) == Go(next) /\ UNCHANGED <<row, store, calls, ghost>>

Checkpointed(n) == n > 0

QueryLogs ==
  /\ At("logs")
  /\ \/ Checkpointed(recorded.logs) /\ Replay("metrics")
     \/ /\ ~Checkpointed(recorded.logs)
        /\ Call([recorded EXCEPT !.logs = @ + 1], IF ctx.interrupt THEN "interrupt" ELSE "metrics")
Interrupt ==
  \/ At("interrupt") /\ Update("INTERRUPTED", "interrupted")
  \/ At("interrupted") /\ Event("idle")
QueryMetrics ==
  /\ At("metrics")
  /\ \/ Checkpointed(recorded.metrics) /\ Replay("search")
     \/ ~Checkpointed(recorded.metrics) /\ Call([recorded EXCEPT !.metrics = @ + 1], "search")
Search(next) ==
  \E sufficient \in BOOLEAN : Call([recorded EXCEPT !.search = Append(@, sufficient)], next)
SearchRunbooks ==
  /\ At("search")
  /\ \/ Checkpointed(Len(recorded.search)) /\ Replay("judge")
     \/ ~Checkpointed(Len(recorded.search)) /\ Search("judge")
(* The last search decides whether a second round opens. *)
OpenRound ==
  /\ At("judge")
  /\ \/ recorded.search[Len(recorded.search)] /\ Replay("diagnose")
     \/ /\ ~recorded.search[Len(recorded.search)]
        /\ Event(IF Len(recorded.search) < 2 THEN "again" ELSE "diagnose")
SearchAgain == At("again") /\ Search("diagnose")

(* The provider raises, cites evidence no tool returned, or decides.         *)
Diagnose ==
  /\ At("diagnose")
  /\ \/ Return
     \/ Event("idle")
     \/ \E p \in Proposals \cup {None} :
          /\ row' = [row EXCEPT !.revision = @ + 1]
          /\ pc' = "usage" /\ ctx' = [ctx EXCEPT !.proposal = p]
          /\ UNCHANGED <<store, calls, ghost>>
ModelUsage == At("usage") /\ Event(IF ctx.proposal = None THEN "abstain" ELSE "propose")
Abstain ==
  \/ At("abstain") /\ Update("ABSTAINED", "abstained")
  \/ At("abstained") /\ Event("idle")
(* An uncited proposal is an event and an exception, a sensitive one only an *)
(* exception; otherwise the run waits for a person.                          *)
Propose ==
  \/ At("propose") /\ (Event("idle") \/ Return)
  \/ /\ At("propose")
     /\ row' = [row EXCEPT !.state = "WAITING_APPROVAL", !.proposal = ctx.proposal]
     /\ Go("requested") /\ UNCHANGED <<store, calls, ghost>>
  \/ At("requested") /\ Event("idle")

-----------------------------------------------------------------------------
Decide(decision, next) ==
  /\ At("idle") /\ row.state = "WAITING_APPROVAL"
  /\ approval' = decision
  /\ pc' = next /\ ctx' = [NoContext EXCEPT !.proposal = row.proposal]
  /\ UNCHANGED <<row, grant, effects, recorded, calls, round, applied, crashes>>

Approve == Decide("APPROVED", "granted") /\ approved' = approved \cup {<<row.proposal, round>>}
ApprovalGranted == At("granted") /\ Event("grant")
CreateGrant ==
  /\ At("grant")
  /\ \/ approval # "APPROVED" /\ Return
     \/ /\ approval = "APPROVED"
        /\ grant' = [proposal |-> ctx.proposal, revision |-> row.revision, state |-> "GRANTED"]
        /\ Go("resume") /\ UNCHANGED <<row, approval, effects, recorded, calls, ghost>>
Reject ==
  \/ Decide("REJECTED", "reject") /\ UNCHANGED approved
  \/ At("reject") /\ Update("REJECTED", "rejected")
  \/ At("rejected") /\ Event("idle")

(* resume, called by a client or at the end of approve. *)
Resume ==
  /\ At("idle") \/ At("resume")
  /\ \/ row.state = "INTERRUPTED" /\ Begin(FALSE)
     \/ /\ row.state # "INTERRUPTED" /\ At("resume")
        /\ (row.state # "WAITING_APPROVAL" \/ approval # "APPROVED") /\ Return
     \/ /\ row.state = "WAITING_APPROVAL" /\ approval = "APPROVED"
        /\ row' = [row EXCEPT !.state = "DISPATCHED"]
        /\ pc' = "dispatched" /\ ctx' = [NoContext EXCEPT !.proposal = row.proposal]
        /\ UNCHANGED <<store, calls, ghost>>
EffectDispatched == At("dispatched") /\ Event("apply")

(* SandboxEffect.apply: a matching grant, the receipt of an earlier use, or a *)
(* first use at the grant's revision or the one after.                       *)
Matches == grant.state # None /\ grant.proposal = ctx.proposal
Fresh_Any == TRUE
Fresh == row.revision \in {grant.revision, grant.revision + 1}
Existing_Never == FALSE
Existing == ctx.proposal \in effects
Apply ==
  /\ At("apply")
  /\ \/ ~Matches /\ Return
     \/ Matches /\ Existing /\ Replay("verify")
     \/ Matches /\ ~Existing /\ ~Fresh /\ Return
     \/ /\ Matches /\ ~Existing /\ Fresh
        /\ effects' = effects \cup {ctx.proposal} /\ grant' = [grant EXCEPT !.state = "DISPATCHED"]
        /\ Go("status") /\ UNCHANGED <<row, approval, recorded, calls, ghost>>
(* set_remediation_status after the commit *)
SetRemediationStatus ==
  /\ At("status") /\ applied' = [applied EXCEPT ![ctx.proposal] = @ + 1]
  /\ Go("verify") /\ UNCHANGED <<row, store, calls, round, approved, crashes>>
WithReceipt(state, next) ==
  /\ row' = [row EXCEPT !.state = state, !.receipt = TRUE] /\ Go(next)
  /\ UNCHANGED <<store, calls, ghost>>
Verify ==
  \/ At("verify") /\ WithReceipt("VERIFYING", "verified")
  \/ At("verified") /\ Event("complete")
Complete ==
  \/ At("complete") /\ WithReceipt("COMPLETED", "completed")
  \/ At("completed") /\ Event("idle")

(* The process dies between two commits and a new one serves the run. *)
Crash ==
  /\ crashes < MaxCrashes /\ crashes' = crashes + 1
  /\ pc # "idle" /\ pc' = "idle" /\ ctx' = NoContext /\ calls' = 0
  /\ UNCHANGED <<row, store, round, approved, applied>>

Next ==
  \/ Start \/ Investigate \/ InvestigationStarted \/ QueryLogs \/ Interrupt \/ QueryMetrics
  \/ SearchRunbooks \/ OpenRound \/ SearchAgain \/ Diagnose \/ ModelUsage \/ Abstain \/ Propose
  \/ Approve \/ ApprovalGranted \/ CreateGrant \/ Reject \/ Resume \/ EffectDispatched \/ Apply
  \/ SetRemediationStatus \/ Verify \/ Complete \/ Crash

Spec == Init /\ [][Next]_vars

-----------------------------------------------------------------------------

(* A remediation is entered in the effects table only if a person approved   *)
(* that proposal in the investigation that is current: the grant's revision  *)
(* dies with the first event of a later investigation, although the approval *)
(* row stays APPROVED and a resume would dispatch again.                     *)
EffectsFreshlyApproved ==
  [][\A p \in effects' \ effects : <<p, round>> \in approved]_vars

(* A remediation is carried out at most once, also when the run crashes      *)
(* after the effect, is investigated and approved again and dispatches the   *)
(* same proposal (apply returns the stored receipt).                         *)
AppliedOnce == \A p \in Proposals : applied[p] <= 1

(* What the approval_rejected event says of a rejected run: {"no_action":    *)
(* True}.                                                                    *)
RejectedMeansNoAction == row.state = "REJECTED" => effects = {}
=============================================================================
