---------------------------- MODULE RuntimeProofs ----------------------------
(***************************************************************************)
(* The safety of Runtime for every graph, every number of schedulers and   *)
(* workers, every retry budget and every number of faults.                 *)
(***************************************************************************)
EXTENDS Runtime, WorkflowStoreProofs

\* What a pass carries from one transaction to the next: the attempt it names
\* exists, and while its read is current so does the state it decided on.
PassInv(s) ==
  /\ sched[s].op # "none" => sched[s].n \in Node
  /\ sched[s].op \in {"consume", "timeout", "claim"} =>
       sched[s].a \in 1 .. Len(att[sched[s].n])
  /\ sched[s].pc \in {"running", "record"} => sched[s].op = "claim"
  /\ sched[s].pc = "record" => sched[s].st # "none"
  /\ sched[s].pc = "reread" => sched[s].op \in {"create", "consume"}
  /\ sched[s].pc = "step" /\ s \in read =>
       /\ sched[s].op = "timer" => node[sched[s].n].state = "WAITING_TIMER"
       /\ sched[s].op = "schedule" => node[sched[s].n].state = "RUNNABLE"

SlotInv(e) ==
  /\ exec[e].pc # "idle" =>
       exec[e].n \in Node /\ exec[e].a \in 1 .. Len(att[exec[e].n])
  /\ exec[e].pc = "posting" => exec[e].st # "none"

IInv ==
  /\ TypeOK
  /\ StoreInv
  /\ \A s \in Scheduler : PassInv(s)
  /\ \A e \in Slot : SlotInv(e)

-----------------------------------------------------------------------------
(* Processes that do not move *)

\* A pass that does not move keeps what it knows.
LEMMA PassKept ==
  ASSUME IInv, StoreInv', Keep, NEW s \in Scheduler, sched'[s] = sched[s],
         s \in read' => s \in read
  PROVE  PassInv(s)'
<1>1. PassInv(s) /\ sched[s] \in Pass
  BY DEF IInv, TypeOK, SchedTypeOK
<1>2. \A m \in Node : Len(att[m]) \in Nat /\ Len(att'[m]) \in Nat /\ Len(att'[m]) >= Len(att[m])
  BY LenProperties DEF Keep, IInv, StoreInv, StoreTypeOK
<1>3. s \in read' => node' = node /\ s \in read
  BY DEF Keep
<1>4. sched[s].op \in {"consume", "timeout", "claim"} =>
        sched[s].a \in 1 .. Len(att'[sched[s].n])
  BY <1>1, <1>2 DEF PassInv
<1> QED
  BY <1>1, <1>3, <1>4 DEF PassInv

\* So does a worker slot.
LEMMA SlotKept ==
  ASSUME IInv, StoreInv', Keep, NEW e \in Slot, exec'[e] = exec[e]
  PROVE  SlotInv(e)'
<1>1. SlotInv(e)
  BY DEF IInv
<1>2. \A m \in Node : Len(att[m]) \in Nat /\ Len(att'[m]) \in Nat /\ Len(att'[m]) >= Len(att[m])
  BY LenProperties DEF Keep, IInv, StoreInv, StoreTypeOK
<1> QED
  BY <1>1, <1>2 DEF SlotInv

\* One pass moves to p.
LEMMA PassMoves ==
  ASSUME IInv, StoreInv', Keep, NEW s \in Scheduler, NEW p \in Pass, SetPass(s, p),
         UNCHANGED exec, faults' \in 0 .. MaxFaults, read' \subseteq read \cup {s},
         PassInv(s)'
  PROVE  IInv'
<1>1. sched \in [Scheduler -> Pass] /\ exec \in [Slot -> Execution]
  BY DEF IInv, TypeOK, SchedTypeOK, WorkerTypeOK
<1>2. sched' \in [Scheduler -> Pass] /\ \A t \in Scheduler \ {s} : sched'[t] = sched[t]
  BY <1>1 DEF SetPass
<1>3. TypeOK'
  BY <1>1, <1>2 DEF TypeOK, SchedTypeOK, WorkerTypeOK, StoreInv
<1>4. ASSUME NEW t \in Scheduler PROVE PassInv(t)'
  <2>1. CASE t = s
    BY <2>1
  <2>2. CASE t # s
    BY <1>2, <2>2, PassKept
  <2> QED
    BY <2>1, <2>2
<1>5. ASSUME NEW e \in Slot PROVE SlotInv(e)'
  BY SlotKept
<1> QED
  BY <1>3, <1>4, <1>5 DEF IInv

\* One pass moves to a point where it knows nothing.
LEMMA GotoMoves ==
  ASSUME IInv, StoreInv', Keep, NEW s \in Scheduler,
         NEW pc \in {"idle", "owned", "cancel", "enter", "loop", "step", "close"}, Goto(s, pc),
         UNCHANGED exec, faults' \in 0 .. MaxFaults, read' \subseteq read \cup {s}
  PROVE  IInv'
<1>1. At(pc) \in Pass /\ At(pc).op = "none" /\ At(pc).pc = pc
  BY DEF At, Pass, SchedPC, StepOp
<1>2. SetPass(s, At(pc))
  BY DEF Goto
<1>3. sched'[s] = At(pc)
  BY <1>2 DEF SetPass, IInv, TypeOK, SchedTypeOK
<1>4. PassInv(s)'
  BY <1>1, <1>3 DEF PassInv
<1> QED
  BY <1>1, <1>2, <1>4, PassMoves

\* One slot moves to x.
LEMMA SlotMoves ==
  ASSUME IInv, StoreInv', Keep, NEW e \in Slot, NEW x \in Execution, SetSlot(e, x),
         UNCHANGED sched, faults' \in 0 .. MaxFaults, read' \subseteq read, SlotInv(e)'
  PROVE  IInv'
<1>1. sched \in [Scheduler -> Pass] /\ exec \in [Slot -> Execution]
  BY DEF IInv, TypeOK, SchedTypeOK, WorkerTypeOK
<1>2. exec' \in [Slot -> Execution] /\ \A d \in Slot \ {e} : exec'[d] = exec[d]
  BY <1>1 DEF SetSlot
<1>3. TypeOK'
  BY <1>1, <1>2 DEF TypeOK, SchedTypeOK, WorkerTypeOK, StoreInv
<1>4. ASSUME NEW t \in Scheduler PROVE PassInv(t)'
  BY PassKept
<1>5. ASSUME NEW d \in Slot PROVE SlotInv(d)'
  <2>1. CASE d = e
    BY <2>1
  <2>2. CASE d # e
    BY <1>2, <2>2, SlotKept
  <2> QED
    BY <2>1, <2>2
<1> QED
  BY <1>3, <1>4, <1>5 DEF IInv

\* No process moves.
LEMMA StoreMoves ==
  ASSUME IInv, StoreInv', Keep, UNCHANGED <<sched, exec>>, faults' \in 0 .. MaxFaults,
         read' \subseteq read
  PROVE  IInv'
<1>1. TypeOK'
  BY DEF IInv, TypeOK, SchedTypeOK, WorkerTypeOK, StoreInv
<1>2. ASSUME NEW s \in Scheduler PROVE PassInv(s)'
  BY PassKept
<1>3. ASSUME NEW e \in Slot PROVE SlotInv(e)'
  BY SlotKept
<1> QED
  BY <1>1, <1>2, <1>3 DEF IInv

-----------------------------------------------------------------------------
(* Schedulers *)

\* The beginning and the end of a pass: no action of these touches the workflow's
\* rows, except the two that apply a cancellation or a pause.
LEMMA PassBoundary ==
  ASSUME IInv, NEW s \in Scheduler, UNCHANGED <<exec, faults>>,
         \/ StartPass(s) \/ ListCancellations(s) \/ ApplyCancellation(s) \/ EnterPass(s)
         \/ PauseUnsupported(s) \/ LostLease(s) \/ StepFails(s) \/ ClosePass(s)
  PROVE  IInv'
<1>1. StoreInv /\ faults' \in 0 .. MaxFaults
  BY DEF IInv, TypeOK
<1>2. CASE StartPass(s)
  <2>1. /\ lease' \in [owner : Scheduler \cup {None}, live : BOOLEAN]
        /\ ref' \subseteq Scheduler /\ read' \subseteq Scheduler /\ read' = read
        /\ UNCHANGED <<wf, node, att, retries, timers, cancel>>
    BY <1>1, <1>2 DEF StartPass, AcquireLease, dataVars, StoreInv, StoreTypeOK
  <2>2. StoreInv' /\ Keep
    BY <1>1, <2>1, LeasePreserves
  <2>3. Goto(s, "owned") \/ Goto(s, "loop")
    BY <1>2 DEF StartPass
  <2> QED
    BY <1>1, <2>1, <2>2, <2>3, GotoMoves
<1>3. CASE ListCancellations(s)
  <2>1. StoreInv' /\ Keep /\ read' = read
    BY <1>1, <1>3, StoreStutter DEF ListCancellations, storeVars
  <2>2. Goto(s, "cancel") \/ Goto(s, "enter")
    BY <1>3 DEF ListCancellations
  <2> QED
    BY <1>1, <2>1, <2>2, GotoMoves
<1>4. CASE ApplyCancellation(s)
  <2>1. ApplyCancellationRequest(s) \/ UNCHANGED storeVars
    BY <1>4 DEF ApplyCancellation
  <2>2. StoreInv' /\ Keep
    BY <1>1, <2>1, StoreStutter, CancellationPreserves
  <2>3. read' \subseteq read
    BY <2>1 DEF ApplyCancellationRequest, cancelWorkflowTx, storeVars
  <2>4. Goto(s, "enter") \/ Goto(s, "close")
    BY <1>4 DEF ApplyCancellation
  <2> QED
    BY <1>1, <2>2, <2>3, <2>4, GotoMoves
<1>5. CASE EnterPass(s)
  <2>1. /\ lease' \in [owner : Scheduler \cup {None}, live : BOOLEAN]
        /\ ref' \subseteq Scheduler /\ read' \subseteq Scheduler /\ read' = read \cup {s}
        /\ UNCHANGED <<wf, node, att, retries, timers, cancel>>
    BY <1>1, <1>5 DEF EnterPass, leaseVars, StoreInv, StoreTypeOK
  <2>2. StoreInv' /\ Keep
    BY <1>1, <2>1, LeasePreserves
  <2>3. \E pc \in {"close", "loop", "step"} : Goto(s, pc)
    BY <1>5 DEF EnterPass
  <2> QED
    BY <1>1, <2>1, <2>2, <2>3, GotoMoves
<1>6. CASE PauseUnsupported(s)
  <2>1. ApplyOwnerTransition(s, "PAUSED_UNSUPPORTED_VERSION", None) \/ UNCHANGED storeVars
    BY <1>6 DEF PauseUnsupported
  <2>2. StoreInv' /\ Keep
    BY <1>1, <2>1, StoreStutter, PausePreserves
  <2>3. read' \subseteq read
    BY <2>1 DEF ApplyOwnerTransition, storeVars
  <2>4. Goto(s, "close")
    BY <1>6 DEF PauseUnsupported
  <2> QED
    BY <1>1, <2>2, <2>3, <2>4, GotoMoves
<1>7. CASE LostLease(s) \/ StepFails(s)
  <2>1. StoreInv' /\ Keep /\ read' = read
    BY <1>1, <1>7, StoreStutter DEF LostLease, StepFails, storeVars
  <2>2. Goto(s, "close")
    BY <1>7 DEF LostLease, StepFails
  <2> QED
    BY <1>1, <2>1, <2>2, GotoMoves
<1>8. CASE ClosePass(s)
  <2>1. /\ lease' \in [owner : Scheduler \cup {None}, live : BOOLEAN]
        /\ ref' \subseteq Scheduler /\ read' \subseteq Scheduler /\ read' = read
        /\ UNCHANGED <<wf, node, att, retries, timers, cancel>>
    <3>1. lease' = [owner |-> None, live |-> FALSE] \/ lease' = lease
      BY <1>8 DEF ClosePass, ReleaseLease, leaseVars
    <3>2. UNCHANGED <<ref, read, wf, node, att, retries, timers, cancel>>
      BY <1>8 DEF ClosePass, ReleaseLease, leaseVars, dataVars
    <3>3. /\ lease \in [owner : Scheduler \cup {None}, live : BOOLEAN]
          /\ ref \subseteq Scheduler /\ read \subseteq Scheduler
      BY <1>1 DEF StoreInv, StoreTypeOK
    <3>4. [owner |-> None, live |-> FALSE] \in [owner : Scheduler \cup {None}, live : BOOLEAN]
      OBVIOUS
    <3>5. lease' \in [owner : Scheduler \cup {None}, live : BOOLEAN]
      BY <3>1, <3>3, <3>4
    <3> QED
      BY <3>2, <3>3, <3>5
  <2>2. StoreInv' /\ Keep
    BY <1>1, <2>1, LeasePreserves
  <2>3. Goto(s, "idle")
    BY <1>8 DEF ClosePass
  <2> QED
    BY <1>1, <2>1, <2>2, <2>3, GotoMoves
<1> QED
  BY <1>2, <1>3, <1>4, <1>5, <1>6, <1>7, <1>8

\* What the state says about a node when a pass chooses a step for it.
LEMMA ChosenStep ==
  ASSUME IInv, NEW n \in Node, NEW op \in StepOp, Chosen(n, op)
  PROVE  /\ op = "timer" => node[n].state = "WAITING_TIMER"
         /\ op = "schedule" => node[n].state = "RUNNABLE"
         /\ op \in {"consume", "timeout", "claim"} => node[n].cur \in 1 .. Len(att[n])
<1>1. CASE op = "timer" /\ n \in TimerNodes
  BY <1>1 DEF TimerNodes, TimerReady
<1>2. CASE op \in Due(n)
  <2>1. CASE node[n].state = "RUNNABLE"
    <3>1. op \in RunNode(n)
      BY <1>2, <2>1 DEF Due
    <3>2. op \in {"schedule", "expand", "next", "settimer", "final"}
      BY <3>1 DEF RunNode
    <3> QED
      BY <2>1, <3>2
  <2>2. CASE node[n].state = "WAITING_ACTIVITY" /\ node[n].cur = 0
    BY <1>2, <2>2 DEF Due
  <2>3. CASE node[n].state = "WAITING_ACTIVITY" /\ node[n].cur # 0
    <3>1. op \in RecoverAttempt(att[n][node[n].cur])
      BY <1>2, <2>3 DEF Due
    <3>2. op \in {"consume", "timeout", "claim"}
      BY <3>1 DEF RecoverAttempt
    <3>3. RowInv(node[n], att[n], EffectClass[n]) /\ node[n] \in NodeRow
          /\ att[n] \in Seq(Attempt)
      BY DEF IInv, StoreInv, Rows, StoreTypeOK
    <3>4. node[n].cur \in 1 .. Len(att[n])
      BY <2>3, <3>3, LenProperties DEF RowInv, NodeRow
    <3> QED
      BY <3>2, <3>4
  <2>4. CASE node[n].state = "SUCCEEDED"
    BY <1>2, <2>4 DEF Due
  <2>5. CASE node[n].state \notin {"RUNNABLE", "WAITING_ACTIVITY", "SUCCEEDED"}
    BY <1>2, <2>5 DEF Due
  <2> QED
    BY <2>1, <2>2, <2>3, <2>4, <2>5
<1> QED
  BY <1>1, <1>2 DEF Chosen, IsFirst

\* The choice of a step, and the second read before two of the steps.
LEMMA DecisionPreserves ==
  ASSUME IInv, NEW s \in Scheduler, UNCHANGED <<exec, faults>>, Decide(s) \/ Reread(s)
  PROVE  IInv'
<1>1. StoreInv /\ faults' \in 0 .. MaxFaults /\ sched \in [Scheduler -> Pass] /\ PassInv(s)
      /\ node \in [Node -> NodeRow]
  BY DEF IInv, TypeOK, SchedTypeOK, StoreInv, StoreTypeOK
<1>2. /\ lease' \in [owner : Scheduler \cup {None}, live : BOOLEAN]
      /\ ref' \subseteq Scheduler /\ read' \subseteq Scheduler /\ read' = read \cup {s}
      /\ UNCHANGED <<wf, node, att, retries, timers, cancel>>
  BY <1>1 DEF Decide, Reread, leaseVars, StoreInv, StoreTypeOK
<1>3. StoreInv' /\ Keep
  BY <1>1, <1>2, LeasePreserves
<1>4. CASE Decide(s) /\ Goto(s, "close")
  BY <1>1, <1>2, <1>3, <1>4, GotoMoves
<1>5. CASE Decide(s) /\ ~Goto(s, "close")
  <2>1. PICK n \in Node, op \in StepOp :
          /\ Chosen(n, op)
          /\ SetPass(s, [pc |-> IF op = "consume" THEN "reread" ELSE "step",
                         op |-> op, n |-> n, a |-> node[n].cur, st |-> "none"])
    BY <1>5 DEF Decide
  <2> DEFINE p == [pc |-> IF op = "consume" THEN "reread" ELSE "step",
                   op |-> op, n |-> n, a |-> node[n].cur, st |-> "none"]
  <2>2. node[n].cur \in Nat
    BY <1>1 DEF NodeRow
  <2>3. p \in Pass
    BY <2>2 DEF Pass, SchedPC
  <2>4. /\ p.pc \in {"reread", "step"} /\ p.op = op /\ p.n = n /\ p.a = node[n].cur
        /\ p.pc = "reread" => op = "consume"
    OBVIOUS
  <2> HIDE DEF p
  <2>5. sched'[s] = p /\ SetPass(s, p)
    BY <1>1, <2>1 DEF p, SetPass
  <2>6. PassInv(s)'
    BY <1>2, <2>1, <2>4, <2>5, ChosenStep DEF PassInv
  <2> QED
    BY <1>1, <1>2, <1>3, <2>3, <2>5, <2>6, PassMoves
<1>6. CASE Reread(s)
  <2> DEFINE p == [sched[s] EXCEPT !.pc = "step"]
  <2>1. p \in Pass /\ p.pc = "step" /\ p.op = sched[s].op /\ p.n = sched[s].n /\ p.a = sched[s].a
    BY <1>1 DEF Pass, SchedPC
  <2>2. SetPass(s, p) /\ sched'[s] = p /\ sched[s].pc = "reread"
    BY <1>1, <1>6 DEF Reread, SetPass
  <2> HIDE DEF p
  <2>3. PassInv(s)'
    BY <1>1, <1>2, <2>1, <2>2 DEF PassInv
  <2> QED
    BY <1>1, <1>2, <1>3, <2>1, <2>2, <2>3, PassMoves
<1> QED
  BY <1>4, <1>5, <1>6

\* The transaction of a step.
LEMMA TakeStepPreserves ==
  ASSUME IInv, NEW s \in Scheduler, UNCHANGED <<exec, faults>>, TakeStep(s)
  PROVE  IInv'
<1> DEFINE n == sched[s].n
           a == sched[s].a
           op == sched[s].op
<1>1. /\ StoreInv /\ faults' \in 0 .. MaxFaults /\ PassInv(s)
      /\ sched \in [Scheduler -> Pass] /\ sched[s] \in Pass
  BY DEF IInv, TypeOK, SchedTypeOK
<1>2. sched[s].pc = "step" /\ op # "none" /\ n \in Node
  BY <1>1 DEF TakeStep, PassInv
<1>3. op \in {"consume", "timeout", "claim"} => a \in 1 .. Len(att[n])
  BY <1>1 DEF PassInv
<1>4. s \in read => /\ op = "timer" => node[n].state = "WAITING_TIMER"
                    /\ op = "schedule" => node[n].state = "RUNNABLE"
  BY <1>1, <1>2 DEF PassInv
<1> HIDE DEF n, a, op
<1>5. CASE op = "timer" /\ ApplyOwnerTransition(s, "RUNNABLE", n) /\ Goto(s, "loop")
  <2>1. StoreInv' /\ Keep
    BY <1>1, <1>2, <1>4, <1>5, OwnerTransitionPreserves
  <2>2. read' \subseteq read
    BY <1>5 DEF ApplyOwnerTransition
  <2> QED
    BY <1>1, <1>5, <2>1, <2>2, GotoMoves
<1>6. CASE op = "schedule" /\ ScheduleActivity(s, n)
  <2>1. ApplyOwnerTransition(s, "WAITING_ACTIVITY", n)
    BY <1>6 DEF ScheduleActivity
  <2>2. StoreInv' /\ Keep
    BY <1>1, <1>2, <1>4, <1>6, <2>1, OwnerTransitionPreserves
  <2>3. read' = {}
    BY <2>1 DEF ApplyOwnerTransition
  <2> DEFINE p == [sched[s] EXCEPT !.pc = "reread", !.op = "create"]
  <2>4. p \in Pass /\ p.pc = "reread" /\ p.op = "create" /\ p.n = sched[s].n
    BY <1>1 DEF Pass, SchedPC, StepOp
  <2>5. SetPass(s, p) /\ sched'[s] = p
    BY <1>1, <1>6 DEF ScheduleActivity, SetPass
  <2> HIDE DEF p
  <2>6. PassInv(s)'
    BY <1>2, <2>3, <2>4, <2>5 DEF PassInv, n
  <2> QED
    BY <1>1, <2>2, <2>3, <2>4, <2>5, <2>6, PassMoves
<1>7. CASE op = "create" /\ StartActivity(s, n)
  <2>1. CreateAttempt(s, n)
    BY <1>7 DEF StartActivity
  <2>2. StoreInv' /\ Keep /\ Len(att'[n]) = Len(att[n]) + 1
    BY <1>1, <1>2, <2>1, CreateAttemptPreserves
  <2>3. read' = {}
    BY <2>1 DEF CreateAttempt
  <2>4. CASE Goto(s, "loop")
    BY <1>1, <2>2, <2>3, <2>4, GotoMoves
  <2>5. CASE ~Goto(s, "loop")
    <3> DEFINE p == [sched[s] EXCEPT !.op = "claim", !.a = Len(att[n]) + 1]
    <3>1. Len(att[n]) \in Nat
      BY <1>1, <1>2, LenProperties DEF StoreInv, StoreTypeOK
    <3>2. p \in Pass /\ p.pc = "step" /\ p.op = "claim" /\ p.n = sched[s].n
          /\ p.a = Len(att[n]) + 1
      <4> DEFINE k == Len(att[n]) + 1
      <4>1. k \in Nat /\ p = [sched[s] EXCEPT !.op = "claim", !.a = k]
        BY <3>1
      <4> HIDE DEF p, k
      <4>2. p \in Pass /\ p.pc = "step" /\ p.op = "claim" /\ p.n = sched[s].n /\ p.a = k
        BY <1>1, <1>2, <4>1 DEF Pass, StepOp
      <4> QED
        BY <4>2 DEF k
    <3>3. SetPass(s, p) /\ sched'[s] = p
      BY <1>1, <1>7, <2>5 DEF StartActivity, SetPass
    <3> HIDE DEF p
    <3>4. PassInv(s)'
      BY <1>2, <2>2, <2>3, <3>1, <3>2, <3>3 DEF PassInv, n
    <3> QED
      BY <1>1, <2>2, <2>3, <3>2, <3>3, <3>4, PassMoves
  <2> QED
    BY <2>4, <2>5
<1>8. CASE op = "consume" /\ ConsumeResult(s, n, a) /\ Goto(s, "loop")
  <2>1. StoreInv' /\ Keep
    BY <1>1, <1>2, <1>3, <1>8, ConsumeResultPreserves
  <2>2. read' \subseteq read
    BY <1>8 DEF ConsumeResult
  <2> QED
    BY <1>1, <1>8, <2>1, <2>2, GotoMoves
<1>9. CASE op = "timeout" /\ TimeoutAttempt(s, n, a) /\ Goto(s, "loop")
  <2>1. StoreInv' /\ Keep
    BY <1>1, <1>2, <1>3, <1>9, TimeoutPreserves
  <2>2. read' \subseteq read
    BY <1>9 DEF TimeoutAttempt
  <2> QED
    BY <1>1, <1>9, <2>1, <2>2, GotoMoves
<1>10. CASE op = "settimer" /\ ScheduleTimer(s, n) /\ Goto(s, "loop")
  <2>1. StoreInv' /\ Keep
    BY <1>1, <1>2, <1>10, ScheduleTimerPreserves
  <2>2. read' \subseteq read
    BY <1>10 DEF ScheduleTimer
  <2> QED
    BY <1>1, <1>10, <2>1, <2>2, GotoMoves
<1>11. CASE op = "claim" /\ EngineClaim(s, n, a)
  <2>1. ClaimAttempt(n, a) \/ UNCHANGED storeVars
    BY <1>11 DEF EngineClaim
  <2>2. StoreInv' /\ Keep
    BY <1>1, <1>2, <1>3, <1>11, <2>1, ClaimPreserves, StoreStutter
  <2>3. read' = read
    BY <2>1 DEF ClaimAttempt, storeVars
  <2> DEFINE p == [sched[s] EXCEPT !.pc = "running"]
  <2>4. p \in Pass /\ p.pc = "running" /\ p.op = sched[s].op /\ p.n = sched[s].n
        /\ p.a = sched[s].a
    BY <1>1 DEF Pass, SchedPC
  <2>5. SetPass(s, p) /\ sched'[s] = p
    BY <1>1, <1>11 DEF EngineClaim, SetPass
  <2> HIDE DEF p
  <2>6. Len(att[n]) \in Nat /\ Len(att'[n]) \in Nat /\ Len(att'[n]) >= Len(att[n])
    BY <1>1, <1>2, <2>2, LenProperties DEF StoreInv, StoreTypeOK, Keep
  <2>7. a \in 1 .. Len(att'[n])
    BY <1>3, <1>11, <2>6
  <2>8. PassInv(s)'
    BY <1>2, <1>11, <2>4, <2>5, <2>7 DEF PassInv, n, a, op
  <2> QED
    BY <1>1, <2>2, <2>3, <2>4, <2>5, <2>8, PassMoves
<1>12. CASE /\ op \in {"expand", "next", "final"}
            /\ AdvanceGraph(s, n, NextInputs(op, n))
            /\ Goto(s, "loop")
  <2>1. StoreInv' /\ Keep
    BY <1>1, <1>2, <1>12, AdvanceGraphPreserves
  <2>2. read' \subseteq read
    BY <1>12 DEF AdvanceGraph
  <2> QED
    BY <1>1, <1>12, <2>1, <2>2, GotoMoves
<1> QED
  BY <1>5, <1>6, <1>7, <1>8, <1>9, <1>10, <1>11, <1>12 DEF TakeStep, n, a, op

\* The engine runs an activity and records its result.
LEMMA EnginePreserves ==
  ASSUME IInv, NEW s \in Scheduler, UNCHANGED <<exec, faults>>,
         EngineRuns(s) \/ EngineRecords(s)
  PROVE  IInv'
<1>1. /\ StoreInv /\ faults' \in 0 .. MaxFaults /\ PassInv(s)
      /\ sched \in [Scheduler -> Pass] /\ sched[s] \in Pass
  BY DEF IInv, TypeOK, SchedTypeOK
<1>2. /\ sched[s].op = "claim" /\ sched[s].n \in Node
      /\ sched[s].a \in 1 .. Len(att[sched[s].n])
  BY <1>1 DEF EngineRuns, EngineRecords, PassInv
<1>3. CASE EngineRuns(s)
  <2>1. PICK st \in Outcome : SetPass(s, [sched[s] EXCEPT !.pc = "record", !.st = st])
    BY <1>3 DEF EngineRuns
  <2> DEFINE p == [sched[s] EXCEPT !.pc = "record", !.st = st]
  <2>2. st \in {"SUCCEEDED", "FAILED_RETRYABLE", "FAILED_FINAL"}
    BY SchedulerAssumption
  <2>3. p \in Pass /\ p.pc = "record" /\ p.op = sched[s].op /\ p.n = sched[s].n
        /\ p.a = sched[s].a /\ p.st = st
    BY <1>1, <2>2 DEF Pass, SchedPC
  <2> HIDE DEF p
  <2>4. SetPass(s, p) /\ sched'[s] = p
    BY <1>1, <2>1 DEF SetPass, p
  <2>5. StoreInv' /\ Keep /\ read' = read /\ att' = att
    BY <1>1, <1>3, StoreStutter DEF EngineRuns, storeVars
  <2>6. PassInv(s)'
    BY <1>2, <2>2, <2>3, <2>4, <2>5 DEF PassInv
  <2> QED
    BY <1>1, <2>3, <2>4, <2>5, <2>6, PassMoves
<1>4. CASE EngineRecords(s)
  <2> DEFINE n == sched[s].n
             a == sched[s].a
             p == [sched[s] EXCEPT !.pc = "reread", !.op = "consume", !.st = "none"]
  <2>1. sched[s].st \in {"SUCCEEDED", "FAILED_RETRYABLE", "FAILED_FINAL"}
    BY <1>1, <1>4 DEF EngineRecords, PassInv, Pass
  <2>2. RecordResult(n, a, sched[s].st) \/ RecordEvidence(n, a) \/ UNCHANGED storeVars
    BY <1>4 DEF EngineRecords
  <2>3. StoreInv' /\ Keep
    BY <1>1, <1>2, <2>1, <2>2, RecordResultPreserves, EvidencePreserves, StoreStutter
  <2>4. read' \subseteq read
    BY <2>2 DEF RecordResult, RecordEvidence, storeVars
  <2>5. CASE Goto(s, "close")
    BY <1>1, <2>3, <2>4, <2>5, GotoMoves
  <2>6. CASE ~Goto(s, "close")
    <3>1. SetPass(s, p)
      BY <1>4, <2>6 DEF EngineRecords
    <3>2. p \in Pass /\ p.pc = "reread" /\ p.op = "consume" /\ p.n = n /\ p.a = a
      BY <1>1 DEF Pass, SchedPC, StepOp
    <3> HIDE DEF p
    <3>3. sched'[s] = p
      BY <1>1, <3>1 DEF SetPass
    <3>4. Len(att[n]) \in Nat /\ Len(att'[n]) \in Nat /\ Len(att'[n]) >= Len(att[n])
      BY <1>1, <1>2, <2>3, LenProperties DEF StoreInv, StoreTypeOK, Keep
    <3>5. a \in 1 .. Len(att'[n])
      BY <1>2, <3>4
    <3>6. PassInv(s)'
      BY <1>2, <3>2, <3>3, <3>5 DEF PassInv
    <3> QED
      BY <1>1, <2>3, <2>4, <3>1, <3>2, <3>6, PassMoves
  <2> QED
    BY <2>5, <2>6
<1> QED
  BY <1>3, <1>4

\* Every step of a scheduler.
LEMMA SchedulerPreserves ==
  ASSUME IInv, NEW s \in Scheduler, SchedulerStep(s)
  PROVE  IInv'
  BY PassBoundary, DecisionPreserves, TakeStepPreserves, EnginePreserves
  DEF SchedulerStep, SchedulerAction

\* The death of a scheduler.
LEMMA CrashPreserves ==
  ASSUME IInv, NEW s \in Scheduler, CrashSchedulerStep(s)
  PROVE  IInv'
<1>1. StoreInv /\ faults \in 0 .. MaxFaults /\ faults' = faults + 1 /\ faults < MaxFaults
  BY DEF IInv, TypeOK, CrashSchedulerStep, Fault
<1>2. /\ Goto(s, "idle") /\ read' = read \ {s} /\ ref' = ref \ {s}
      /\ lease' = IF lease.owner = s THEN [lease EXCEPT !.owner = None] ELSE lease
      /\ UNCHANGED <<exec, wf, node, att, retries, timers, cancel>>
  BY DEF CrashSchedulerStep, CrashScheduler
<1>3. /\ lease' \in [owner : Scheduler \cup {None}, live : BOOLEAN]
      /\ ref' \subseteq Scheduler /\ read' \subseteq Scheduler
  BY <1>1, <1>2 DEF StoreInv, StoreTypeOK
<1>4. StoreInv' /\ Keep
  BY <1>1, <1>2, <1>3, LeasePreserves
<1>5. faults' \in 0 .. MaxFaults
  BY <1>1, RuntimeAssumption
<1> QED
  BY <1>2, <1>4, <1>5, GotoMoves

\* A pass that ends early.
LEMMA PassFailsPreserves ==
  ASSUME IInv, NEW s \in Scheduler, PassFailsStep(s)
  PROVE  IInv'
<1>1. StoreInv /\ faults \in 0 .. MaxFaults /\ faults' = faults + 1 /\ faults < MaxFaults
  BY DEF IInv, TypeOK, PassFailsStep, Fault
<1>2. Goto(s, "close") /\ UNCHANGED storeVars /\ UNCHANGED exec /\ read' = read
  BY DEF PassFailsStep, PassFails, storeVars
<1>3. StoreInv' /\ Keep
  BY <1>1, <1>2, StoreStutter
<1>4. faults' \in 0 .. MaxFaults
  BY <1>1, RuntimeAssumption
<1> QED
  BY <1>2, <1>3, <1>4, GotoMoves

-----------------------------------------------------------------------------
(* Workers, clients and the clock *)

\* What a busy slot knows.
LEMMA SlotKnows ==
  ASSUME IInv, NEW e \in Slot, exec[e].pc # "idle"
  PROVE  /\ exec[e] \in Execution /\ exec[e].n \in Node
         /\ exec[e].a \in 1 .. Len(att[exec[e].n])
  BY DEF IInv, SlotInv, TypeOK, WorkerTypeOK

\* A slot becomes free.
LEMMA FreeMoves ==
  ASSUME IInv, StoreInv', Keep, NEW e \in Slot, Free(e),
         UNCHANGED sched, faults' \in 0 .. MaxFaults, read' \subseteq read
  PROVE  IInv'
<1>1. IdleSlot \in Execution /\ IdleSlot.pc = "idle"
  BY DEF IdleSlot, Execution, ExecPC
<1>2. SetSlot(e, IdleSlot) /\ exec'[e] = IdleSlot
  BY DEF Free, SetSlot, IInv, TypeOK, WorkerTypeOK
<1>3. SlotInv(e)'
  BY <1>1, <1>2 DEF SlotInv
<1> QED
  BY <1>1, <1>2, <1>3, SlotMoves

\* A claim, first or repeated, whether or not its answer arrives.
LEMMA ClaimsPreserve ==
  ASSUME IInv, NEW e \in Slot, Claims(e),
         SetSlot(e, [exec[e] EXCEPT !.pc = "running", !.own = TRUE])
           \/ SetSlot(e, [exec[e] EXCEPT !.own = TRUE]),
         UNCHANGED sched, faults' \in 0 .. MaxFaults
  PROVE  IInv'
<1> DEFINE n == exec[e].n
           a == exec[e].a
<1>1. exec[e] \in Execution /\ n \in Node /\ a \in 1 .. Len(att[n]) /\ exec[e].pc = "claiming"
      /\ StoreInv
  BY SlotKnows DEF Claims, IInv
<1>2. ClaimAttempt(n, a) \/ UNCHANGED storeVars
  BY DEF Claims
<1>3. StoreInv' /\ Keep
  BY <1>1, <1>2, ClaimPreserves, StoreStutter
<1>4. read' = read
  BY <1>2 DEF ClaimAttempt, storeVars
<1>5. \E x \in Execution : /\ SetSlot(e, x) /\ x.n = n /\ x.a = a
                           /\ x.pc \in {"running", "claiming"}
  <2> DEFINE x == [exec[e] EXCEPT !.pc = "running", !.own = TRUE]
             y == [exec[e] EXCEPT !.own = TRUE]
  <2>1. x \in Execution /\ x.n = n /\ x.a = a /\ x.pc = "running"
    BY <1>1 DEF Execution, ExecPC
  <2>2. y \in Execution /\ y.n = n /\ y.a = a /\ y.pc = "claiming"
    BY <1>1 DEF Execution
  <2>3. SetSlot(e, x) \/ SetSlot(e, y)
    OBVIOUS
  <2> HIDE DEF x, y
  <2> QED
    BY <2>1, <2>2, <2>3
<1>6. PICK x \in Execution : /\ SetSlot(e, x) /\ x.n = n /\ x.a = a
                            /\ x.pc \in {"running", "claiming"}
  BY <1>5
<1>7. exec'[e] = x
  BY <1>6 DEF SetSlot, IInv, TypeOK, WorkerTypeOK
<1>8. Len(att[n]) \in Nat /\ Len(att'[n]) \in Nat /\ Len(att'[n]) >= Len(att[n])
  BY <1>1, <1>3, LenProperties DEF StoreInv, StoreTypeOK, Keep
<1>9. a \in 1 .. Len(att'[n])
  BY <1>1, <1>8
<1>10. SlotInv(e)'
  BY <1>1, <1>6, <1>7, <1>9 DEF SlotInv
<1> QED
  BY <1>3, <1>4, <1>6, <1>10, SlotMoves

\* A result that a slot posts.
LEMMA PostPreserves ==
  ASSUME StoreInv, IInv, NEW e \in Slot, exec[e].pc = "posting",
         \/ RecordResult(exec[e].n, exec[e].a, exec[e].st)
         \/ RecordEvidence(exec[e].n, exec[e].a)
         \/ UNCHANGED storeVars
  PROVE  StoreInv' /\ Keep /\ read' \subseteq read
<1>1. /\ exec[e] \in Execution /\ exec[e].n \in Node
      /\ exec[e].a \in 1 .. Len(att[exec[e].n])
  BY SlotKnows
<1>2. exec[e].st # "none"
  BY DEF IInv, SlotInv
<1>3. exec[e].st \in {"SUCCEEDED", "FAILED_RETRYABLE", "FAILED_FINAL"}
  BY <1>1, <1>2 DEF Execution
<1>4. StoreInv' /\ Keep
  BY <1>1, <1>3, RecordResultPreserves, EvidencePreserves, StoreStutter
<1>5. read' \subseteq read
  BY DEF RecordResult, RecordEvidence, storeVars
<1> QED
  BY <1>4, <1>5

\* Every step of a worker.
LEMMA WorkerPreserves ==
  ASSUME IInv, NEW e \in Slot, WorkerStep(e)
  PROVE  IInv'
<1>1. StoreInv /\ UNCHANGED <<sched, faults>> /\ faults' \in 0 .. MaxFaults
  BY DEF IInv, TypeOK, WorkerStep
<1>2. CASE Claim(e)
  BY <1>1, <1>2, ClaimsPreserve DEF Claim
<1>3. CASE ClaimRefused(e)
  <2>1. StoreInv' /\ Keep /\ read' = read /\ Free(e)
    BY <1>1, <1>3, StoreStutter DEF ClaimRefused, storeVars
  <2> QED
    BY <1>1, <2>1, FreeMoves
<1>4. CASE Finish(e)
  <2>1. PICK st \in Outcome : SetSlot(e, [exec[e] EXCEPT !.pc = "posting", !.st = st])
    BY <1>4 DEF Finish
  <2> DEFINE x == [exec[e] EXCEPT !.pc = "posting", !.st = st]
  <2>2. /\ exec[e] \in Execution /\ exec[e].n \in Node
        /\ exec[e].a \in 1 .. Len(att[exec[e].n])
    BY <1>4, SlotKnows DEF Finish
  <2>3. st \in {"SUCCEEDED", "FAILED_RETRYABLE", "FAILED_FINAL"}
    BY SchedulerAssumption
  <2>4. x \in Execution /\ x.n = exec[e].n /\ x.a = exec[e].a /\ x.st = st
    BY <2>2, <2>3 DEF Execution, ExecPC
  <2> HIDE DEF x
  <2>5. SetSlot(e, x) /\ exec'[e] = x
    BY <2>1 DEF x, SetSlot, IInv, TypeOK, WorkerTypeOK
  <2>6. StoreInv' /\ Keep /\ read' = read /\ att' = att
    BY <1>1, <1>4, StoreStutter DEF Finish, storeVars
  <2>7. SlotInv(e)'
    BY <2>2, <2>3, <2>4, <2>5, <2>6 DEF SlotInv
  <2> QED
    BY <1>1, <2>4, <2>5, <2>6, <2>7, SlotMoves
<1>5. CASE PostResult(e)
  <2>1. StoreInv' /\ Keep /\ read' \subseteq read
    BY <1>1, <1>5, PostPreserves DEF PostResult
  <2>2. Free(e)
    BY <1>5 DEF PostResult
  <2> QED
    BY <1>1, <2>1, <2>2, FreeMoves
<1> QED
  BY <1>2, <1>3, <1>4, <1>5 DEF WorkerStep, WorkerAction

\* A heartbeat, a delivery, and the faults of a worker.
LEMMA SlotPreserves ==
  ASSUME IInv, NEW e \in Slot, HeartbeatStep(e) \/ DeliverStep(e) \/ WorkerFault(e)
  PROVE  IInv'
<1>1. StoreInv /\ faults \in 0 .. MaxFaults
  BY DEF IInv, TypeOK
<1>2. UNCHANGED sched /\ faults' \in 0 .. MaxFaults
  BY <1>1, RuntimeAssumption DEF HeartbeatStep, DeliverStep, WorkerFault, Fault
<1>3. CASE HeartbeatStep(e)
  <2> DEFINE n == exec[e].n
             a == exec[e].a
  <2>1. HeartbeatAttempt(n, a) /\ exec[e].pc = "running" /\ UNCHANGED exec
    BY <1>3 DEF HeartbeatStep, Heartbeat
  <2>2. n \in Node /\ a \in 1 .. Len(att[n])
    BY <2>1, SlotKnows
  <2> HIDE DEF n, a
  <2>3. /\ att[n][a].current /\ SetAttempt(n, a, [att[n][a] EXCEPT !.expired = FALSE])
        /\ UNCHANGED <<lease, ref, read, wf, node, retries, timers, cancel>>
    BY <2>1 DEF HeartbeatAttempt, leaseVars
  <2>4. read' \subseteq Scheduler
    BY <1>1, <2>3 DEF StoreInv, StoreTypeOK
  <2>5. StoreInv' /\ Keep
    BY <1>1, <2>2, <2>3, <2>4, DeadlinePreserves
  <2> QED
    BY <1>2, <2>1, <2>3, <2>5, StoreMoves
<1>4. CASE DeliverStep(e)
  <2>1. PICK n \in Node : Deliver(e, n)
    BY <1>4 DEF DeliverStep
  <2> DEFINE x == [IdleSlot EXCEPT !.pc = "claiming", !.n = n, !.a = node[n].cur]
  <2>2. node[n].cur # 0 /\ SetSlot(e, x) /\ UNCHANGED storeVars
    BY <2>1 DEF Deliver
  <2>3. /\ RowInv(node[n], att[n], EffectClass[n]) /\ node[n] \in NodeRow
        /\ att[n] \in Seq(Attempt)
    BY <1>1 DEF StoreInv, Rows, StoreTypeOK
  <2>4. node[n].cur \in 1 .. Len(att[n]) /\ node[n].cur \in Nat
    BY <2>2, <2>3, LenProperties DEF RowInv, NodeRow
  <2>5. x \in Execution /\ x.n = n /\ x.a = node[n].cur /\ x.pc = "claiming"
    BY <2>4 DEF IdleSlot, Execution, ExecPC
  <2> HIDE DEF x
  <2>6. exec'[e] = x
    BY <2>2 DEF SetSlot, IInv, TypeOK, WorkerTypeOK
  <2>7. StoreInv' /\ Keep /\ read' = read /\ att' = att
    BY <1>1, <2>2, StoreStutter DEF storeVars
  <2>8. SlotInv(e)'
    BY <2>4, <2>5, <2>6, <2>7 DEF SlotInv
  <2> QED
    BY <1>2, <2>2, <2>5, <2>7, <2>8, SlotMoves
<1>5. CASE WorkerFault(e)
  <2>1. CASE CrashWorker(e)
    <3>1. StoreInv' /\ Keep /\ read' = read /\ Free(e)
      BY <1>1, <2>1, StoreStutter DEF CrashWorker, storeVars
    <3> QED
      BY <1>2, <3>1, FreeMoves
  <2>2. CASE ClaimResponseLost(e)
    BY <1>2, <2>2, ClaimsPreserve DEF ClaimResponseLost
  <2>3. CASE ResultResponseLost(e)
    <3>1. StoreInv' /\ Keep /\ read' \subseteq read /\ UNCHANGED exec
      BY <1>1, <2>3, PostPreserves DEF ResultResponseLost
    <3> QED
      BY <1>2, <3>1, StoreMoves
  <2> QED
    BY <1>5, <2>1, <2>2, <2>3 DEF WorkerFault
<1> QED
  BY <1>3, <1>4, <1>5

\* The passing of a deadline.
LEMMA DeadlinePassesPreserves ==
  ASSUME IInv, NEW n \in Node, DeadlinePassesStep(n) \/ HeartbeatsDelayed(n)
  PROVE  IInv'
<1> DEFINE a == node[n].cur
<1>1. StoreInv /\ faults \in 0 .. MaxFaults
  BY DEF IInv, TypeOK
<1>2. UNCHANGED <<sched, exec>> /\ faults' \in 0 .. MaxFaults
  BY <1>1, RuntimeAssumption DEF DeadlinePassesStep, HeartbeatsDelayed, Fault
<1>3. /\ a # 0 /\ att[n][a].current
      /\ SetAttempt(n, a, [att[n][a] EXCEPT !.expired = TRUE])
      /\ UNCHANGED <<lease, ref, read, wf, node, retries, timers, cancel>>
  BY DEF DeadlinePassesStep, HeartbeatsDelayed, DeadlinePasses, leaseVars
<1>4. /\ RowInv(node[n], att[n], EffectClass[n]) /\ node[n] \in NodeRow
      /\ att[n] \in Seq(Attempt)
  BY <1>1 DEF StoreInv, Rows, StoreTypeOK
<1>5. a \in 1 .. Len(att[n])
  BY <1>3, <1>4, LenProperties DEF RowInv, NodeRow
<1>6. read' \subseteq Scheduler
  BY <1>1, <1>3 DEF StoreInv, StoreTypeOK
<1>7. StoreInv' /\ Keep
  BY <1>1, <1>3, <1>5, <1>6, DeadlinePreserves
<1> QED
  BY <1>2, <1>3, <1>7, StoreMoves

\* The rest: timers, leases that expire, clients, and the end.
LEMMA EnvironmentPreserves ==
  ASSUME IInv,
         \/ \E n \in Node : TimerDueStep(n)
         \/ LeaseExpiresStep \/ AbandonedLeaseExpires \/ CancellationStep \/ UNCHANGED vars
  PROVE  IInv'
<1>1. StoreInv /\ faults \in 0 .. MaxFaults
  BY DEF IInv, TypeOK
<1>2. UNCHANGED <<sched, exec>> /\ faults' \in 0 .. MaxFaults /\ read' = read
  BY <1>1, RuntimeAssumption
  DEF TimerDueStep, TimerDue, LeaseExpiresStep, AbandonedLeaseExpires, LeaseExpires,
      CancellationStep, RequestCancellation, Fault, vars, dataVars
<1>3. StoreInv' /\ Keep
  <2>1. CASE \E n \in Node : TimerDueStep(n)
    BY <1>1, <2>1, TimerDuePreserves DEF TimerDueStep
  <2>2. CASE LeaseExpires
    <3>1. /\ lease' \in [owner : Scheduler \cup {None}, live : BOOLEAN]
          /\ ref' \subseteq Scheduler /\ read' \subseteq Scheduler
          /\ UNCHANGED <<wf, node, att, retries, timers, cancel>>
      BY <1>1, <2>2 DEF LeaseExpires, dataVars, StoreInv, StoreTypeOK
    <3> QED
      BY <1>1, <3>1, LeasePreserves
  <2>3. CASE CancellationStep
    BY <1>1, <2>3, RequestCancellationPreserves DEF CancellationStep
  <2>4. CASE UNCHANGED vars
    BY <1>1, <2>4, StoreStutter DEF vars, storeVars
  <2> QED
    BY <2>1, <2>2, <2>3, <2>4 DEF LeaseExpiresStep, AbandonedLeaseExpires
<1> QED
  BY <1>2, <1>3, StoreMoves

-----------------------------------------------------------------------------
(* Theorems *)

\* The initial state satisfies the inductive invariant.
LEMMA InitInv == Init => IInv
<1> SUFFICES ASSUME Init PROVE IInv
  OBVIOUS
<1>1. StoreInv
  BY StoreInitInv DEF Init
<1>2. At("idle") \in Pass /\ At("idle").op = "none" /\ At("idle").pc = "idle"
  BY DEF At, Pass, SchedPC, StepOp
<1>3. IdleSlot \in Execution /\ IdleSlot.pc = "idle"
  BY DEF IdleSlot, Execution, ExecPC
<1>4. sched = [s \in Scheduler |-> At("idle")] /\ exec = [e \in Slot |-> IdleSlot] /\ faults = 0
  BY DEF Init, SchedInit, WorkerInit
<1>5. TypeOK
  BY <1>1, <1>2, <1>3, <1>4, RuntimeAssumption
  DEF TypeOK, SchedTypeOK, WorkerTypeOK, StoreInv
<1>6. \A s \in Scheduler : PassInv(s)
  BY <1>2, <1>4 DEF PassInv
<1>7. \A e \in Slot : SlotInv(e)
  BY <1>3, <1>4 DEF SlotInv
<1> QED
  BY <1>1, <1>5, <1>6, <1>7 DEF IInv

\* Every step preserves it.
LEMMA NextInv == IInv /\ [Next]_vars => IInv'
<1> SUFFICES ASSUME IInv, [Next]_vars PROVE IInv'
  OBVIOUS
<1>1. ASSUME NEW s \in Scheduler,
             SchedulerStep(s) \/ CrashSchedulerStep(s) \/ PassFailsStep(s)
      PROVE  IInv'
  BY <1>1, SchedulerPreserves, CrashPreserves, PassFailsPreserves
<1>2. ASSUME NEW e \in Slot,
             WorkerStep(e) \/ HeartbeatStep(e) \/ DeliverStep(e) \/ WorkerFault(e)
      PROVE  IInv'
  BY <1>2, WorkerPreserves, SlotPreserves
<1>3. ASSUME NEW n \in Node, DeadlinePassesStep(n) \/ HeartbeatsDelayed(n) PROVE IInv'
  BY <1>3, DeadlinePassesPreserves
<1>4. CASE \/ \E n \in Node : TimerDueStep(n)
           \/ LeaseExpiresStep \/ AbandonedLeaseExpires \/ CancellationStep \/ UNCHANGED vars
  BY <1>4, EnvironmentPreserves
<1> QED
  BY <1>1, <1>2, <1>3, <1>4 DEF Next, Done

\* The inductive invariant holds in every reachable state: the store's rows agree with
\* one another and with what every pass and every worker execution carries.
THEOREM Inductive == Spec => []IInv
  BY InitInv, NextInv, PTL DEF Spec

\* Every variable keeps its type, for every graph and every number of processes.
THEOREM TypeCorrect == Spec => []TypeOK
<1>1. IInv => TypeOK
  BY DEF IInv
<1> QED
  BY <1>1, Inductive, PTL

\* The rows of the store in a reachable state.
LEMMA RowFacts ==
  ASSUME IInv, NEW n \in Node
  PROVE  /\ node[n] \in NodeRow /\ att[n] \in Seq(Attempt)
         /\ DOMAIN att[n] = 1 .. Len(att[n])
         /\ RowInv(node[n], att[n], EffectClass[n])
  BY LenProperties DEF IInv, StoreInv, StoreTypeOK, Rows

\* At most one attempt of a node is current, and it is the newest one: whatever the
\* interleaving of CreateAttempt, TimeoutAttempt, RecordResultReceipt and cancellation.
THEOREM OneCurrentAttempt == Spec => []CurrentIsNewest
<1>1. IInv => CurrentIsNewest
  <2> SUFFICES ASSUME IInv, NEW n \in Node, NEW a \in DOMAIN att[n], att[n][a].current
               PROVE  /\ a = Len(att[n]) /\ node[n].cur = a
                      /\ node[n].state = "WAITING_ACTIVITY"
                      /\ att[n][a].state \in {"DISPATCHABLE", "CLAIMED"}
    BY DEF CurrentIsNewest
  <2>1. AttemptInv(node[n], att[n], EffectClass[n], a) /\ a # 0
    BY RowFacts DEF RowInv
  <2>2. a = Len(att[n]) /\ node[n].cur = a /\ att[n][a].state \in {"DISPATCHABLE", "CLAIMED"}
    BY <2>1 DEF AttemptInv, Open
  <2>3. node[n].state = "WAITING_ACTIVITY"
    BY <2>1, <2>2, RowFacts DEF RowInv
  <2> QED
    BY <2>2, <2>3
<1> QED
  BY <1>1, Inductive, PTL

\* A recorded success is never followed by another attempt, and the accepted result is
\* that of the last attempt.
THEOREM SuccessIsLast == Spec => []SuccessNotRepeated
<1>1. IInv => SuccessNotRepeated
  <2> SUFFICES ASSUME IInv, NEW n \in Node
               PROVE  /\ \A a \in DOMAIN att[n] : att[n][a].state = "SUCCEEDED" => a = Len(att[n])
                      /\ node[n].accepted # 0 =>
                           /\ node[n].accepted = Len(att[n])
                           /\ att[n][node[n].accepted].state = "SUCCEEDED"
    BY DEF SuccessNotRepeated
  <2>1. ASSUME NEW a \in DOMAIN att[n], att[n][a].state = "SUCCEEDED" PROVE a = Len(att[n])
    <3>1. AttemptInv(node[n], att[n], EffectClass[n], a)
      BY RowFacts DEF RowInv
    <3> QED
      BY <2>1, <3>1 DEF AttemptInv
  <2> QED
    BY <2>1, RowFacts DEF RowInv
<1> QED
  BY <1>1, Inductive, PTL

\* A non-cooperating effect that was claimed and then timed out or was canceled is
\* never tried again.
THEOREM UnknownIsLast == Spec => []UnknownNotRetried
<1>1. IInv => UnknownNotRetried
  <2> SUFFICES ASSUME IInv, NEW n \in Node, NEW a \in DOMAIN att[n],
                      EffectClass[n] = "NON_COOPERATING",
                      att[n][a].unknown \/ att[n][a].state = "TIMED_OUT"
               PROVE  a = Len(att[n])
    BY DEF UnknownNotRetried
  <2>1. RowInv(node[n], att[n], EffectClass[n]) /\ a \in 1 .. Len(att[n])
    BY RowFacts
  <2>2. AttemptInv(node[n], att[n], EffectClass[n], a)
    BY ONLY <2>1 DEF RowInv
  <2> QED
    BY <2>2 DEF AttemptInv
<1> QED
  BY <1>1, Inductive, PTL

\* A workflow that has ended has no node to run and no attempt to claim or complete.
THEOREM QuietEnd == Spec => []EndedIsQuiet
<1>1. IInv => EndedIsQuiet
  <2> SUFFICES ASSUME IInv, isTerminalWorkflowState(wf), NEW n \in Node, Exists(n)
               PROVE  Settled(n) /\ \A a \in DOMAIN att[n] : ~att[n][a].current
    BY DEF EndedIsQuiet
  <2>1. Settled(n)
    BY DEF IInv, StoreInv, Quiet
  <2>2. ASSUME NEW a \in DOMAIN att[n], att[n][a].current PROVE FALSE
    <3>1. AttemptInv(node[n], att[n], EffectClass[n], a) /\ a # 0
      BY RowFacts DEF RowInv
    <3> QED
      BY <2>1, <2>2, <3>1 DEF AttemptInv, Settled
  <2> QED
    BY <2>1, <2>2
<1> QED
  BY <1>1, Inductive, PTL

-----------------------------------------------------------------------------
(* The end of a workflow *)

\* What a step may do to a workflow that has ended.
Final ==
  /\ UNCHANGED <<wf, node, retries>>
  /\ \A n \in Node : \A a \in DOMAIN att[n] :
       [att'[n][a] EXCEPT !.evidence = att[n][a].evidence] = att[n][a]

\* A step that leaves the rows alone, or adds evidence.
LEMMA FinalStep ==
  ASSUME IInv,
         \/ UNCHANGED <<wf, node, retries, att>>
         \/ \E n \in Node : \E a \in 1 .. Len(att[n]) : RecordEvidence(n, a)
  PROVE  Final
<1>1. \A n \in Node : att[n] \in Seq(Attempt) /\ DOMAIN att[n] = 1 .. Len(att[n])
  BY RowFacts
<1>2. \A r \in Attempt, b \in BOOLEAN :
        [[r EXCEPT !.evidence = b] EXCEPT !.evidence = r.evidence] = r
  BY DEF Attempt
<1>3. \A r \in Attempt : [r EXCEPT !.evidence = r.evidence] = r
  BY DEF Attempt
<1>4. CASE UNCHANGED <<wf, node, retries, att>>
  <2>1. ASSUME NEW n \in Node, NEW a \in DOMAIN att[n]
        PROVE  [att'[n][a] EXCEPT !.evidence = att[n][a].evidence] = att[n][a]
    <3>1. att[n][a] \in Attempt
      BY <1>1, ElementOfSeq
    <3> QED
      BY <1>3, <1>4, <3>1
  <2> QED
    BY <1>4, <2>1 DEF Final
<1>5. CASE \E n \in Node : \E a \in 1 .. Len(att[n]) : RecordEvidence(n, a)
  <2>1. PICK n \in Node : \E a \in 1 .. Len(att[n]) : RecordEvidence(n, a)
    BY <1>5
  <2>2. PICK a \in 1 .. Len(att[n]) : RecordEvidence(n, a)
    BY <2>1
  <2> DEFINE r == [att[n][a] EXCEPT !.evidence = TRUE]
  <2>3. UNCHANGED <<wf, node, retries>> /\ SetAttempt(n, a, r)
    BY <2>2 DEF RecordEvidence
  <2> HIDE DEF r
  <2>4. ASSUME NEW m \in Node, NEW b \in DOMAIN att[m]
        PROVE  [att'[m][b] EXCEPT !.evidence = att[m][b].evidence] = att[m][b]
    <3>1. att[m][b] \in Attempt /\ att \in [Node -> Seq(Attempt)]
      BY <1>1, ElementOfSeq DEF IInv, StoreInv, StoreTypeOK
    <3>2. CASE m = n /\ b = a
      <4>1. att'[m][b] = r
        BY <1>1, <2>3, <3>1, <3>2 DEF SetAttempt
      <4> QED
        BY <1>2, <3>1, <3>2, <4>1 DEF r
    <3>3. CASE ~(m = n /\ b = a)
      <4>1. att'[m][b] = att[m][b]
        BY <1>1, <2>3, <3>1, <3>3 DEF SetAttempt
      <4> QED
        BY <1>3, <3>1, <4>1
    <3> QED
      BY <3>2, <3>3
  <2> QED
    BY <2>3, <2>4 DEF Final
<1> QED
  BY <1>4, <1>5

\* Every other transaction refuses a workflow that has ended.
LEMMA EndedRefuses ==
  ASSUME isTerminalWorkflowState(wf), NEW s, NEW n, NEW a, NEW st, NEW next
  PROVE  /\ ~CanApplyOwnerTransition(s, st, n) /\ ~CanCreateAttempt(s, n)
         /\ ~CanConsumeResult(s, n, a) /\ ~CanTimeoutAttempt(s, n, a)
         /\ ~CanScheduleTimer(s, n) /\ ~CanAdvanceGraph(s, n, next)
         /\ ~CanClaim(n, a) /\ ~CanReplayClaim(n, a)
         /\ ~CanRecordResult(n, a) /\ ~HeartbeatAttempt(n, a)
<1>1. legalTransition[wf] = {}
  BY DEF isTerminalWorkflowState, legalTransition
<1>2. wf \notin {"RUNNABLE", "WAITING_ACTIVITY", "WAITING_TIMER"}
  BY DEF isTerminalWorkflowState
<1> QED
  BY <1>1, <1>2 DEF CanApplyOwnerTransition, CanCreateAttempt, CanConsumeResult,
    CanTimeoutAttempt, CanScheduleTimer, CanAdvanceGraph, CanClaim, CanReplayClaim,
    CanRecordResult, HeartbeatAttempt

\* The steps of a scheduler after the end.
LEMMA SchedulerFinal ==
  ASSUME IInv, isTerminalWorkflowState(wf), NEW s \in Scheduler, SchedulerAction(s)
  PROVE  Final
<1> DEFINE n == sched[s].n
           a == sched[s].a
<1>1. CASE StartPass(s) \/ ListCancellations(s) \/ EnterPass(s) \/ Decide(s) \/ LostLease(s)
           \/ Reread(s) \/ StepFails(s) \/ EngineRuns(s) \/ ClosePass(s)
  <2>1. UNCHANGED <<wf, node, retries, att>>
    BY <1>1 DEF StartPass, AcquireLease, ListCancellations, EnterPass, Decide, LostLease,
         Reread, StepFails, EngineRuns, ClosePass, storeVars, dataVars
  <2> QED
    BY <2>1, FinalStep
<1>2. CASE ApplyCancellation(s)
  <2>1. UNCHANGED <<wf, node, retries, att>>
    BY <1>2 DEF ApplyCancellation, ApplyCancellationRequest, storeVars
  <2> QED
    BY <2>1, FinalStep
<1>3. CASE PauseUnsupported(s)
  <2>1. UNCHANGED <<wf, node, retries, att>>
    BY <1>3, EndedRefuses DEF PauseUnsupported, storeVars
  <2> QED
    BY <2>1, FinalStep
<1>4. CASE TakeStep(s)
  <2>1. CanStep(s, sched[s].op, n, a)
    BY <1>4 DEF TakeStep
  <2> QED
    BY <2>1, EndedRefuses DEF CanStep
<1>5. CASE EngineRecords(s)
  <2>1. n \in Node /\ a \in 1 .. Len(att[n])
    BY <1>5 DEF EngineRecords, IInv, PassInv
  <2>2. ~RecordResult(n, a, sched[s].st)
    BY EndedRefuses DEF RecordResult
  <2>3. RecordEvidence(n, a) \/ UNCHANGED storeVars
    BY <1>5, <2>2 DEF EngineRecords
  <2> QED
    BY <2>1, <2>3, FinalStep DEF storeVars
<1> QED
  BY <1>1, <1>2, <1>3, <1>4, <1>5 DEF SchedulerAction

\* The steps of a worker after the end.
LEMMA SlotFinal ==
  ASSUME IInv, isTerminalWorkflowState(wf), NEW e \in Slot,
         WorkerStep(e) \/ HeartbeatStep(e) \/ DeliverStep(e) \/ WorkerFault(e)
  PROVE  Final
<1> DEFINE n == exec[e].n
           a == exec[e].a
<1>1. ~RecordResult(n, a, exec[e].st) /\ ~ClaimAttempt(n, a) /\ ~HeartbeatAttempt(n, a)
      /\ ~CanReplayClaim(n, a)
  BY EndedRefuses DEF RecordResult, ClaimAttempt
<1>2. ~Claims(e) /\ ~Heartbeat(e) /\ ~ResultResponseLost(e)
  BY <1>1 DEF Claims, Heartbeat, ResultResponseLost
<1>3. CASE PostResult(e)
  <2>1. n \in Node /\ a \in 1 .. Len(att[n])
    BY <1>3, SlotKnows DEF PostResult
  <2>2. RecordEvidence(n, a) \/ UNCHANGED storeVars
    BY <1>1, <1>3 DEF PostResult
  <2> QED
    BY <2>1, <2>2, FinalStep DEF storeVars
<1>4. CASE ~PostResult(e)
  <2>1. UNCHANGED <<wf, node, retries, att>>
    BY <1>2, <1>4 DEF WorkerStep, WorkerAction, Claim, ClaimRefused, Finish, HeartbeatStep,
         DeliverStep, Deliver, WorkerFault, CrashWorker, ClaimResponseLost, storeVars
  <2> QED
    BY <2>1, FinalStep
<1> QED
  BY <1>3, <1>4

\* A terminal workflow is never reopened: whatever a late pass, a late worker, a timer,
\* a deadline or a client does, only evidence is added to its attempts.
THEOREM FinalEnd == Spec => EndIsFinal
<1>1. IInv /\ [Next]_vars =>
        [isTerminalWorkflowState(wf) =>
           /\ UNCHANGED <<wf, node, retries>>
           /\ \A n \in Node : \A a \in DOMAIN att[n] :
                [att'[n][a] EXCEPT !.evidence = att[n][a].evidence] = att[n][a]]_vars
  <2> SUFFICES ASSUME IInv, Next, isTerminalWorkflowState(wf) PROVE Final
    BY DEF Final
  <2>1. ASSUME NEW s \in Scheduler,
               SchedulerStep(s) \/ CrashSchedulerStep(s) \/ PassFailsStep(s)
        PROVE  Final
    <3>1. CASE SchedulerStep(s)
      BY <3>1, SchedulerFinal DEF SchedulerStep
    <3>2. CASE CrashSchedulerStep(s)
      BY <3>2, FinalStep DEF CrashSchedulerStep, CrashScheduler
    <3>3. CASE PassFailsStep(s)
      BY <3>3, FinalStep DEF PassFailsStep, PassFails, storeVars
    <3> QED
      BY <2>1, <3>1, <3>2, <3>3
  <2>2. ASSUME NEW e \in Slot,
               WorkerStep(e) \/ HeartbeatStep(e) \/ DeliverStep(e) \/ WorkerFault(e)
        PROVE  Final
    BY <2>2, SlotFinal
  <2>3. ASSUME NEW n \in Node, DeadlinePasses(n) PROVE FALSE
    <3> DEFINE a == node[n].cur
    <3>1. a # 0 /\ att[n][a].current
      BY <2>3 DEF DeadlinePasses
    <3>2. RowInv(node[n], att[n], EffectClass[n])
      BY RowFacts
    <3>3. node[n].state = "WAITING_ACTIVITY"
      BY <3>1, <3>2 DEF RowInv
    <3> QED
      BY <3>3 DEF IInv, StoreInv, Quiet, Exists, Settled, isTerminalWorkflowState
  <2>4. CASE \/ \E n \in Node : TimerDueStep(n)
             \/ LeaseExpiresStep \/ AbandonedLeaseExpires \/ CancellationStep \/ Done
    <3>1. UNCHANGED <<wf, node, retries, att>>
      BY <2>4 DEF TimerDueStep, TimerDue, LeaseExpiresStep, AbandonedLeaseExpires,
           LeaseExpires, CancellationStep, RequestCancellation, Done, vars, dataVars
    <3> QED
      BY <3>1, FinalStep
  <2> QED
    BY <2>1, <2>2, <2>3, <2>4 DEF Next, DeadlinePassesStep, HeartbeatsDelayed
<1> QED
  BY Inductive, <1>1, PTL DEF Spec, EndIsFinal
=============================================================================
