------------------------ MODULE WorkflowStoreProofs --------------------------
(***************************************************************************)
(* What every transaction of WorkflowStore preserves, row by row: a node   *)
(* instance together with the sequence of its attempts.  RuntimeProofs     *)
(* lifts these lemmas to the whole system.                                 *)
(***************************************************************************)
EXTENDS WorkflowStore, SequenceTheorems, TLAPS

Class == {"PURE", "COOPERATING", "NON_COOPERATING"}

Open == {"DISPATCHABLE", "CLAIMED"}

\* Attempt a of node row nd with attempts ats.
AttemptInv(nd, ats, class, a) ==
  /\ ats[a].current => a = Len(ats) /\ nd.cur = a /\ ats[a].state \in Open
  /\ ats[a].state \in Open => ats[a].current
  /\ ats[a].state = "SUCCEEDED" =>
       a = Len(ats) /\ (nd.cur = a \/ nd.state \in {"SUCCEEDED", "CANCELED"})
  /\ ats[a].state = "CANCELED" => a = Len(ats) /\ nd.state = "CANCELED"
  /\ ats[a].unknown => ats[a].state \in {"TIMED_OUT", "CANCELED"}
  /\ ats[a].state = "TIMED_OUT" /\ class = "NON_COOPERATING" =>
       a = Len(ats) /\ (nd.cur = a \/ nd.state = "CANCELED")

RowInv(nd, ats, class) ==
  /\ nd.cur # 0 => nd.cur = Len(ats) /\ nd.state = "WAITING_ACTIVITY"
  /\ nd.accepted # 0 => nd.accepted = Len(ats) /\ ats[nd.accepted].state = "SUCCEEDED"
  /\ nd.state = "ABSENT" => ats = <<>>
  /\ \A a \in 1 .. Len(ats) : AttemptInv(nd, ats, class, a)

-----------------------------------------------------------------------------
(* Sequences *)

\* Replacing an element of a sequence of attempts.
LEMMA ReplaceElement ==
  ASSUME NEW ats \in Seq(Attempt), NEW a \in 1 .. Len(ats), NEW r \in Attempt,
         NEW t, t = [ats EXCEPT ![a] = r]
  PROVE  /\ t \in Seq(Attempt)
         /\ Len(ats) \in Nat /\ Len(t) = Len(ats)
         /\ t[a] = r
         /\ \A b \in 1 .. Len(ats) : b # a => t[b] = ats[b]
  BY ExceptSeq, LenProperties

\* Appending an element to a sequence of attempts.
LEMMA AppendElement ==
  ASSUME NEW ats \in Seq(Attempt), NEW r \in Attempt, NEW t, t = Append(ats, r)
  PROVE  /\ t \in Seq(Attempt)
         /\ Len(ats) \in Nat /\ Len(t) = Len(ats) + 1
         /\ t[Len(ats) + 1] = r
         /\ \A b \in 1 .. Len(ats) : t[b] = ats[b]
  BY AppendProperties, LenProperties

-----------------------------------------------------------------------------
(* Rows *)

\* A node instance that AdvanceGraph or CreateWorkflow inserts.
LEMMA NewRow ==
  ASSUME NEW class \in Class
  PROVE  NewNode \in NodeRow /\ RowInv(NewNode, <<>>, class)
  BY DEF NewNode, NodeRow, RowInv, WorkflowState

\* A node without an attempt moves to another state (ApplyOwnerTransition,
\* ScheduleTimer, AdvanceGraph on a control node).
LEMMA RelabelledRow ==
  ASSUME NEW nd \in NodeRow, NEW ats \in Seq(Attempt), NEW class \in Class,
         NEW nd2 \in NodeRow, RowInv(nd, ats, class),
         nd.state \in {"RUNNABLE", "WAITING_TIMER"},
         nd2.state # "ABSENT", nd2.cur = nd.cur, nd2.accepted = nd.accepted
  PROVE  RowInv(nd2, ats, class)
  BY LenProperties DEF RowInv, AttemptInv, NodeRow

\* An attempt that a change of its neighbours leaves alone.
LEMMA SameAttempt ==
  ASSUME NEW nd, NEW ats, NEW t, NEW class, NEW b, Len(t) = Len(ats), t[b] = ats[b],
         AttemptInv(nd, ats, class, b)
  PROVE  AttemptInv(nd, t, class, b)
  BY DEF AttemptInv

\* CreateAttempt.
LEMMA CreatedRow ==
  ASSUME NEW nd \in NodeRow, NEW ats \in Seq(Attempt), NEW class \in Class,
         NEW nd2 \in NodeRow, RowInv(nd, ats, class),
         nd.state = "WAITING_ACTIVITY", nd.cur = 0,
         nd2.state = nd.state, nd2.cur = Len(ats) + 1, nd2.accepted = nd.accepted,
         NEW t, t = Append(ats, NewAttempt)
  PROVE  t \in Seq(Attempt) /\ RowInv(nd2, t, class)
<1>1. NewAttempt \in Attempt
  BY DEF NewAttempt, Attempt, AttemptState
<1>2. /\ t \in Seq(Attempt)
      /\ Len(ats) \in Nat /\ Len(t) = Len(ats) + 1
      /\ t[Len(ats) + 1] = NewAttempt
      /\ \A b \in 1 .. Len(ats) : t[b] = ats[b]
  BY <1>1, AppendElement
<1>3. nd.accepted = 0
  BY <1>2 DEF RowInv, AttemptInv, NodeRow
<1>4. ASSUME NEW b \in 1 .. Len(ats) PROVE AttemptInv(nd2, t, class, b)
  BY <1>2 DEF RowInv, AttemptInv
<1>5. AttemptInv(nd2, t, class, Len(ats) + 1)
  BY <1>2 DEF AttemptInv, NewAttempt, Open
<1>6. \A b \in 1 .. Len(t) : AttemptInv(nd2, t, class, b)
  BY <1>2, <1>4, <1>5
<1> QED
  BY <1>2, <1>3, <1>6 DEF RowInv

\* The current attempt stays open: RedispatchUnclaimed, ClaimAttempt, HeartbeatAttempt
\* and the passing of its deadline.
LEMMA StillOpenRow ==
  ASSUME NEW nd \in NodeRow, NEW ats \in Seq(Attempt), NEW class \in Class,
         RowInv(nd, ats, class), NEW a \in 1 .. Len(ats), ats[a].current,
         NEW r \in Attempt, r.current, r.state \in Open, r.unknown = ats[a].unknown,
         NEW t, t = [ats EXCEPT ![a] = r]
  PROVE  t \in Seq(Attempt) /\ RowInv(nd, t, class)
<1>1. /\ t \in Seq(Attempt)
      /\ Len(ats) \in Nat /\ Len(t) = Len(ats)
      /\ t[a] = r
      /\ \A b \in 1 .. Len(ats) : b # a => t[b] = ats[b]
  BY ReplaceElement
<1>2. AttemptInv(nd, ats, class, a)
  BY DEF RowInv
<1>3. AttemptInv(nd, t, class, a)
  BY <1>1, <1>2 DEF AttemptInv, Open
<1>4. ASSUME NEW b \in 1 .. Len(ats), b # a PROVE AttemptInv(nd, t, class, b)
  <2>1. t[b] = ats[b] /\ AttemptInv(nd, ats, class, b)
    BY <1>1, <1>4 DEF RowInv
  <2> QED
    BY ONLY <1>1, <2>1, SameAttempt
<1>5. nd.accepted = 0
  <2>1. a = Len(ats) /\ ats[a].state \in Open
    BY <1>2 DEF AttemptInv
  <2>2. nd.accepted # 0 => ats[a].state = "SUCCEEDED"
    BY <2>1 DEF RowInv
  <2> QED
    BY ONLY <2>1, <2>2 DEF Open
<1>6. \A b \in 1 .. Len(t) : AttemptInv(nd, t, class, b)
  BY <1>1, <1>3, <1>4
<1>7. nd.cur = a /\ a # 0
  BY <1>2, LenProperties DEF AttemptInv
<1>8. nd.cur = Len(ats) /\ nd.state = "WAITING_ACTIVITY"
  BY <1>7 DEF RowInv
<1>9. RowInv(nd, t, class)
  BY ONLY <1>1, <1>5, <1>6, <1>8 DEF RowInv
<1> QED
  BY <1>1, <1>9

\* The current attempt ends and the node still points to it: RecordResult and
\* TimeoutReconciliation.
LEMMA EndedRow ==
  ASSUME NEW nd \in NodeRow, NEW ats \in Seq(Attempt), NEW class \in Class,
         RowInv(nd, ats, class), NEW a \in 1 .. Len(ats), ats[a].current,
         NEW r \in Attempt, ~r.current, r.state \notin Open, r.state # "CANCELED",
         r.unknown => r.state = "TIMED_OUT",
         NEW t, t = [ats EXCEPT ![a] = r]
  PROVE  t \in Seq(Attempt) /\ RowInv(nd, t, class)
<1>1. /\ t \in Seq(Attempt)
      /\ Len(ats) \in Nat /\ Len(t) = Len(ats)
      /\ t[a] = r
      /\ \A b \in 1 .. Len(ats) : b # a => t[b] = ats[b]
  BY ReplaceElement
<1>2. AttemptInv(nd, ats, class, a)
  BY DEF RowInv
<1>3. AttemptInv(nd, t, class, a)
  BY <1>1, <1>2 DEF AttemptInv, Open
<1>4. ASSUME NEW b \in 1 .. Len(ats), b # a PROVE AttemptInv(nd, t, class, b)
  <2>1. t[b] = ats[b] /\ AttemptInv(nd, ats, class, b)
    BY <1>1, <1>4 DEF RowInv
  <2> QED
    BY ONLY <1>1, <2>1, SameAttempt
<1>5. nd.accepted = 0
  <2>1. a = Len(ats) /\ ats[a].state \in Open
    BY <1>2 DEF AttemptInv
  <2>2. nd.accepted # 0 => ats[a].state = "SUCCEEDED"
    BY <2>1 DEF RowInv
  <2> QED
    BY ONLY <2>1, <2>2 DEF Open
<1>6. \A b \in 1 .. Len(t) : AttemptInv(nd, t, class, b)
  BY <1>1, <1>3, <1>4
<1>7. nd.cur = a /\ a # 0
  BY <1>2, LenProperties DEF AttemptInv
<1>8. nd.cur = Len(ats) /\ nd.state = "WAITING_ACTIVITY"
  BY <1>7 DEF RowInv
<1>9. RowInv(nd, t, class)
  BY ONLY <1>1, <1>5, <1>6, <1>8 DEF RowInv
<1> QED
  BY <1>1, <1>9

\* A result is kept as evidence of an attempt that is over.
LEMMA EvidenceRow ==
  ASSUME NEW nd \in NodeRow, NEW ats \in Seq(Attempt), NEW class \in Class,
         RowInv(nd, ats, class), NEW a \in 1 .. Len(ats),
         NEW r \in Attempt, r.current = ats[a].current, r.state = ats[a].state,
         r.unknown = ats[a].unknown,
         NEW t, t = [ats EXCEPT ![a] = r]
  PROVE  t \in Seq(Attempt) /\ RowInv(nd, t, class)
<1>1. /\ t \in Seq(Attempt)
      /\ Len(ats) \in Nat /\ Len(t) = Len(ats)
      /\ t[a] = r
      /\ \A b \in 1 .. Len(ats) : b # a => t[b] = ats[b]
  BY ReplaceElement
<1>2. \A b \in 1 .. Len(ats) : /\ t[b].current = ats[b].current
                               /\ t[b].state = ats[b].state
                               /\ t[b].unknown = ats[b].unknown
  BY <1>1
<1>3. ASSUME NEW b \in 1 .. Len(t) PROVE AttemptInv(nd, t, class, b)
  <2>1. b \in 1 .. Len(ats) /\ AttemptInv(nd, ats, class, b)
    BY <1>1 DEF RowInv
  <2> QED
    BY <1>1, <1>2, <2>1 DEF AttemptInv
<1>4. nd.accepted # 0 => nd.accepted = Len(t) /\ t[nd.accepted].state = "SUCCEEDED"
  BY <1>1, <1>2 DEF RowInv
<1>5. nd.state # "ABSENT"
  BY <1>1 DEF RowInv
<1> QED
  BY <1>1, <1>3, <1>4, <1>5 DEF RowInv

\* TimeoutReplacement: the attempt ends and the node points to its successor.
LEMMA ReplacedRow ==
  ASSUME NEW nd \in NodeRow, NEW ats \in Seq(Attempt), NEW class \in Class,
         RowInv(nd, ats, class), NEW a \in 1 .. Len(ats), ats[a].current,
         class # "NON_COOPERATING",
         NEW nd2 \in NodeRow, nd2.state = nd.state, nd2.cur = a + 1,
         nd2.accepted = nd.accepted,
         NEW u, u = [ats EXCEPT ![a] = TimedOut(ats[a])],
         NEW t, t = Append(u, NewAttempt)
  PROVE  t \in Seq(Attempt) /\ RowInv(nd2, t, class)
<1>1. ats[a] \in Attempt /\ Len(ats) \in Nat
  BY ElementOfSeq, LenProperties
<1>2. TimedOut(ats[a]) \in Attempt /\ NewAttempt \in Attempt
  BY <1>1 DEF TimedOut, NewAttempt, Attempt, AttemptState
<1>3. /\ u \in Seq(Attempt)
      /\ Len(u) = Len(ats)
      /\ u[a] = TimedOut(ats[a])
      /\ \A b \in 1 .. Len(ats) : b # a => u[b] = ats[b]
  BY <1>2, ReplaceElement
<1>4. /\ t \in Seq(Attempt)
      /\ Len(t) = Len(ats) + 1
      /\ t[Len(ats) + 1] = NewAttempt
      /\ \A b \in 1 .. Len(ats) : t[b] = u[b]
  BY <1>2, <1>3, AppendElement
<1>5. AttemptInv(nd, ats, class, a) /\ a = Len(ats) /\ nd.cur = a
  BY DEF RowInv, AttemptInv
<1>6. nd.accepted = 0 /\ nd.state = "WAITING_ACTIVITY"
  BY <1>1, <1>5 DEF RowInv, AttemptInv, Open
<1>7. ~ats[a].unknown
  BY <1>5 DEF AttemptInv, Open
<1>8. AttemptInv(nd2, t, class, a)
  <2>1. t[a] = TimedOut(ats[a])
    BY <1>3, <1>4
  <2>2. t[a].state = "TIMED_OUT" /\ ~t[a].current /\ ~t[a].unknown
    BY <1>1, <1>7, <2>1 DEF TimedOut, Attempt
  <2> QED
    BY <2>2 DEF AttemptInv, Open
<1>9. ASSUME NEW b \in 1 .. Len(ats), b # a PROVE AttemptInv(nd2, t, class, b)
  <2>1. t[b] = ats[b] /\ AttemptInv(nd, ats, class, b)
    BY <1>3, <1>4, <1>9 DEF RowInv
  <2> QED
    BY <1>1, <1>4, <1>5, <1>6, <1>9, <2>1 DEF AttemptInv
<1>10. AttemptInv(nd2, t, class, Len(ats) + 1)
  BY <1>1, <1>4, <1>5 DEF AttemptInv, NewAttempt, Open
<1>11. ASSUME NEW b \in 1 .. Len(t) PROVE AttemptInv(nd2, t, class, b)
  <2>1. b = a \/ b = Len(ats) + 1 \/ (b \in 1 .. Len(ats) /\ b # a)
    BY <1>1, <1>4
  <2> QED
    BY <1>8, <1>9, <1>10, <2>1
<1>12. nd2.cur = Len(t) /\ nd2.state = "WAITING_ACTIVITY" /\ nd2.accepted = 0
  BY <1>4, <1>5, <1>6
<1>13. RowInv(nd2, t, class)
  BY ONLY <1>11, <1>12 DEF RowInv
<1> QED
  BY <1>4, <1>13

\* ConsumeResult: the node lets go of an attempt that has an outcome.
LEMMA ConsumedRow ==
  ASSUME NEW nd \in NodeRow, NEW ats \in Seq(Attempt), NEW class \in Class,
         RowInv(nd, ats, class), NEW a \in 1 .. Len(ats), nd.cur = a, ~ats[a].current,
         isTerminalAttempt(ats[a].state),
         NEW nd2 \in NodeRow, nd2.cur = 0, nd2.state # "ABSENT",
         ats[a].state = "SUCCEEDED" => nd2.state = "SUCCEEDED" /\ nd2.accepted = a,
         ats[a].state # "SUCCEEDED" => nd2.accepted = nd.accepted
  PROVE  RowInv(nd2, ats, class)
<1>1. Len(ats) \in Nat /\ a = Len(ats) /\ nd.state = "WAITING_ACTIVITY"
  BY LenProperties DEF RowInv
<1>2. nd2.accepted # 0 => nd2.accepted = Len(ats) /\ ats[nd2.accepted].state = "SUCCEEDED"
  BY <1>1 DEF RowInv
<1>3. ASSUME NEW b \in 1 .. Len(ats) PROVE AttemptInv(nd2, ats, class, b)
  <2>1. AttemptInv(nd, ats, class, b)
    BY DEF RowInv
  <2> QED
    BY <1>1, <2>1 DEF AttemptInv, isTerminalAttempt, Open
<1> QED
  BY <1>1, <1>2, <1>3 DEF RowInv

\* cancelWorkflowTx: the node ends, and with it the attempt it points to.
LEMMA CanceledRow ==
  ASSUME NEW nd \in NodeRow, NEW ats \in Seq(Attempt), NEW n \in Node,
         RowInv(nd, ats, EffectClass[n]), nd.state # "ABSENT",
         NEW nd2 \in NodeRow, nd2.state = "CANCELED", nd2.cur = 0,
         nd2.accepted = nd.accepted,
         NEW t,
         t = IF nd.cur # 0 THEN [ats EXCEPT ![nd.cur] = CanceledAttempt(n, ats[nd.cur])]
             ELSE ats
  PROVE  t \in Seq(Attempt) /\ Len(t) = Len(ats) /\ RowInv(nd2, t, EffectClass[n])
<1> DEFINE class == EffectClass[n]
<1>1. CASE nd.cur = 0
  <2>1. t = ats
    BY <1>1
  <2>2. \A b \in 1 .. Len(ats) : AttemptInv(nd2, ats, class, b)
    BY <1>1 DEF RowInv, AttemptInv
  <2> QED
    BY <2>1, <2>2 DEF RowInv
<1>2. CASE nd.cur # 0
  <2> DEFINE a == nd.cur
             r == CanceledAttempt(n, ats[a])
  <2>1. Len(ats) \in Nat /\ a = Len(ats) /\ a \in 1 .. Len(ats)
    BY <1>2, LenProperties DEF RowInv, NodeRow
  <2>2. ats[a] \in Attempt /\ AttemptInv(nd, ats, class, a)
    BY <2>1, ElementOfSeq DEF RowInv
  <2>3. r \in Attempt
    BY <2>2 DEF CanceledAttempt, Attempt, AttemptState
  <2> HIDE DEF r
  <2>4. /\ t \in Seq(Attempt)
        /\ Len(t) = Len(ats)
        /\ t[a] = r
        /\ \A b \in 1 .. Len(ats) : b # a => t[b] = ats[b]
    BY <1>2, <2>1, <2>3, ReplaceElement DEF r
  <2>5. /\ ~r.current
        /\ ats[a].current => r.state = "CANCELED"
        /\ ~ats[a].current => r = ats[a]
    BY <2>2 DEF r, CanceledAttempt, Attempt
  <2>6. AttemptInv(nd2, t, class, a)
    BY <2>1, <2>2, <2>4, <2>5 DEF AttemptInv, Open
  <2>7. ASSUME NEW b \in 1 .. Len(ats), b # a PROVE AttemptInv(nd2, t, class, b)
    BY <2>1, <2>4, <2>7 DEF AttemptInv, RowInv
  <2>8. \A b \in 1 .. Len(t) : AttemptInv(nd2, t, class, b)
    BY <2>4, <2>6, <2>7
  <2>9. ASSUME nd.accepted # 0 PROVE t[nd.accepted].state = "SUCCEEDED"
    <3>1. nd.accepted = a /\ ats[a].state = "SUCCEEDED"
      BY <2>1, <2>9 DEF RowInv
    <3>2. ~ats[a].current
      BY <2>2, <3>1 DEF AttemptInv, Open
    <3> QED
      BY <2>4, <2>5, <3>1, <3>2
  <2> QED
    BY <2>4, <2>8, <2>9 DEF RowInv
<1> QED
  BY <1>1, <1>2

-----------------------------------------------------------------------------
(* The store *)

Rows == \A n \in Node : RowInv(node[n], att[n], EffectClass[n])

\* No more timers are due than are pending.
TimersOrdered == \A n \in Node : timers[n].due <= timers[n].pending

Quiet == isTerminalWorkflowState(wf) => \A n \in Node : Exists(n) => Settled(n)

StoreInv == StoreTypeOK /\ Rows /\ TimersOrdered /\ Quiet

\* Attempts are never deleted, and a node changes only with the revision.
Keep ==
  /\ \A n \in Node : Len(att'[n]) >= Len(att[n])
  /\ read' = {} \/ node' = node

\* One node row and the attempts of that node change.
LEMMA UpdateRow ==
  ASSUME StoreTypeOK, Rows, NEW n \in Node,
         NEW row \in NodeRow, NEW t \in Seq(Attempt), RowInv(row, t, EffectClass[n]),
         Len(t) >= Len(att[n]),
         node' = [node EXCEPT ![n] = row], att' = [att EXCEPT ![n] = t]
  PROVE  /\ node' \in [Node -> NodeRow]
         /\ att' \in [Node -> Seq(Attempt)]
         /\ Rows'
         /\ \A m \in Node : Len(att'[m]) >= Len(att[m])
         /\ node'[n] = row /\ \A m \in Node \ {n} : node'[m] = node[m]
<1> USE DEF StoreTypeOK
<1>1. node' \in [Node -> NodeRow] /\ att' \in [Node -> Seq(Attempt)]
  OBVIOUS
<1>2. node'[n] = row /\ att'[n] = t
  OBVIOUS
<1>3. \A m \in Node \ {n} : node'[m] = node[m] /\ att'[m] = att[m]
  OBVIOUS
<1>4. Rows'
  BY <1>2, <1>3 DEF Rows
<1>5. ASSUME NEW m \in Node PROVE Len(att'[m]) >= Len(att[m])
  <2>1. Len(att[m]) \in Nat
    BY LenProperties
  <2> QED
    BY <1>2, <1>3, <2>1
<1> QED
  BY <1>1, <1>2, <1>3, <1>4, <1>5

\* Only the row of node n changes.
LEMMA UpdateNode ==
  ASSUME StoreTypeOK, Rows, NEW n \in Node,
         NEW row \in NodeRow, RowInv(row, att[n], EffectClass[n]),
         node' = [node EXCEPT ![n] = row], att' = att
  PROVE  /\ node' \in [Node -> NodeRow]
         /\ att' \in [Node -> Seq(Attempt)]
         /\ Rows'
         /\ \A m \in Node : Len(att'[m]) >= Len(att[m])
         /\ node'[n] = row /\ \A m \in Node \ {n} : node'[m] = node[m]
<1>1. node' \in [Node -> NodeRow] /\ att' \in [Node -> Seq(Attempt)]
  BY DEF StoreTypeOK
<1>2. node'[n] = row /\ \A m \in Node \ {n} : node'[m] = node[m]
  BY DEF StoreTypeOK
<1>3. Rows'
  BY <1>2 DEF Rows
<1>4. ASSUME NEW m \in Node PROVE Len(att'[m]) >= Len(att[m])
  BY LenProperties DEF StoreTypeOK
<1> QED
  BY <1>1, <1>2, <1>3, <1>4

\* Only attempt a of node n changes.
LEMMA UpdateAttempt ==
  ASSUME StoreTypeOK, Rows, NEW n \in Node, NEW t \in Seq(Attempt),
         RowInv(node[n], t, EffectClass[n]), Len(t) = Len(att[n]),
         node' = node, att' = [att EXCEPT ![n] = t]
  PROVE  /\ att' \in [Node -> Seq(Attempt)]
         /\ Rows'
         /\ \A m \in Node : Len(att'[m]) >= Len(att[m])
<1>1. att' \in [Node -> Seq(Attempt)]
  BY DEF StoreTypeOK
<1>2. att'[n] = t /\ \A m \in Node \ {n} : att'[m] = att[m]
  BY DEF StoreTypeOK
<1>3. Rows'
  BY <1>2 DEF Rows
<1>4. ASSUME NEW m \in Node PROVE Len(att'[m]) >= Len(att[m])
  <2>1. Len(att[m]) \in Nat
    BY LenProperties DEF StoreTypeOK
  <2> QED
    BY <1>2, <2>1
<1> QED
  BY <1>1, <1>3, <1>4

\* A transaction that leaves a workflow open cannot disturb Quiet.
LEMMA OpenIsQuiet ==
  ASSUME ~isTerminalWorkflowState(wf')
  PROVE  Quiet'
  BY DEF Quiet, isTerminalWorkflowState

\* The initial store.
LEMMA StoreInitInv == StoreInit => StoreInv
<1> SUFFICES ASSUME StoreInit PROVE StoreInv
  OBVIOUS
<1> USE GraphAssumption DEF StoreInit
<1>1. ASSUME NEW n \in Node PROVE node[n] \in NodeRow /\ RowInv(node[n], att[n], EffectClass[n])
  <2>1. node[n] = IF n = Root THEN NewNode ELSE [NewNode EXCEPT !.state = "ABSENT"]
    OBVIOUS
  <2>2. att[n] = <<>>
    OBVIOUS
  <2>3. CASE n = Root
    BY <2>1, <2>2, <2>3, NewRow DEF Class
  <2>4. CASE n # Root
    <3>1. node[n] = [state |-> "ABSENT", cur |-> 0, accepted |-> 0, fired |-> FALSE]
      BY <2>1, <2>4 DEF NewNode
    <3> HIDE DEF StoreInit
    <3> QED
      BY <2>2, <3>1 DEF NodeRow, RowInv
  <2> QED
    BY <2>3, <2>4
<1>2. StoreTypeOK
  <2>1. node \in [Node -> NodeRow]
    BY <1>1
  <2>2. <<>> \in Seq(Attempt)
    OBVIOUS
  <2> QED
    BY <2>1, <2>2 DEF StoreTypeOK, WorkflowState
<1>3. Rows
  BY <1>1 DEF Rows
<1>4. TimersOrdered
  BY DEF TimersOrdered
<1>5. Quiet
  BY DEF Quiet, isTerminalWorkflowState
<1> QED
  BY <1>2, <1>3, <1>4, <1>5 DEF StoreInv

-----------------------------------------------------------------------------
(* Every transaction preserves StoreInv. *)

\* Leases, references and reads change, and nothing else.
LEMMA LeasePreserves ==
  ASSUME StoreInv, UNCHANGED <<wf, node, att, retries, timers, cancel>>,
         lease' \in [owner : Scheduler \cup {None}, live : BOOLEAN],
         ref' \subseteq Scheduler, read' \subseteq Scheduler
  PROVE  StoreInv' /\ Keep
<1>1. StoreTypeOK'
  BY DEF StoreInv, StoreTypeOK
<1>2. Rows' /\ TimersOrdered' /\ Quiet'
  BY DEF StoreInv, Rows, TimersOrdered, Quiet, Exists, Settled
<1>3. \A m \in Node : Len(att'[m]) >= Len(att[m])
  BY LenProperties DEF StoreInv, StoreTypeOK
<1> QED
  BY <1>1, <1>2, <1>3 DEF StoreInv, Keep

\* Nothing changes.
LEMMA StoreStutter ==
  ASSUME StoreInv, UNCHANGED storeVars
  PROVE  StoreInv' /\ Keep
<1>1. /\ lease' \in [owner : Scheduler \cup {None}, live : BOOLEAN]
      /\ ref' \subseteq Scheduler /\ read' \subseteq Scheduler
      /\ UNCHANGED <<wf, node, att, retries, timers, cancel>>
  BY DEF StoreInv, StoreTypeOK, storeVars
<1> QED
  BY <1>1, LeasePreserves

\* TIMER_DUE and ACTIVITY_SCHEDULED on a node without an attempt.
LEMMA OwnerTransitionPreserves ==
  ASSUME StoreInv, NEW s \in Scheduler, NEW n \in Node,
         NEW new \in {"RUNNABLE", "WAITING_ACTIVITY"},
         s \in read => node[n].state \in {"RUNNABLE", "WAITING_TIMER"},
         ApplyOwnerTransition(s, new, n)
  PROVE  StoreInv' /\ Keep
<1> DEFINE row == [node[n] EXCEPT !.state = new,
                     !.fired = @ \/ (ConsumesTimer(new) /\ Kind[n] = "timer")]
<1>1. /\ node[n].state \in {"RUNNABLE", "WAITING_TIMER"}
      /\ node' = [node EXCEPT ![n] = row]
      /\ wf' = new /\ read' = {}
      /\ UNCHANGED <<lease, ref, att, retries, cancel>>
  BY GraphAssumption
  DEF ApplyOwnerTransition, CanApplyOwnerTransition, Fenced, SetNode, leaseVars
<1>2. StoreTypeOK /\ Rows /\ TimersOrdered /\ node[n] \in NodeRow /\ att[n] \in Seq(Attempt)
  BY DEF StoreInv, StoreTypeOK
<1>3. row \in NodeRow /\ row.cur = node[n].cur /\ row.accepted = node[n].accepted
      /\ row.state = new
  BY <1>2 DEF NodeRow, WorkflowState
<1> HIDE DEF row
<1>4. RowInv(row, att[n], EffectClass[n])
  BY <1>1, <1>2, <1>3, RelabelledRow, GraphAssumption DEF Rows, Class
<1>5. /\ node' \in [Node -> NodeRow]
      /\ Rows'
      /\ \A m \in Node : Len(att'[m]) >= Len(att[m])
  BY <1>1, <1>2, <1>3, <1>4, UpdateNode
<1>6. timers' \in [Node -> [pending : Nat, due : Nat]] /\ TimersOrdered'
  <2>1. CASE ConsumesTimer(new)
    <3>1. timers[n].due > 0
      BY <2>1 DEF ApplyOwnerTransition, CanApplyOwnerTransition
    <3> DEFINE timer == [pending |-> timers[n].pending - 1, due |-> timers[n].due - 1]
    <3>2. timers' = [timers EXCEPT ![n] = timer]
      BY <2>1, <1>2 DEF ApplyOwnerTransition, StoreTypeOK
    <3>3. timer \in [pending : Nat, due : Nat] /\ timer.due <= timer.pending
      BY <1>2, <3>1 DEF StoreTypeOK, TimersOrdered
    <3> HIDE DEF timer
    <3> QED
      BY <1>2, <3>2, <3>3 DEF StoreTypeOK, TimersOrdered
  <2>2. CASE ~ConsumesTimer(new)
    BY <1>2, <2>2 DEF ApplyOwnerTransition, StoreTypeOK, TimersOrdered
  <2> QED
    BY <2>1, <2>2
<1>7. StoreTypeOK'
  BY <1>1, <1>2, <1>5, <1>6 DEF StoreTypeOK, WorkflowState
<1>8. Quiet'
  BY <1>1, OpenIsQuiet DEF isTerminalWorkflowState
<1> QED
  BY <1>1, <1>5, <1>6, <1>7, <1>8 DEF StoreInv, Keep

\* LOCAL_ACTIVITY_UNSUPPORTED.
LEMMA PausePreserves ==
  ASSUME StoreInv, NEW s \in Scheduler,
         ApplyOwnerTransition(s, "PAUSED_UNSUPPORTED_VERSION", None)
  PROVE  StoreInv' /\ Keep
<1>1. /\ wf' = "PAUSED_UNSUPPORTED_VERSION" /\ read' = {}
      /\ UNCHANGED <<lease, ref, node, att, retries, timers, cancel>>
  BY DEF ApplyOwnerTransition, ConsumesTimer, leaseVars
<1>2. StoreTypeOK'
  BY <1>1 DEF StoreInv, StoreTypeOK, WorkflowState
<1>3. Rows' /\ TimersOrdered'
  BY <1>1 DEF StoreInv, Rows, TimersOrdered
<1>4. Quiet'
  BY <1>1, OpenIsQuiet DEF isTerminalWorkflowState
<1>5. \A m \in Node : Len(att'[m]) >= Len(att[m])
  BY <1>1, LenProperties DEF StoreInv, StoreTypeOK
<1> QED
  BY <1>1, <1>2, <1>3, <1>4, <1>5 DEF StoreInv, Keep

\* A new attempt.
LEMMA CreateAttemptPreserves ==
  ASSUME StoreInv, NEW s \in Scheduler, NEW n \in Node, CreateAttempt(s, n)
  PROVE  StoreInv' /\ Keep /\ Len(att'[n]) = Len(att[n]) + 1
<1> DEFINE row == [node[n] EXCEPT !.cur = Len(att[n]) + 1]
           t == Append(att[n], NewAttempt)
<1>1. /\ wf = "WAITING_ACTIVITY" /\ node[n].state = "WAITING_ACTIVITY" /\ node[n].cur = 0
      /\ node' = [node EXCEPT ![n] = row]
      /\ att' = [att EXCEPT ![n] = t]
      /\ read' = {}
      /\ UNCHANGED <<lease, ref, wf, retries, timers, cancel>>
  BY DEF CreateAttempt, CanCreateAttempt, SetNode, leaseVars
<1>2. StoreTypeOK /\ Rows /\ TimersOrdered /\ node[n] \in NodeRow /\ att[n] \in Seq(Attempt)
  BY DEF StoreInv, StoreTypeOK
<1>3. Len(att[n]) \in Nat
  BY <1>2, LenProperties
<1>4. row \in NodeRow /\ row.state = node[n].state /\ row.cur = Len(att[n]) + 1
      /\ row.accepted = node[n].accepted
  BY <1>2, <1>3 DEF NodeRow
<1>5. NewAttempt \in Attempt
  BY DEF NewAttempt, Attempt, AttemptState
<1>6. t = Append(att[n], NewAttempt) /\ Len(t) = Len(att[n]) + 1 /\ Len(t) >= Len(att[n])
  BY <1>2, <1>3, <1>5, AppendElement
<1>a. RowInv(node[n], att[n], EffectClass[n]) /\ EffectClass[n] \in Class
  BY <1>2, GraphAssumption DEF Rows, Class
<1> HIDE DEF row, t
<1>7. t \in Seq(Attempt) /\ RowInv(row, t, EffectClass[n])
  BY <1>1, <1>2, <1>4, <1>6, <1>a, CreatedRow
<1>8. /\ node' \in [Node -> NodeRow] /\ att' \in [Node -> Seq(Attempt)]
      /\ Rows'
      /\ \A m \in Node : Len(att'[m]) >= Len(att[m])
  BY <1>1, <1>2, <1>4, <1>6, <1>7, UpdateRow
<1>9. StoreTypeOK' /\ TimersOrdered'
  BY <1>1, <1>2, <1>8 DEF StoreTypeOK, TimersOrdered
<1>10. Quiet'
  BY <1>1, OpenIsQuiet DEF isTerminalWorkflowState
<1>11. att'[n] = t
  BY <1>1, <1>2 DEF StoreTypeOK
<1> QED
  BY <1>1, <1>6, <1>8, <1>9, <1>10, <1>11 DEF StoreInv, Keep

\* The attempts of one node change; the workflow keeps its state, or waits for an
\* operator.
LEMMA AttemptPreserves ==
  ASSUME StoreInv, NEW n \in Node, NEW t \in Seq(Attempt), Len(t) = Len(att[n]),
         RowInv(node[n], t, EffectClass[n]), att' = [att EXCEPT ![n] = t],
         wf' = wf \/ wf' = "RECONCILIATION_REQUIRED",
         read' \subseteq Scheduler,
         UNCHANGED <<lease, ref, node, retries, timers, cancel>>
  PROVE  StoreInv' /\ Keep
<1>1. StoreTypeOK /\ Rows /\ TimersOrdered /\ Quiet
  BY DEF StoreInv
<1>2. /\ att' \in [Node -> Seq(Attempt)]
      /\ Rows'
      /\ \A m \in Node : Len(att'[m]) >= Len(att[m])
  BY <1>1, UpdateAttempt
<1>3. StoreTypeOK' /\ TimersOrdered'
  BY <1>1, <1>2 DEF StoreTypeOK, TimersOrdered, WorkflowState
<1>4. Quiet'
  BY <1>1 DEF Quiet, isTerminalWorkflowState, Exists, Settled
<1> QED
  BY <1>2, <1>3, <1>4 DEF StoreInv, Keep

\* The current attempt a of node n stays open: what the four actions share.
LEMMA StillOpenPreserves ==
  ASSUME StoreInv, NEW n \in Node, NEW a \in 1 .. Len(att[n]), att[n][a].current,
         NEW r \in Attempt, r.current, r.state \in Open, r.unknown = att[n][a].unknown,
         SetAttempt(n, a, r), read' \subseteq Scheduler,
         UNCHANGED <<lease, ref, wf, node, retries, timers, cancel>>
  PROVE  StoreInv' /\ Keep
<1> DEFINE t == [att[n] EXCEPT ![a] = r]
<1>1. /\ node[n] \in NodeRow /\ att[n] \in Seq(Attempt)
      /\ EffectClass[n] \in Class /\ RowInv(node[n], att[n], EffectClass[n])
  BY GraphAssumption DEF StoreInv, StoreTypeOK, Rows, Class
<1>2. t = [att[n] EXCEPT ![a] = r] /\ att' = [att EXCEPT ![n] = t]
  BY DEF SetAttempt, StoreInv, StoreTypeOK
<1>3. Len(t) = Len(att[n])
  BY <1>1, ReplaceElement
<1> HIDE DEF t
<1>4. t \in Seq(Attempt) /\ RowInv(node[n], t, EffectClass[n])
  BY <1>1, <1>2, StillOpenRow
<1> QED
  BY <1>2, <1>3, <1>4, AttemptPreserves

\* The current attempt a of node n ends: RecordResult and TimeoutReconciliation.
LEMMA EndedPreserves ==
  ASSUME StoreInv, NEW n \in Node, NEW a \in 1 .. Len(att[n]), att[n][a].current,
         NEW r \in Attempt, ~r.current, r.state \notin Open, r.state # "CANCELED",
         r.unknown => r.state = "TIMED_OUT",
         SetAttempt(n, a, r), read' \subseteq Scheduler,
         wf' = wf \/ wf' = "RECONCILIATION_REQUIRED",
         UNCHANGED <<lease, ref, node, retries, timers, cancel>>
  PROVE  StoreInv' /\ Keep
<1> DEFINE t == [att[n] EXCEPT ![a] = r]
<1>1. /\ node[n] \in NodeRow /\ att[n] \in Seq(Attempt)
      /\ EffectClass[n] \in Class /\ RowInv(node[n], att[n], EffectClass[n])
  BY GraphAssumption DEF StoreInv, StoreTypeOK, Rows, Class
<1>2. t = [att[n] EXCEPT ![a] = r] /\ att' = [att EXCEPT ![n] = t]
  BY DEF SetAttempt, StoreInv, StoreTypeOK
<1>3. Len(t) = Len(att[n])
  BY <1>1, ReplaceElement
<1> HIDE DEF t
<1>4. t \in Seq(Attempt) /\ RowInv(node[n], t, EffectClass[n])
  BY <1>1, <1>2, EndedRow
<1> QED
  BY <1>2, <1>3, <1>4, AttemptPreserves

\* An attempt of the model's sequences is an attempt.
LEMMA AttemptType ==
  ASSUME StoreInv, NEW n \in Node, NEW a \in 1 .. Len(att[n])
  PROVE  /\ att[n][a] \in Attempt
         /\ AttemptInv(node[n], att[n], EffectClass[n], a)
  BY ElementOfSeq DEF StoreInv, StoreTypeOK, Rows, RowInv

\* A claim.
LEMMA ClaimPreserves ==
  ASSUME StoreInv, NEW n \in Node, NEW a \in 1 .. Len(att[n]), ClaimAttempt(n, a)
  PROVE  StoreInv' /\ Keep
<1> DEFINE r == [att[n][a] EXCEPT !.state = "CLAIMED", !.expired = FALSE]
<1>1. att[n][a] \in Attempt /\ att[n][a].current
  BY AttemptType DEF ClaimAttempt, CanClaim
<1>2. r \in Attempt /\ r.current /\ r.state \in Open /\ r.unknown = att[n][a].unknown
  BY <1>1 DEF Attempt, AttemptState, Open
<1>3. SetAttempt(n, a, r) /\ UNCHANGED <<lease, ref, read, wf, node, retries, timers, cancel>>
  BY DEF ClaimAttempt, leaseVars
<1>4. read' \subseteq Scheduler
  BY <1>3 DEF StoreInv, StoreTypeOK
<1> HIDE DEF r
<1> QED
  BY <1>1, <1>2, <1>3, <1>4, StillOpenPreserves

\* A heartbeat, the passing of a deadline, and the repeated dispatch of an unclaimed
\* attempt change only the deadline.
LEMMA DeadlinePreserves ==
  ASSUME StoreInv, NEW n \in Node, NEW a \in 1 .. Len(att[n]), att[n][a].current,
         NEW b \in BOOLEAN, SetAttempt(n, a, [att[n][a] EXCEPT !.expired = b]),
         read' \subseteq Scheduler,
         UNCHANGED <<lease, ref, wf, node, retries, timers, cancel>>
  PROVE  StoreInv' /\ Keep
<1> DEFINE r == [att[n][a] EXCEPT !.expired = b]
<1>1. att[n][a] \in Attempt /\ att[n][a].state \in Open
  BY AttemptType DEF AttemptInv
<1>2. /\ r \in Attempt /\ r.current /\ r.state \in Open /\ r.unknown = att[n][a].unknown
      /\ SetAttempt(n, a, r)
  BY <1>1 DEF Attempt
<1> HIDE DEF r
<1> QED
  BY <1>2, StillOpenPreserves

\* A receipt.
LEMMA RecordResultPreserves ==
  ASSUME StoreInv, NEW n \in Node, NEW a \in 1 .. Len(att[n]),
         NEW st \in {"SUCCEEDED", "FAILED_RETRYABLE", "FAILED_FINAL"}, RecordResult(n, a, st)
  PROVE  StoreInv' /\ Keep
<1> DEFINE r == [att[n][a] EXCEPT !.state = st, !.current = FALSE]
<1>1. att[n][a] \in Attempt /\ att[n][a].current /\ ~att[n][a].unknown
  BY AttemptType DEF RecordResult, CanRecordResult, AttemptInv
<1>2. r \in Attempt /\ ~r.current /\ r.state = st /\ ~r.unknown
  BY <1>1 DEF Attempt, AttemptState
<1>3. /\ SetAttempt(n, a, r) /\ read' \subseteq Scheduler
      /\ UNCHANGED <<lease, ref, wf, node, retries, timers, cancel>>
  BY DEF RecordResult, leaseVars
<1> HIDE DEF r
<1>4. r.state \notin Open /\ r.state # "CANCELED"
  BY <1>2 DEF Open
<1> QED
  BY <1>1, <1>2, <1>3, <1>4, EndedPreserves

\* Late evidence.
LEMMA EvidencePreserves ==
  ASSUME StoreInv, NEW n \in Node, NEW a \in 1 .. Len(att[n]), RecordEvidence(n, a)
  PROVE  StoreInv' /\ Keep
<1> DEFINE r == [att[n][a] EXCEPT !.evidence = TRUE]
           t == [att[n] EXCEPT ![a] = r]
<1>1. /\ node[n] \in NodeRow /\ att[n] \in Seq(Attempt) /\ att[n][a] \in Attempt
      /\ EffectClass[n] \in Class /\ RowInv(node[n], att[n], EffectClass[n])
  BY AttemptType, GraphAssumption DEF StoreInv, StoreTypeOK, Rows, Class
<1>2. /\ r \in Attempt /\ r.current = att[n][a].current /\ r.state = att[n][a].state
      /\ r.unknown = att[n][a].unknown
  BY <1>1 DEF Attempt
<1>3. /\ SetAttempt(n, a, r)
      /\ UNCHANGED <<lease, ref, read, wf, node, retries, timers, cancel>>
  BY DEF RecordEvidence, leaseVars
<1> HIDE DEF r
<1>4. t = [att[n] EXCEPT ![a] = r] /\ att' = [att EXCEPT ![n] = t]
  BY <1>3 DEF SetAttempt, StoreInv, StoreTypeOK
<1> HIDE DEF t
<1>5. Len(t) = Len(att[n])
  <2>1. att[n] \in Seq(Attempt) /\ a \in 1 .. Len(att[n]) /\ r \in Attempt
    BY <1>1, <1>2
  <2> QED
    BY ONLY <2>1, <1>4, ReplaceElement
<1>6. t \in Seq(Attempt) /\ RowInv(node[n], t, EffectClass[n])
  BY <1>1, <1>2, <1>4, EvidenceRow
<1>7. read' \subseteq Scheduler
  BY <1>3 DEF StoreInv, StoreTypeOK
<1> QED
  BY <1>3, <1>4, <1>5, <1>6, <1>7, AttemptPreserves

\* The three outcomes of TimeoutAttempt.
LEMMA TimeoutPreserves ==
  ASSUME StoreInv, NEW s \in Scheduler, NEW n \in Node, NEW a \in 1 .. Len(att[n]),
         TimeoutAttempt(s, n, a)
  PROVE  StoreInv' /\ Keep
<1>1. /\ read' = {} /\ read' \subseteq Scheduler
      /\ UNCHANGED <<lease, ref, retries, timers, cancel>>
      /\ att[n][a].current /\ ~isTerminalWorkflowState(wf)
  BY DEF TimeoutAttempt, RedispatchUnclaimed, TimeoutReconciliation, TimeoutReplacement,
         CanTimeoutAttempt, leaseVars
<1>2. CASE RedispatchUnclaimed(s, n, a)
  <2>1. SetAttempt(n, a, [att[n][a] EXCEPT !.expired = FALSE]) /\ UNCHANGED <<wf, node>>
    BY <1>2 DEF RedispatchUnclaimed
  <2> QED
    BY <1>1, <2>1, DeadlinePreserves
<1>3. CASE TimeoutReconciliation(s, n, a)
  <2> DEFINE r == [TimedOut(att[n][a]) EXCEPT !.unknown = TRUE]
  <2>1. att[n][a] \in Attempt
    BY AttemptType
  <2>2. r \in Attempt /\ ~r.current /\ r.state = "TIMED_OUT"
    BY <2>1 DEF TimedOut, Attempt, AttemptState
  <2>3. SetAttempt(n, a, r) /\ wf' = "RECONCILIATION_REQUIRED" /\ UNCHANGED node
    BY <1>3 DEF TimeoutReconciliation
  <2> HIDE DEF r
  <2>4. r.state \notin Open /\ r.state # "CANCELED"
    BY <2>2 DEF Open
  <2> QED
    BY <1>1, <2>2, <2>3, <2>4, EndedPreserves
<1>4. CASE TimeoutReplacement(s, n, a)
  <2> DEFINE row == [node[n] EXCEPT !.cur = a + 1]
             u == [att[n] EXCEPT ![a] = TimedOut(att[n][a])]
             t == Append(u, NewAttempt)
  <2>1. /\ StoreTypeOK /\ Rows /\ TimersOrdered
        /\ node[n] \in NodeRow /\ att[n] \in Seq(Attempt) /\ att[n][a] \in Attempt
        /\ EffectClass[n] \in Class /\ RowInv(node[n], att[n], EffectClass[n])
    BY AttemptType, GraphAssumption DEF StoreInv, StoreTypeOK, Rows, Class
  <2>2. EffectClass[n] # "NON_COOPERATING" /\ UNCHANGED wf
    BY <1>4 DEF TimeoutReplacement
  <2>3. node' = [node EXCEPT ![n] = row]
    BY <1>4 DEF TimeoutReplacement, SetNode
  <2>4. u = [att[n] EXCEPT ![a] = TimedOut(att[n][a])] /\ t = Append(u, NewAttempt)
        /\ att' = [att EXCEPT ![n] = t]
    BY <1>4, <2>1 DEF TimeoutReplacement, StoreTypeOK
  <2>5. row \in NodeRow /\ row.state = node[n].state /\ row.cur = a + 1
        /\ row.accepted = node[n].accepted
    BY <2>1 DEF NodeRow
  <2>6. Len(t) >= Len(att[n])
    <3>1. TimedOut(att[n][a]) \in Attempt /\ NewAttempt \in Attempt
      BY <2>1 DEF TimedOut, NewAttempt, Attempt, AttemptState
    <3> HIDE DEF u, t
    <3>2. u \in Seq(Attempt) /\ Len(u) = Len(att[n]) /\ Len(att[n]) \in Nat
      <4>1. att[n] \in Seq(Attempt) /\ a \in 1 .. Len(att[n])
        BY <2>1
      <4> QED
        BY ONLY <2>4, <3>1, <4>1, ReplaceElement
    <3>3. Len(t) = Len(u) + 1
      BY ONLY <2>4, <3>1, <3>2, AppendElement
    <3> QED
      BY <3>2, <3>3
  <2> HIDE DEF row, u, t
  <2>7. t \in Seq(Attempt) /\ RowInv(row, t, EffectClass[n])
    BY <1>1, <2>1, <2>2, <2>4, <2>5, ReplacedRow
  <2>8. /\ node' \in [Node -> NodeRow] /\ att' \in [Node -> Seq(Attempt)]
        /\ Rows'
        /\ \A m \in Node : Len(att'[m]) >= Len(att[m])
    BY <2>1, <2>3, <2>4, <2>5, <2>6, <2>7, UpdateRow
  <2>9. StoreTypeOK' /\ TimersOrdered'
    BY <1>1, <2>1, <2>2, <2>8 DEF StoreTypeOK, TimersOrdered
  <2>10. Quiet'
    BY <1>1, <2>2, OpenIsQuiet
  <2> QED
    BY <1>1, <2>8, <2>9, <2>10 DEF StoreInv, Keep
<1> QED
  BY <1>2, <1>3, <1>4 DEF TimeoutAttempt

\* A result is consumed.
LEMMA ConsumeResultPreserves ==
  ASSUME StoreInv, NEW s \in Scheduler, NEW n \in Node, NEW a \in 1 .. Len(att[n]),
         ConsumeResult(s, n, a)
  PROVE  StoreInv' /\ Keep
<1> DEFINE st == att[n][a].state
           new == StateAfter(n, st)
           row == ConsumedNode(n, a, st)
<1>1. /\ CanConsumeResult(s, n, a) /\ wf' = new
      /\ node' = [node EXCEPT ![n] = row] /\ read' = {}
      /\ UNCHANGED <<lease, ref, att, cancel>>
  BY DEF ConsumeResult, SetNode, leaseVars
<1>2. /\ StoreTypeOK /\ Rows /\ TimersOrdered
      /\ node[n] \in NodeRow /\ att[n] \in Seq(Attempt)
      /\ EffectClass[n] \in Class /\ RowInv(node[n], att[n], EffectClass[n])
  BY GraphAssumption DEF StoreInv, StoreTypeOK, Rows, Class
<1>3. new \in {"RUNNABLE", "WAITING_TIMER", "FAILED"}
  BY DEF StateAfter
<1>b. st = "SUCCEEDED" => new # "FAILED"
  BY DEF StateAfter, RetryExhausted
<1>4. /\ node[n].cur = a /\ ~att[n][a].current /\ isTerminalAttempt(st)
      /\ isTerminalWorkflowState(new) => \A m \in Node \ {n} : Exists(m) => Settled(m)
  BY <1>1 DEF CanConsumeResult
<1>5. /\ row \in NodeRow /\ row.cur = 0
      /\ st = "SUCCEEDED" => row.state = "SUCCEEDED" /\ row.accepted = a
      /\ st # "SUCCEEDED" => row.state = new /\ row.accepted = node[n].accepted
  <2>1. CASE st = "SUCCEEDED"
    <3>1. row = [node[n] EXCEPT !.state = "SUCCEEDED", !.cur = 0, !.accepted = a]
      BY <2>1 DEF ConsumedNode
    <3>2. a \in Nat
      BY <1>2, LenProperties
    <3> HIDE DEF row
    <3> QED
      BY <1>2, <2>1, <3>1, <3>2 DEF NodeRow, WorkflowState
  <2>2. CASE st # "SUCCEEDED"
    <3>1. row = [node[n] EXCEPT !.state = new, !.cur = 0]
      BY <2>2 DEF ConsumedNode
    <3> HIDE DEF row, new
    <3> QED
      BY <1>2, <1>3, <2>2, <3>1 DEF NodeRow, WorkflowState
  <2> QED
    BY <2>1, <2>2
<1> HIDE DEF row, new
<1>6. row.state # "ABSENT"
  BY <1>3, <1>5
<1>7. RowInv(row, att[n], EffectClass[n])
  BY <1>2, <1>4, <1>5, <1>6, ConsumedRow
<1>8. /\ node' \in [Node -> NodeRow]
      /\ Rows'
      /\ \A m \in Node : Len(att'[m]) >= Len(att[m])
      /\ node'[n] = row /\ \A m \in Node \ {n} : node'[m] = node[m]
  BY <1>1, <1>2, <1>5, <1>7, UpdateNode
<1>9. retries' \in [Node -> Nat]
  BY <1>2 DEF ConsumeResult, StoreTypeOK
<1>10. timers' \in [Node -> [pending : Nat, due : Nat]] /\ TimersOrdered'
  <2> DEFINE timer == [timers[n] EXCEPT !.pending = @ + 1]
  <2>1. timers' = [timers EXCEPT ![n] = timer] \/ timers' = timers
    BY <1>2 DEF ConsumeResult, StoreTypeOK
  <2>2. timers[n] \in [pending : Nat, due : Nat] /\ timers[n].due <= timers[n].pending
    BY <1>2 DEF StoreTypeOK, TimersOrdered
  <2>3. timer \in [pending : Nat, due : Nat] /\ timer.due <= timer.pending
    BY <2>2
  <2> HIDE DEF timer
  <2> QED
    BY <1>2, <2>1, <2>3 DEF StoreTypeOK, TimersOrdered
<1>11. StoreTypeOK'
  BY <1>1, <1>2, <1>3, <1>8, <1>9, <1>10 DEF StoreTypeOK, WorkflowState
<1>12. Quiet'
  <2>1. CASE new = "FAILED"
    <3>1. \A m \in Node \ {n} : Exists(m) => Settled(m)
      BY <1>4, <2>1 DEF isTerminalWorkflowState
    <3>2. row.state = "FAILED" /\ row.cur = 0
      BY <1>b, <1>5, <2>1
    <3> QED
      BY <1>8, <3>1, <3>2 DEF Quiet, Exists, Settled, isTerminalWorkflowState
  <2>2. CASE new # "FAILED"
    BY <1>1, <1>3, <2>2, OpenIsQuiet DEF isTerminalWorkflowState
  <2> QED
    BY <2>1, <2>2
<1> QED
  BY <1>1, <1>8, <1>10, <1>11, <1>12 DEF StoreInv, Keep

\* A timer node goes to sleep.
LEMMA ScheduleTimerPreserves ==
  ASSUME StoreInv, NEW s \in Scheduler, NEW n \in Node, ScheduleTimer(s, n)
  PROVE  StoreInv' /\ Keep
<1> DEFINE row == [node[n] EXCEPT !.state = "WAITING_TIMER"]
           timer == [timers[n] EXCEPT !.pending = @ + 1]
<1>1. /\ node[n].state = "RUNNABLE" /\ wf' = "WAITING_TIMER" /\ read' = {}
      /\ node' = [node EXCEPT ![n] = row]
      /\ timers' = [timers EXCEPT ![n] = timer]
      /\ UNCHANGED <<lease, ref, att, retries, cancel>>
  BY DEF ScheduleTimer, CanScheduleTimer, SetNode, leaseVars
<1>2. /\ StoreTypeOK /\ Rows /\ TimersOrdered
      /\ node[n] \in NodeRow /\ att[n] \in Seq(Attempt)
      /\ timers[n] \in [pending : Nat, due : Nat] /\ timers[n].due <= timers[n].pending
      /\ EffectClass[n] \in Class /\ RowInv(node[n], att[n], EffectClass[n])
  BY GraphAssumption DEF StoreInv, StoreTypeOK, Rows, TimersOrdered, Class
<1>3. row \in NodeRow /\ row.cur = node[n].cur /\ row.accepted = node[n].accepted
      /\ row.state = "WAITING_TIMER"
  BY <1>2 DEF NodeRow, WorkflowState
<1>4. timer \in [pending : Nat, due : Nat] /\ timer.due <= timer.pending
  BY <1>2
<1> HIDE DEF row, timer
<1>5. RowInv(row, att[n], EffectClass[n])
  BY <1>1, <1>2, <1>3, RelabelledRow
<1>6. /\ node' \in [Node -> NodeRow]
      /\ Rows'
      /\ \A m \in Node : Len(att'[m]) >= Len(att[m])
  BY <1>1, <1>2, <1>3, <1>5, UpdateNode
<1>7. timers' \in [Node -> [pending : Nat, due : Nat]] /\ TimersOrdered'
  BY <1>1, <1>2, <1>4 DEF StoreTypeOK, TimersOrdered
<1>8. StoreTypeOK'
  BY <1>1, <1>2, <1>6, <1>7 DEF StoreTypeOK, WorkflowState
<1>9. Quiet'
  BY <1>1, OpenIsQuiet DEF isTerminalWorkflowState
<1> QED
  BY <1>1, <1>6, <1>7, <1>8, <1>9 DEF StoreInv, Keep

\* A timer comes due.
LEMMA TimerDuePreserves ==
  ASSUME StoreInv, NEW n \in Node, TimerDue(n)
  PROVE  StoreInv' /\ Keep
<1> DEFINE timer == [timers[n] EXCEPT !.due = @ + 1]
<1>1. /\ timers[n].due < timers[n].pending /\ timers' = [timers EXCEPT ![n] = timer]
      /\ UNCHANGED <<lease, ref, read, wf, node, att, retries, cancel>>
  BY DEF TimerDue, leaseVars
<1>2. /\ StoreTypeOK /\ Rows /\ TimersOrdered /\ Quiet
      /\ timers[n] \in [pending : Nat, due : Nat]
  BY DEF StoreInv, StoreTypeOK
<1>3. timer \in [pending : Nat, due : Nat] /\ timer.due <= timer.pending
  BY <1>1, <1>2
<1> HIDE DEF timer
<1>4. StoreTypeOK' /\ TimersOrdered'
  BY <1>1, <1>2, <1>3 DEF StoreTypeOK, TimersOrdered
<1>5. Rows' /\ Quiet'
  BY <1>1, <1>2 DEF Rows, Quiet, Exists, Settled
<1>6. \A m \in Node : Len(att'[m]) >= Len(att[m])
  BY <1>1, <1>2, LenProperties DEF StoreTypeOK
<1> QED
  BY <1>1, <1>4, <1>5, <1>6 DEF StoreInv, Keep

\* A client asks for cancellation.
LEMMA RequestCancellationPreserves ==
  ASSUME StoreInv, RequestCancellation
  PROVE  StoreInv' /\ Keep
<1>1. cancel' = "PENDING" /\ UNCHANGED <<lease, ref, read, wf, node, att, retries, timers>>
  BY DEF RequestCancellation, leaseVars
<1>2. StoreTypeOK'
  BY <1>1 DEF StoreInv, StoreTypeOK
<1>3. Rows' /\ TimersOrdered' /\ Quiet'
  BY <1>1 DEF StoreInv, Rows, TimersOrdered, Quiet, Exists, Settled
<1>4. \A m \in Node : Len(att'[m]) >= Len(att[m])
  BY <1>1, LenProperties DEF StoreInv, StoreTypeOK
<1> QED
  BY <1>1, <1>2, <1>3, <1>4 DEF StoreInv, Keep

\* The graph advances: the node ends and its successors appear.
LEMMA AdvanceGraphPreserves ==
  ASSUME StoreInv, NEW s \in Scheduler, NEW n \in Node, NEW next, AdvanceGraph(s, n, next)
  PROVE  StoreInv' /\ Keep
<1> DEFINE row == [node[n] EXCEPT !.state = FinalNodeState(n)]
<1>1. /\ CanAdvanceGraph(s, n, next) /\ wf' = FinalState(n, next) /\ read' = {}
      /\ UNCHANGED <<lease, ref, att, retries, timers, cancel>>
  BY DEF AdvanceGraph, leaseVars
<1>2. /\ StoreTypeOK /\ Rows /\ TimersOrdered
      /\ node \in [Node -> NodeRow] /\ node[n] \in NodeRow /\ att[n] \in Seq(Attempt)
      /\ EffectClass[n] \in Class /\ RowInv(node[n], att[n], EffectClass[n])
  BY GraphAssumption DEF StoreInv, StoreTypeOK, Rows, Class
<1>3. node'[n] = row
  <2>1. Exists(n)
    BY <1>1 DEF CanAdvanceGraph, Exists
  <2> QED
    BY <2>1 DEF AdvanceGraph
<1>4. ASSUME NEW m \in Node, m # n
      PROVE  IF m \in next /\ ~Exists(m) THEN node'[m] = NewNode ELSE node'[m] = node[m]
  BY <1>4 DEF AdvanceGraph
<1>5. FinalNodeState(n) \in {"FAILED", "SUCCEEDED"}
  BY DEF FinalNodeState
<1>6. row \in NodeRow /\ row.cur = node[n].cur /\ row.accepted = node[n].accepted
      /\ row.state = FinalNodeState(n)
  BY <1>2, <1>5 DEF NodeRow, WorkflowState
<1> HIDE DEF row
<1>7. RowInv(row, att[n], EffectClass[n])
  <2>1. CASE Kind[n] = "activity"
    <3>1. node[n].state = "SUCCEEDED" /\ FinalNodeState(n) = "SUCCEEDED"
      BY <1>1, <2>1 DEF CanAdvanceGraph, FinalNodeState
    <3>2. row = node[n]
      BY <1>2, <1>6, <3>1 DEF row, NodeRow
    <3> QED
      BY <1>2, <3>2
  <2>2. CASE Kind[n] # "activity"
    <3>1. node[n].state = "RUNNABLE"
      BY <1>1, <2>2 DEF CanAdvanceGraph
    <3> QED
      BY <1>2, <1>5, <1>6, <3>1, RelabelledRow
  <2> QED
    BY <2>1, <2>2
<1>8. ASSUME NEW m \in Node
      PROVE  node'[m] \in NodeRow /\ RowInv(node'[m], att'[m], EffectClass[m])
  <2>1. CASE m = n
    BY <1>1, <1>3, <1>6, <1>7, <2>1
  <2>2. CASE m # n /\ m \in next /\ ~Exists(m)
    <3>1. node'[m] = NewNode
      BY <1>4, <2>2
    <3>2. att[m] = <<>>
      BY <1>2, <2>2 DEF Rows, RowInv, Exists
    <3>3. EffectClass[m] \in Class
      BY GraphAssumption DEF Class
    <3> QED
      BY <1>1, <3>1, <3>2, <3>3, NewRow
  <2>3. CASE m # n /\ ~(m \in next /\ ~Exists(m))
    <3>1. node'[m] = node[m]
      BY <1>4, <2>3
    <3> QED
      BY <1>1, <1>2, <3>1 DEF Rows
  <2> QED
    BY <2>1, <2>2, <2>3
<1>9. Rows' /\ \A m \in Node : Len(att'[m]) >= Len(att[m])
  <2>1. Rows'
    BY ONLY <1>8 DEF Rows
  <2>2. ASSUME NEW m \in Node PROVE Len(att'[m]) >= Len(att[m])
    <3>1. Len(att[m]) \in Nat
      BY <1>2, LenProperties DEF StoreTypeOK
    <3> QED
      BY <1>1, <3>1
  <2> QED
    BY <2>1, <2>2
<1>10. node' \in [Node -> NodeRow]
  <2>1. node' = [m \in Node |-> node'[m]]
    BY DEF AdvanceGraph
  <2> QED
    BY <1>8, <2>1
<1>11. StoreTypeOK' /\ TimersOrdered'
  BY <1>1, <1>2, <1>10 DEF StoreTypeOK, TimersOrdered, FinalState, WorkflowState
<1>12. Quiet'
  <2>1. CASE isTerminalWorkflowState(FinalState(n, next))
    <3>1. next = {}
      BY <1>1, <2>1 DEF CanAdvanceGraph, isTerminalWorkflowState
    <3>2. \A m \in Node \ {n} : Exists(m) => Settled(m)
      BY <1>1, <2>1 DEF CanAdvanceGraph
    <3>3. \A m \in Node \ {n} : node'[m] = node[m]
      BY <1>4, <3>1
    <3>4. node'[n].state \in {"FAILED", "SUCCEEDED"} /\ node'[n].cur = 0
      BY <1>1, <1>3, <1>5, <1>6 DEF CanAdvanceGraph
    <3> QED
      BY <3>2, <3>3, <3>4 DEF Quiet, Exists, Settled, isTerminalWorkflowState
  <2>2. CASE ~isTerminalWorkflowState(FinalState(n, next))
    BY <1>1, <2>2, OpenIsQuiet
  <2> QED
    BY <2>1, <2>2
<1> QED
  BY <1>1, <1>9, <1>11, <1>12 DEF StoreInv, Keep

\* A cancellation request is answered.
LEMMA CancellationPreserves ==
  ASSUME StoreInv, NEW s \in Scheduler, ApplyCancellationRequest(s)
  PROVE  StoreInv' /\ Keep
<1>1. cancel' = "APPLIED" /\ UNCHANGED <<lease, ref, retries, timers>>
  BY DEF ApplyCancellationRequest, leaseVars
<1>2. StoreTypeOK /\ Rows /\ TimersOrdered /\ Quiet
  BY DEF StoreInv
<1>3. CASE isTerminalWorkflowState(wf)
  <2>1. UNCHANGED <<wf, node, att, read>>
    BY <1>3 DEF ApplyCancellationRequest
  <2>2. StoreTypeOK' /\ TimersOrdered'
    BY <1>1, <1>2, <2>1 DEF StoreTypeOK, TimersOrdered
  <2>3. Rows' /\ Quiet'
    BY <1>2, <2>1 DEF Rows, Quiet, Exists, Settled
  <2>4. \A m \in Node : Len(att'[m]) >= Len(att[m])
    BY <1>2, <2>1, LenProperties DEF StoreTypeOK
  <2> QED
    BY <2>1, <2>2, <2>3, <2>4 DEF StoreInv, Keep
<1>4. CASE ~isTerminalWorkflowState(wf)
  <2> DEFINE live == {n \in Node : Exists(n) /\ ~isTerminalWorkflowState(node[n].state)}
  <2>1. /\ wf' = "CANCELED" /\ read' = {}
        /\ node' = [n \in Node |-> IF n \in live THEN CanceledNode(n) ELSE node[n]]
        /\ att' = [n \in Node |->
                     IF n \in live /\ node[n].cur # 0
                     THEN [att[n] EXCEPT ![node[n].cur] = CanceledAttempt(n, att[n][node[n].cur])]
                     ELSE att[n]]
    BY <1>4 DEF ApplyCancellationRequest, cancelWorkflowTx
  <2>2. ASSUME NEW n \in Node
        PROVE  /\ node'[n] \in NodeRow /\ att'[n] \in Seq(Attempt)
               /\ RowInv(node'[n], att'[n], EffectClass[n])
               /\ Len(att'[n]) >= Len(att[n])
               /\ node'[n].state # "ABSENT" =>
                    isTerminalWorkflowState(node'[n].state) /\ node'[n].cur = 0
    <3>1. /\ node[n] \in NodeRow /\ att[n] \in Seq(Attempt) /\ Len(att[n]) \in Nat
          /\ RowInv(node[n], att[n], EffectClass[n])
      BY <1>2, LenProperties DEF StoreTypeOK, Rows
    <3>2. CASE n \in live
      <4>1. node'[n] = CanceledNode(n)
        BY <2>1, <3>2
      <4>2. att'[n] = IF node[n].cur # 0
                      THEN [att[n] EXCEPT ![node[n].cur] = CanceledAttempt(n, att[n][node[n].cur])]
                      ELSE att[n]
        BY <2>1, <3>2
      <4>3. /\ node'[n] \in NodeRow /\ node'[n].state = "CANCELED" /\ node'[n].cur = 0
            /\ node'[n].accepted = node[n].accepted
        <5> DEFINE row == CanceledNode(n)
        <5>1. node[n] \in NodeRow
          BY <3>1
        <5>2. row \in NodeRow /\ row.state = "CANCELED" /\ row.cur = 0
              /\ row.accepted = node[n].accepted
          BY <5>1 DEF CanceledNode, NodeRow, WorkflowState
        <5> HIDE DEF row
        <5> QED
          BY <4>1, <5>2 DEF row
      <4>4. node[n].state # "ABSENT"
        BY <3>2 DEF Exists
      <4>5. /\ att'[n] \in Seq(Attempt) /\ Len(att'[n]) = Len(att[n])
            /\ RowInv(node'[n], att'[n], EffectClass[n])
        BY <3>1, <4>2, <4>3, <4>4, CanceledRow
      <4> QED
        BY <3>1, <4>3, <4>5 DEF isTerminalWorkflowState
    <3>3. CASE n \notin live
      <4>1. node'[n] = node[n] /\ att'[n] = att[n]
        BY <2>1, <3>3
      <4>2. node[n].state # "ABSENT" => isTerminalWorkflowState(node[n].state)
        BY <3>3 DEF Exists
      <4>3. isTerminalWorkflowState(node[n].state) => node[n].cur = 0
        BY <3>1 DEF RowInv, isTerminalWorkflowState
      <4>4. Len(att[n]) >= Len(att[n])
        BY <3>1
      <4> QED
        BY ONLY <3>1, <4>1, <4>2, <4>3, <4>4
    <3> QED
      BY <3>2, <3>3
  <2>3. node' \in [Node -> NodeRow] /\ att' \in [Node -> Seq(Attempt)]
    <3>1. /\ node' = [n \in Node |-> node'[n]]
          /\ att' = [n \in Node |-> att'[n]]
      BY <2>1
    <3> QED
      BY <2>2, <3>1
  <2>4. StoreTypeOK' /\ TimersOrdered'
    BY <1>1, <1>2, <2>1, <2>3 DEF StoreTypeOK, TimersOrdered, WorkflowState
  <2>5. Rows'
    BY <2>2 DEF Rows
  <2>6. Quiet'
    BY <2>2 DEF Quiet, Exists, Settled, isTerminalWorkflowState
  <2> QED
    BY <2>1, <2>2, <2>4, <2>5, <2>6 DEF StoreInv, Keep
<1> QED
  BY <1>3, <1>4
=============================================================================
