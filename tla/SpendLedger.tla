---------------------------- MODULE SpendLedger -----------------------------
(* The write-ahead spend ledgers of the DUR-055 and DUR-056 studies and the  *)
(* provider loops that use them. One JSON file holds totals and entries. A   *)
(* ledger operation takes the lock of its own process, reads the file,       *)
(* changes the copy and replaces the file; two processes share only the file.*)
(* Amounts are whole units; the provider's charge is the ghost billed.       *)
EXTENDS Integers, FiniteSets, FiniteSetsExt

CONSTANTS
  Threads,        \* agent threads, each running provider calls
  Proc,           \* thread -> the process it lives in
  Cap,            \* CAP_USD
  Amounts,        \* reservations a request may need
  Overrun,        \* how far a reported usage may exceed its reservation
  Retries,        \* transport_retries
  MaxCalls,       \* bound: ledger entries in a behaviour
  MaxCrashes,     \* bound: process crashes
  RecordsBreach   \* TRUE: dur056_budget, FALSE: dur055_budget

Processes == {Proc[t] : t \in Threads}
Nobody == "nobody"
Calls == 1..MaxCalls

VARIABLES
  file,     \* the ledger file: totals, status, entries, reconciled calls
  lock,     \* process -> thread inside its ledger, or Nobody
  view,     \* process -> the copy of the file read under the lock
  agent,    \* thread -> where its provider call stands
  billed,   \* ghost: call -> what the provider charged
  issued,   \* call ids handed out (uuid4)
  crashes

vars == <<file, lock, view, agent, billed, issued, crashes>>

-----------------------------------------------------------------------------
EmptyFile ==
  [spent |-> 0, reserved |-> 0, uncertain |-> 0, status |-> "NOT_STARTED",
   entries |-> [c \in {} |-> 0], reconciled |-> {}]
Committed(f) == f.spent + f.reserved + f.uncertain
Idle == [pc |-> "idle", call |-> 0, amount |-> 0, cost |-> 0, attempt |-> 0]
InState(f, s) == {c \in DOMAIN f.entries : f.entries[c].state = s}

Init ==
  /\ file = EmptyFile
  /\ lock = [p \in Processes |-> Nobody] /\ view = [p \in Processes |-> EmptyFile]
  /\ agent = [t \in Threads |-> Idle]
  /\ billed = [c \in Calls |-> 0] /\ issued = 0 /\ crashes = 0

(* The points of a provider call at which it next enters the ledger. *)
LedgerPoints == {"reserve", "settle", "reject", "uncertain", "retry", "keyless", "reconcile"}

(* with self._lock: self._data = self._read() *)
Enter(t) ==
  /\ agent[t].pc \in LedgerPoints /\ lock[Proc[t]] = Nobody
  /\ lock' = [lock EXCEPT ![Proc[t]] = t]
  /\ view' = [view EXCEPT ![Proc[t]] = file]
  /\ UNCHANGED <<file, agent, billed, issued, crashes>>

(* _write (os.replace) and leaving the lock; the thread goes on at a. *)
Inside(t, pc) == lock[Proc[t]] = t /\ agent[t].pc = pc
Leave(t, f, a) ==
  /\ file' = f /\ agent' = [agent EXCEPT ![t] = a]
  /\ lock' = [lock EXCEPT ![Proc[t]] = Nobody]
  /\ view' = [view EXCEPT ![Proc[t]] = EmptyFile]
  /\ UNCHANGED <<billed, crashes>>
(* An exception leaves the lock without writing. *)
Raise(t, a) == Leave(t, file, a) /\ UNCHANGED issued

-----------------------------------------------------------------------------
(* A decision request of a known size begins; an embedding request goes the  *)
(* same way and is never retried.                                            *)
Diagnose(t, amount) ==
  /\ agent[t].pc = "idle" /\ issued < MaxCalls
  /\ agent' = [agent EXCEPT ![t] = [Idle EXCEPT !.pc = "reserve", !.amount = amount, !.attempt = 1]]
  /\ UNCHANGED <<file, lock, view, billed, issued, crashes>>

Embed(t, amount) ==
  /\ agent[t].pc = "idle" /\ issued < MaxCalls
  /\ agent' = [agent EXCEPT ![t] = [Idle EXCEPT !.pc = "reserve", !.amount = amount,
                                               !.attempt = Retries + 1]]
  /\ UNCHANGED <<file, lock, view, billed, issued, crashes>>

NewEntry(amount) == [state |-> "RESERVED", amount |-> amount, cost |-> 0]

Reserved(f, c, amount) ==
  [f EXCEPT !.reserved = @ + amount, !.status = "IN_PROGRESS",
            !.entries = [d \in DOMAIN @ \cup {c} |->
                           IF d = c THEN NewEntry(amount) ELSE @[d]]]

FitsCap_IgnoresUncertain(f, amount) == f.spent + f.reserved + amount <= Cap
FitsCap(f, amount) == Committed(f) + amount <= Cap

(* reserve: the cap test and the write-ahead entry. *)
Reserve(t) ==
  LET f == view[Proc[t]]
      amount == agent[t].amount
      c == issued + 1
  IN /\ Inside(t, "reserve")
     /\ \/ /\ ~FitsCap(f, amount) \/ issued = MaxCalls
           /\ Raise(t, Idle)
        \/ /\ FitsCap(f, amount) /\ issued < MaxCalls
           /\ issued' = c
           /\ Leave(t, Reserved(f, c, amount), [agent[t] EXCEPT !.pc = "send", !.call = c])

(* The HTTP exchange. A response carries its usage; an HTTP error is not     *)
(* charged; a transport error, and any other failure, may have been.         *)
Respond(t) ==
  /\ agent[t].pc = "send"
  /\ \E cost \in 0..(agent[t].amount + Overrun), valid \in BOOLEAN :
       /\ billed' = [billed EXCEPT ![agent[t].call] = cost]
       /\ agent' = [agent EXCEPT ![t].pc = IF valid THEN "settle" ELSE "uncertain",
                                 ![t].cost = cost]
  /\ UNCHANGED <<file, lock, view, issued, crashes>>
HTTPError(t) ==
  /\ agent[t].pc = "send" /\ agent' = [agent EXCEPT ![t].pc = "reject"]
  /\ UNCHANGED <<file, lock, view, billed, issued, crashes>>
(* dur055's embedding client finds no key only now and fails the call twice, *)
(* in the branch and in the handler that catches its exception.              *)
MissingKey(t) ==
  /\ ~RecordsBreach /\ agent[t].pc = "send" /\ agent[t].attempt = Retries + 1
  /\ agent' = [agent EXCEPT ![t].pc = "keyless"]
  /\ UNCHANGED <<file, lock, view, billed, issued, crashes>>
TransportError(t) ==
  /\ agent[t].pc = "send"
  /\ \E cost \in 0..agent[t].amount : billed' = [billed EXCEPT ![agent[t].call] = cost]
  /\ agent' = [agent EXCEPT ![t].pc = "retry"]
  /\ UNCHANGED <<file, lock, view, issued, crashes>>

Settled_KeepsReservation(f, c, cost) ==
  [f EXCEPT !.spent = @ + cost,
            !.entries[c].state = "SETTLED", !.entries[c].cost = cost]
Settled(f, c, cost) ==
  LET g == [f EXCEPT !.reserved = @ - f.entries[c].amount, !.spent = @ + cost,
                     !.entries[c].state = "SETTLED", !.entries[c].cost = cost]
  IN IF Committed(g) > Cap THEN [g EXCEPT !.status = "CAP_BREACH_RECORDED"] ELSE g

Open(f, c) == c \in InState(f, "RESERVED")

(* dur056: an overrun is written, reported in status, then raised; the loop  *)
(* answers with fail, which finds the entry settled.                         *)
SettleRecording(t, f, c) ==
  LET g == Settled(f, c, agent[t].cost)
  IN /\ UNCHANGED issued
     /\ Leave(t, g, IF g.status = "CAP_BREACH_RECORDED"
                    THEN [agent[t] EXCEPT !.pc = "uncertain"] ELSE Idle)
SettleRefusing_AfterWrite(t, f, c) ==
  Leave(t, Settled(f, c, agent[t].cost), Idle) /\ UNCHANGED issued
(* dur055: an overrun raises before the write and leaves the entry reserved; *)
(* the decision is validated after the settlement, and a bad one fails a     *)
(* call that is already settled.                                             *)
SettleRefusing(t, f, c) ==
  LET g == Settled(f, c, agent[t].cost)
  IN \/ Committed(g) > Cap /\ Raise(t, Idle)
     \/ /\ Committed(g) <= Cap /\ UNCHANGED issued
        /\ \E a \in {Idle, [agent[t] EXCEPT !.pc = "uncertain"]} : Leave(t, g, a)

Settle(t) ==
  LET f == view[Proc[t]]
      c == agent[t].call
  IN /\ Inside(t, "settle")
     /\ \/ ~Open(f, c) /\ Raise(t, IF RecordsBreach THEN [agent[t] EXCEPT !.pc = "uncertain"] ELSE Idle)
        \/ Open(f, c) /\ RecordsBreach /\ SettleRecording(t, f, c)
        \/ Open(f, c) /\ ~RecordsBreach /\ SettleRefusing(t, f, c)

Failed(f, c, uncertain) ==
  LET amount == f.entries[c].amount
  IN [f EXCEPT !.reserved = @ - amount,
               !.uncertain = IF uncertain THEN @ + amount ELSE @,
               !.entries[c].state = IF uncertain THEN "UNCERTAIN" ELSE "REJECTED",
               !.status = IF uncertain THEN "RECONCILIATION_REQUIRED" ELSE "IN_PROGRESS"]

(* fail, then the retry of a transport error under a fresh reservation. *)
AfterFail(t) ==
  IF agent[t].pc = "retry" /\ agent[t].attempt <= Retries
  THEN [agent[t] EXCEPT !.pc = "reserve", !.attempt = @ + 1, !.call = 0]
  ELSE IF agent[t].pc = "keyless" THEN [agent[t] EXCEPT !.pc = "reject"] ELSE Idle
Fail(t) ==
  LET f == view[Proc[t]]
      c == agent[t].call
  IN /\ \E pc \in {"reject", "uncertain", "retry", "keyless"} : Inside(t, pc)
     /\ \/ c \notin DOMAIN f.entries /\ Raise(t, Idle)
        \/ c \in DOMAIN f.entries /\ ~Open(f, c) /\ Raise(t, AfterFail(t))
        \/ /\ Open(f, c) /\ UNCHANGED issued
           /\ Leave(t, Failed(f, c, agent[t].pc \in {"uncertain", "retry"}), AfterFail(t))

-----------------------------------------------------------------------------
(* reconcile_not_sent: an operator with evidence that requests never left    *)
(* gives their amount back. The original entries stay UNCERTAIN.             *)
StartReconcile(t) ==
  /\ RecordsBreach /\ agent[t].pc = "idle" /\ issued > 0
  /\ agent' = [agent EXCEPT ![t].pc = "reconcile"]
  /\ UNCHANGED <<file, lock, view, billed, issued, crashes>>
Reconcilable(f, ids) == ids \subseteq InState(f, "UNCERTAIN") /\ ids \cap f.reconciled = {}
ReconcileNotSent(t) ==
  LET f == view[Proc[t]]
      Refund(ids) == MapThenSumSet(LAMBDA c : f.entries[c].amount, ids)
      Allowed(ids) == Reconcilable(f, ids) /\ Refund(ids) <= f.uncertain
  IN /\ Inside(t, "reconcile")
     /\ \E ids \in SUBSET {c \in 1..issued : billed[c] = 0} :
          \/ (ids = {} \/ ~Allowed(ids)) /\ Raise(t, Idle)
          \/ /\ ids # {} /\ Allowed(ids) /\ UNCHANGED issued
             /\ Leave(t, [f EXCEPT !.uncertain = @ - Refund(ids), !.reconciled = @ \cup ids,
                                   !.status = IF f.uncertain > Refund(ids)
                                              THEN "RECONCILIATION_REQUIRED"
                                              ELSE "IN_PROGRESS"], Idle)

(* A process dies: its threads and lock are gone, an operation that had not  *)
(* replaced the file never happened, a request on the wire may be charged.   *)
Crash(p) ==
  /\ crashes < MaxCrashes /\ crashes' = crashes + 1
  /\ agent' = [t \in Threads |-> IF Proc[t] = p THEN Idle ELSE agent[t]]
  /\ lock' = [lock EXCEPT ![p] = Nobody] /\ view' = [view EXCEPT ![p] = EmptyFile]
  /\ \E charge \in [{t \in Threads : Proc[t] = p /\ agent[t].pc = "send"} -> 0..Max(Amounts)] :
       /\ \A t \in DOMAIN charge : charge[t] <= agent[t].amount
       /\ billed' = [c \in Calls |-> MapThenSumSet(LAMBDA t : charge[t],
                       {t \in DOMAIN charge : agent[t].call = c}) + billed[c]]
  /\ UNCHANGED <<file, issued>>

Request(t) == \E amount \in Amounts : Diagnose(t, amount) \/ Embed(t, amount)
Step(t) ==
  \/ Enter(t) \/ Reserve(t) \/ Respond(t) \/ HTTPError(t) \/ MissingKey(t) \/ TransportError(t)
  \/ Settle(t) \/ Fail(t) \/ ReconcileNotSent(t)
Next ==
  \/ \E t \in Threads : Request(t) \/ Step(t) \/ StartReconcile(t)
  \/ \E p \in Processes : Crash(p)

Spec == Init /\ [][Next]_vars

-----------------------------------------------------------------------------

Total(f, ids, Of(_)) == MapThenSumSet(LAMBDA c : Of(f.entries[c]), ids)

(* The three totals of the file are the sums of its entries: reserve, settle,*)
(* fail and reconcile_not_sent never lose or double an amount, also when a   *)
(* process dies inside one of them or a fail follows a settle.               *)
TotalsMatchEntries ==
  /\ file.reserved = Total(file, InState(file, "RESERVED"), LAMBDA e : e.amount)
  /\ file.spent = Total(file, InState(file, "SETTLED"), LAMBDA e : e.cost)
  /\ file.uncertain = Total(file, InState(file, "UNCERTAIN") \ file.reconciled, LAMBDA e : e.amount)

(* dur055's settle refuses a usage that would carry the ledger over its cap, *)
(* so spent, reserved and uncertain together stay within it whatever the     *)
(* provider reports.                                                         *)
CommittedWithinCap == Committed(file) <= Cap

(* What the provider has charged for all calls. *)
BilledTotal == MapThenSumSet(LAMBDA c : billed[c], Calls)
=============================================================================
