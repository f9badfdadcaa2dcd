--------------------------- MODULE PartitionLease ---------------------------
(***************************************************************************)
(* Ownership of one partition: the row of engine.partition_leases and the  *)
(* PostgreSQL transactions that read and write it (internal/state/store.go *)
(* AcquireLease, RenewLease, ReleaseLease, lockLease).                     *)
(*                                                                         *)
(* A transaction is modelled by its steps, not as one atomic action: it    *)
(* begins, waits for the row lock of SELECT ... FOR UPDATE, is refused or  *)
(* holds the lock, and commits or rolls back.  Time passes in between, so  *)
(* the lease may expire while a transaction that passed the check is still *)
(* holding the lock.  A client does not always learn that its transaction  *)
(* committed, and may start the next one while the last is still in flight *)
(* (a cancelled context, a lost connection).                               *)
(***************************************************************************)
EXTENDS Integers, Sequences

CONSTANTS
  Owner,      \* owner ids: one for every scheduler process
  None,       \* SQL NULL
  Tx,         \* database sessions that can have a transaction in flight
  TTL,        \* lease time to live
  MaxTime,    \* bound on the database clock
  MaxEpoch,   \* bound on the epoch
  MaxWrites   \* bound on the number of recorded transitions

ASSUME LeaseAssumption ==
  /\ None \notin Owner
  /\ None \notin Tx
  /\ TTL \in Nat \ {0}
  /\ MaxTime \in Nat
  /\ MaxEpoch \in Nat
  /\ MaxWrites \in Nat

VARIABLES
  now,          \* clock_timestamp() of the database
  lease,        \* the row: owner_id, epoch, lease_expires_at (0 for NULL)
  rowLock,      \* the transaction holding the row lock
  tx,           \* the transaction of each session
  ref,          \* the epoch of the LeaseRef each owner holds (0: none)
  acquisitions, \* rows of engine.lease_acquisitions
  history       \* scheduler rows of engine.transition_history, in commit order

vars == <<now, lease, rowLock, tx, ref, acquisitions, history>>

\* "write" stands for every transaction that is fenced by lockLease and records
\* a scheduler transition: ApplyOwnerTransition, ConsumeResult, CreateAttempt,
\* TimeoutAttempt, AdvanceGraph, ScheduleTimer, ApplyCancellationRequest.
Op == {"acquire", "renew", "release", "write"}

IdleTx == [pc |-> "idle", owner |-> None, op |-> "write", epoch |-> 0, at |-> 0]

TypeOK ==
  /\ now \in Nat
  /\ lease \in [owner : Owner \cup {None}, epoch : Nat, expiry : Nat]
  /\ rowLock \in Tx \cup {None}
  /\ tx \in [Tx -> [pc : {"idle", "wait", "held"}, owner : Owner \cup {None},
                    op : Op, epoch : Nat, at : Nat]]
  /\ ref \in [Owner -> Nat]
  /\ acquisitions \subseteq [epoch : Nat, owner : Owner]
  /\ history \in Seq([epoch : Nat, owner : Owner])

Init ==
  /\ now = 0
  /\ lease = [owner |-> None, epoch |-> 0, expiry |-> 0]
  /\ rowLock = None
  /\ tx = [t \in Tx |-> IdleTx]
  /\ ref = [o \in Owner |-> 0]
  /\ acquisitions = {}
  /\ history = <<>>

-----------------------------------------------------------------------------
(* Steps of a transaction *)

\* A client opens a transaction; at is when its SELECT starts.  Only
\* AcquireLease is called without a LeaseRef.
Begin(t, o, op) ==
  /\ tx[t].pc = "idle"
  /\ op = "acquire" \/ ref[o] > 0
  /\ tx' = [tx EXCEPT ![t] = [pc |-> "wait", owner |-> o, op |-> op,
                              epoch |-> ref[o], at |-> now]]
  /\ UNCHANGED <<now, lease, rowLock, ref, acquisitions, history>>

\* AcquireLease leaves an unexpired lease with its owner.
MayAcquire(o, dbNow) ==
  ~(lease.owner # None /\ lease.expiry > dbNow /\ lease.owner # o)

\* Mutant: the epoch is not compared.
lockLeaseAnyEpoch(o, epoch, dbNow) == lease.owner = o /\ lease.expiry > dbNow

\* The fence of every other operation: owner, epoch and expiry of the row.
lockLease(o, epoch, dbNow) ==
  /\ lease.owner = o
  /\ lease.epoch = epoch
  /\ lease.expiry > dbNow

Passes(t, dbNow) ==
  IF tx[t].op = "acquire"
  THEN MayAcquire(tx[t].owner, dbNow)
  ELSE lockLease(tx[t].owner, tx[t].epoch, dbNow)

\* Mutant: SELECT without FOR UPDATE.
LockNoWait(t) ==
  /\ tx[t].pc = "wait"
  /\ \E dbNow \in tx[t].at .. now :
        /\ Passes(t, dbNow)
        /\ rowLock' = t
        /\ tx' = [tx EXCEPT ![t] = [@ EXCEPT !.pc = "held",
                       !.at = IF tx[t].op = "acquire" THEN dbNow ELSE now]]
  /\ UNCHANGED <<now, lease, ref, acquisitions, history>>

\* The row lock is granted and the check is made.  clock_timestamp() in the
\* SELECT list is evaluated at some moment between the start of the statement
\* and the grant of the lock: PostgreSQL evaluates it before it waits and does
\* not evaluate it again when the row did not change.
Lock(t) ==
  /\ tx[t].pc = "wait"
  /\ rowLock = None
  /\ \E dbNow \in tx[t].at .. now :
        /\ Passes(t, dbNow)
        /\ rowLock' = t
        /\ tx' = [tx EXCEPT ![t] = [@ EXCEPT !.pc = "held",
                       !.at = IF tx[t].op = "acquire" THEN dbNow ELSE now]]
  /\ UNCHANGED <<now, lease, ref, acquisitions, history>>

\* The check fails: not acquired, or ErrLeaseNotOwned.
Refuse(t) ==
  /\ tx[t].pc = "wait"
  /\ rowLock = None
  /\ \E dbNow \in tx[t].at .. now : ~Passes(t, dbNow)
  /\ tx' = [tx EXCEPT ![t] = IdleTx]
  /\ UNCHANGED <<now, lease, rowLock, ref, acquisitions, history>>

\* lock_timeout, statement_timeout, idle_in_transaction_session_timeout, a
\* cancelled context, a crash of the client: the server rolls back.
Rollback(t) ==
  /\ tx[t].pc # "idle"
  /\ tx' = [tx EXCEPT ![t] = IdleTx]
  /\ rowLock' = IF rowLock = t THEN None ELSE rowLock
  /\ UNCHANGED <<now, lease, ref, acquisitions, history>>

\* What every commit does: the lock is released and the session is free.
Finish(t) ==
  /\ tx' = [tx EXCEPT ![t] = IdleTx]
  /\ rowLock' = None
  /\ UNCHANGED now

Holds(t, op) == tx[t].pc = "held" /\ tx[t].op = op

\* Mutant: a takeover of an expired lease keeps the epoch.
NextEpochKept(o, dbNow) == IF lease.owner # None THEN lease.epoch ELSE lease.epoch + 1

\* The epoch AcquireLease grants: a new one unless the owner extends a lease it
\* still holds.
NextEpoch(o, dbNow) ==
  IF lease.owner = o /\ lease.expiry > dbNow THEN lease.epoch ELSE lease.epoch + 1

CommitAcquire(t) ==
  LET o == tx[t].owner
      epoch == NextEpoch(o, tx[t].at)
  IN  /\ Holds(t, "acquire")
      /\ epoch <= MaxEpoch
      /\ lease' = [owner |-> o, epoch |-> epoch, expiry |-> tx[t].at + TTL]
      /\ acquisitions' = acquisitions \cup {[epoch |-> epoch, owner |-> o]}
      /\ \/ ref' = [ref EXCEPT ![o] = epoch]
         \/ UNCHANGED ref              \* the answer is lost
      /\ Finish(t)
      /\ UNCHANGED history

\* The UPDATE reads the clock again, some time after the check.
CommitRenew(t) ==
  /\ Holds(t, "renew")
  /\ \E dbNow \in tx[t].at .. now : lease' = [lease EXCEPT !.expiry = dbNow + TTL]
  /\ Finish(t)
  /\ UNCHANGED <<ref, acquisitions, history>>

\* The epoch survives the release.
CommitRelease(t) ==
  /\ Holds(t, "release")
  /\ lease' = [lease EXCEPT !.owner = None, !.expiry = 0]
  /\ Finish(t)
  /\ UNCHANGED <<ref, acquisitions, history>>

\* A fenced transition commits with the epoch of the LeaseRef it was given.
CommitWrite(t) ==
  /\ Holds(t, "write")
  /\ Len(history) < MaxWrites
  /\ history' = Append(history, [epoch |-> tx[t].epoch, owner |-> tx[t].owner])
  /\ Finish(t)
  /\ UNCHANGED <<lease, ref, acquisitions>>

Tick ==
  /\ now < MaxTime
  /\ now' = now + 1
  /\ UNCHANGED <<lease, rowLock, tx, ref, acquisitions, history>>

Next ==
  \/ \E t \in Tx :
        \/ \E o \in Owner, op \in Op : Begin(t, o, op)
        \/ Lock(t) \/ Refuse(t) \/ Rollback(t)
        \/ CommitAcquire(t) \/ CommitRenew(t) \/ CommitRelease(t) \/ CommitWrite(t)
  \/ Tick

Spec == Init /\ [][Next]_vars

-----------------------------------------------------------------------------
(* Properties *)

\* Scheduler epochs never move backwards in the history of a workflow, and two
\* schedulers never write under one epoch, although a transaction that passed
\* lockLease may commit long after its lease expired and its client may have
\* given up on it (the assertion "scheduler epoch moved backwards" of
\* internal/invariants/checker.go).
EpochFence ==
  \A i, j \in 1 .. Len(history) : i < j =>
      /\ history[i].epoch <= history[j].epoch
      /\ history[i].epoch = history[j].epoch => history[i].owner = history[j].owner

\* An epoch is granted to one owner only, even when the answer of AcquireLease
\* was lost and the call is repeated (engine.lease_acquisitions).
OneOwnerPerEpoch ==
  \A a, b \in acquisitions : a.epoch = b.epoch => a.owner = b.owner

\* A transition commits only while the row still names its writer and its epoch:
\* the row lock of lockLease keeps every takeover out until the commit.
WriterStillOwns ==
  [][history' # history =>
       history' = Append(history, [epoch |-> lease.epoch, owner |-> lease.owner])]_vars

\* AcquireLease never takes a lease from an owner whose lease has not expired,
\* and a takeover always moves to a new epoch.
TakeoverAfterExpiry ==
  [][lease'.owner \notin {None, lease.owner} =>
       /\ lease'.epoch = lease.epoch + 1
       /\ lease.owner = None \/ lease.expiry <= now]_vars
=============================================================================
