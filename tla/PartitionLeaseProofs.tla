------------------------ MODULE PartitionLeaseProofs ------------------------
(***************************************************************************)
(* Proofs about PartitionLease: the lease epoch fences the history of a    *)
(* workflow for any number of schedulers and sessions, any time to live    *)
(* and any length of the run.                                              *)
(***************************************************************************)
EXTENDS PartitionLease, TLAPS

\* What a transaction that passed its check still knows of the row.
HeldKnows ==
  \A t \in Tx :
    /\ tx[t].pc = "held" <=> rowLock = t
    /\ tx[t].pc # "idle" => tx[t].owner \in Owner /\ tx[t].at <= now
    /\ tx[t].pc = "held" /\ tx[t].op = "acquire" => MayAcquire(tx[t].owner, tx[t].at)
    /\ tx[t].pc = "held" /\ tx[t].op # "acquire" =>
         lease.owner = tx[t].owner /\ lease.epoch = tx[t].epoch

\* The row is the newest grant, and the only one of its epoch.
RowIsNewestGrant ==
  /\ lease.owner # None => [epoch |-> lease.epoch, owner |-> lease.owner] \in acquisitions
  /\ \A a \in acquisitions :
        /\ a.epoch <= lease.epoch
        /\ a.epoch = lease.epoch /\ lease.owner # None => a.owner = lease.owner

\* Every transition was written under a granted epoch, in the order of the grants.
HistoryGranted ==
  /\ \A i \in 1 .. Len(history) : history[i] \in acquisitions
  /\ \A i, j \in 1 .. Len(history) : i < j => history[i].epoch <= history[j].epoch

IInv == TypeOK /\ HeldKnows /\ RowIsNewestGrant /\ OneOwnerPerEpoch /\ HistoryGranted

-----------------------------------------------------------------------------
(* The invariant holds initially *)

\* The row of migration 000002 and idle sessions satisfy the invariant.
LEMMA InitIInv == Init => IInv
<1> SUFFICES ASSUME Init PROVE IInv
  OBVIOUS
<1>1. TypeOK
  BY LeaseAssumption DEF Init, TypeOK, IdleTx, Op
<1>2. HeldKnows
  BY LeaseAssumption DEF Init, HeldKnows, IdleTx
<1>3. RowIsNewestGrant /\ OneOwnerPerEpoch /\ HistoryGranted
  BY DEF Init, RowIsNewestGrant, OneOwnerPerEpoch, HistoryGranted
<1> QED
  BY <1>1, <1>2, <1>3 DEF IInv

-----------------------------------------------------------------------------
(* Every step preserves it *)

\* Every step of the lease transactions keeps every variable in its type.
LEMMA StepTypeOK == IInv /\ [Next]_vars => TypeOK'
<1> SUFFICES ASSUME IInv, [Next]_vars PROVE TypeOK'
  OBVIOUS
<1> USE LeaseAssumption DEF IInv, TypeOK
<1>1. ASSUME NEW t \in Tx, NEW o \in Owner, NEW op \in Op, Begin(t, o, op) PROVE TypeOK'
  BY <1>1 DEF Begin
<1>2. ASSUME NEW t \in Tx, Lock(t) PROVE TypeOK'
  <2>1. PICK dbNow \in tx[t].at .. now :
            tx' = [tx EXCEPT ![t] = [@ EXCEPT !.pc = "held",
                       !.at = IF tx[t].op = "acquire" THEN dbNow ELSE now]]
    BY <1>2 DEF Lock
  <2> DEFINE at == IF tx[t].op = "acquire" THEN dbNow ELSE now
             row == [tx[t] EXCEPT !.pc = "held", !.at = at]
             Row == [pc : {"idle", "wait", "held"}, owner : Owner \cup {None},
                     op : Op, epoch : Nat, at : Nat]
  <2>2. tx[t] \in Row /\ tx[t].at \in Nat /\ now \in Nat
    OBVIOUS
  <2>3. at \in Nat
    BY ONLY <2>2, dbNow \in tx[t].at .. now
  <2>4. tx' = [tx EXCEPT ![t] = row]
    BY <2>1
  <2> HIDE DEF at
  <2>5. row \in Row
    BY ONLY <2>2, <2>3
  <2> HIDE DEF row
  <2> QED
    BY <1>2, <2>4, <2>5 DEF Lock
<1>3. ASSUME NEW t \in Tx, Refuse(t) PROVE TypeOK'
  BY <1>3 DEF Refuse, IdleTx, Op
<1>4. ASSUME NEW t \in Tx, Rollback(t) PROVE TypeOK'
  BY <1>4 DEF Rollback, IdleTx, Op
<1>5. ASSUME NEW t \in Tx, CommitAcquire(t) PROVE TypeOK'
  <2> DEFINE epoch == NextEpoch(tx[t].owner, tx[t].at)
  <2>1. tx[t].owner \in Owner /\ tx[t].at \in Nat /\ epoch \in Nat
    BY <1>5 DEF CommitAcquire, Holds, HeldKnows, NextEpoch
  <2>2. lease' \in [owner : Owner \cup {None}, epoch : Nat, expiry : Nat]
    BY <1>5, <2>1 DEF CommitAcquire
  <2>3. acquisitions' \subseteq [epoch : Nat, owner : Owner] /\ ref' \in [Owner -> Nat]
    BY <1>5, <2>1 DEF CommitAcquire
  <2> QED
    BY <1>5, <2>2, <2>3 DEF CommitAcquire, Finish, IdleTx, Op
<1>6. ASSUME NEW t \in Tx, CommitRenew(t) PROVE TypeOK'
  <2>1. PICK dbNow \in tx[t].at .. now : lease' = [lease EXCEPT !.expiry = dbNow + TTL]
    BY <1>6 DEF CommitRenew
  <2>2. tx[t].at \in Nat /\ now \in Nat /\ TTL \in Nat
    OBVIOUS
  <2>3. dbNow + TTL \in Nat
    BY ONLY <2>2, dbNow \in tx[t].at .. now
  <2>4. lease' \in [owner : Owner \cup {None}, epoch : Nat, expiry : Nat]
    BY <2>1, <2>3
  <2> QED
    BY <1>6, <2>4 DEF CommitRenew, Finish, IdleTx, Op
<1>7. ASSUME NEW t \in Tx, CommitRelease(t) PROVE TypeOK'
  BY <1>7 DEF CommitRelease, Holds, Finish, IdleTx, Op
<1>8. ASSUME NEW t \in Tx, CommitWrite(t) PROVE TypeOK'
  BY <1>8 DEF CommitWrite, Holds, Finish, IdleTx, Op, HeldKnows
<1>9. CASE Tick
  BY <1>9 DEF Tick
<1>10. CASE UNCHANGED vars
  BY <1>10 DEF vars
<1> QED
  BY <1>1, <1>2, <1>3, <1>4, <1>5, <1>6, <1>7, <1>8, <1>9, <1>10 DEF Next

\* The row cannot change under a transaction that holds its lock, so what the
\* check of lockLease or AcquireLease found is still true at the commit.
LEMMA StepHeldKnows == IInv /\ [Next]_vars => HeldKnows'
<1> SUFFICES ASSUME IInv, [Next]_vars PROVE HeldKnows'
  OBVIOUS
<1> USE LeaseAssumption DEF IInv, TypeOK, HeldKnows
<1>1. ASSUME NEW t \in Tx, NEW o \in Owner, NEW op \in Op, Begin(t, o, op) PROVE HeldKnows'
  BY <1>1 DEF Begin, MayAcquire
<1>2. ASSUME NEW t \in Tx, Lock(t) PROVE HeldKnows'
  <2>1. PICK dbNow \in tx[t].at .. now :
            /\ Passes(t, dbNow)
            /\ rowLock' = t
            /\ tx' = [tx EXCEPT ![t] = [@ EXCEPT !.pc = "held",
                       !.at = IF tx[t].op = "acquire" THEN dbNow ELSE now]]
    BY <1>2 DEF Lock
  <2>2. /\ tx'[t].pc = "held" /\ tx'[t].owner = tx[t].owner
        /\ tx'[t].op = tx[t].op /\ tx'[t].epoch = tx[t].epoch
        /\ tx'[t].at = IF tx[t].op = "acquire" THEN dbNow ELSE now
    BY <2>1
  <2>3. \A u \in Tx : u # t => tx'[u] = tx[u] /\ tx[u].pc # "held"
    BY <1>2, <2>1 DEF Lock
  <2>4. UNCHANGED <<now, lease>> /\ tx[t].pc = "wait"
    BY <1>2 DEF Lock
  <2> QED
    BY <2>1, <2>2, <2>3, <2>4 DEF Passes, MayAcquire, lockLease
<1>3. ASSUME NEW t \in Tx, Refuse(t) PROVE HeldKnows'
  BY <1>3 DEF Refuse, IdleTx, MayAcquire
<1>4. ASSUME NEW t \in Tx, Rollback(t) PROVE HeldKnows'
  BY <1>4 DEF Rollback, IdleTx, MayAcquire
<1>5. ASSUME NEW t \in Tx, tx[t].pc = "held", Finish(t) PROVE HeldKnows'
  <2>1. \A u \in Tx : tx'[u] = (IF u = t THEN IdleTx ELSE tx[u])
    BY <1>5 DEF Finish
  <2>2. \A u \in Tx : tx'[u].pc # "held" /\ (tx'[u].pc # "idle" => tx'[u] = tx[u])
    BY <1>5, <2>1 DEF IdleTx
  <2> QED
    BY <1>5, <2>2 DEF Finish
<1>6. CASE Tick
  BY <1>6 DEF Tick, MayAcquire
<1>7. CASE UNCHANGED vars
  BY <1>7 DEF vars, MayAcquire
<1> QED
  BY <1>1, <1>2, <1>3, <1>4, <1>5, <1>6, <1>7
  DEF Next, CommitAcquire, CommitRenew, CommitRelease, CommitWrite, Holds

\* AcquireLease grants a fresh epoch unless the row already belongs to the caller,
\* so the row stays the newest grant and an epoch keeps its one owner.
LEMMA StepGrants == IInv /\ [Next]_vars => (RowIsNewestGrant /\ OneOwnerPerEpoch)'
<1> SUFFICES ASSUME IInv, [Next]_vars PROVE (RowIsNewestGrant /\ OneOwnerPerEpoch)'
  OBVIOUS
<1> USE LeaseAssumption DEF IInv, RowIsNewestGrant, OneOwnerPerEpoch
<1>1. CASE UNCHANGED <<lease, acquisitions>>
  BY <1>1
<1>2. ASSUME NEW t \in Tx, CommitAcquire(t)
      PROVE (RowIsNewestGrant /\ OneOwnerPerEpoch)'
  <2> DEFINE o == tx[t].owner
             epoch == NextEpoch(o, tx[t].at)
             new == [epoch |-> epoch, owner |-> o]
  <2>1. /\ lease' = [owner |-> o, epoch |-> epoch, expiry |-> tx[t].at + TTL]
        /\ acquisitions' = acquisitions \cup {new}
    BY <1>2 DEF CommitAcquire
  <2>2. o \in Owner /\ o # None /\ lease.epoch \in Nat
    BY <1>2 DEF CommitAcquire, Holds, HeldKnows, TypeOK
  <2>3. \/ epoch = lease.epoch /\ lease.owner = o
        \/ epoch = lease.epoch + 1
    BY DEF NextEpoch
  <2>4. \A a \in acquisitions : a.epoch \in Nat
    BY DEF TypeOK
  <2>5. \A a \in acquisitions : a.epoch <= epoch /\ (a.epoch = epoch => a.owner = o)
    BY <2>2, <2>3, <2>4
  <2>6. epoch \in Nat
    BY <2>2, <2>3
  <2> HIDE DEF epoch
  <2> QED
    BY <2>1, <2>2, <2>5, <2>6
<1>3. ASSUME NEW t \in Tx, CommitRenew(t)
      PROVE (RowIsNewestGrant /\ OneOwnerPerEpoch)'
  <2>1. lease'.owner = lease.owner /\ lease'.epoch = lease.epoch /\ UNCHANGED acquisitions
    BY <1>3 DEF CommitRenew, TypeOK
  <2> QED
    BY <2>1
<1>4. ASSUME NEW t \in Tx, CommitRelease(t)
      PROVE (RowIsNewestGrant /\ OneOwnerPerEpoch)'
  <2>1. lease'.owner = None /\ lease'.epoch = lease.epoch /\ UNCHANGED acquisitions
    BY <1>4 DEF CommitRelease, TypeOK
  <2> QED
    BY <2>1
<1> QED
  BY <1>1, <1>2, <1>3, <1>4
  DEF Next, Begin, Lock, Refuse, Rollback, CommitWrite, Tick, vars

\* Only the owner named by the row appends to the history, with the epoch of the
\* row, which no earlier transition exceeds.
LEMMA StepHistory == IInv /\ [Next]_vars => HistoryGranted'
<1> SUFFICES ASSUME IInv, [Next]_vars PROVE HistoryGranted'
  OBVIOUS
<1> USE LeaseAssumption DEF IInv, HistoryGranted
<1>1. CASE UNCHANGED history /\ acquisitions \subseteq acquisitions'
  BY <1>1
<1>2. ASSUME NEW t \in Tx, CommitWrite(t) PROVE HistoryGranted'
  <2> DEFINE row == [epoch |-> lease.epoch, owner |-> lease.owner]
  <2>1. lease.owner = tx[t].owner /\ lease.epoch = tx[t].epoch /\ tx[t].owner \in Owner
    BY <1>2 DEF CommitWrite, Holds, HeldKnows
  <2>2. history' = Append(history, row) /\ UNCHANGED acquisitions
    BY <1>2, <2>1 DEF CommitWrite
  <2>3. row \in acquisitions
    BY <2>1 DEF RowIsNewestGrant
  <2>4. \A i \in 1 .. Len(history) : history[i].epoch <= row.epoch
    BY DEF RowIsNewestGrant
  <2>5. history \in Seq([epoch : Nat, owner : Owner]) /\ row.epoch \in Nat
    BY DEF TypeOK
  <2>6. /\ Len(history') = Len(history) + 1
        /\ \A i \in 1 .. Len(history') :
              history'[i] = (IF i = Len(history) + 1 THEN row ELSE history[i])
    BY <2>2, <2>5
  <2> HIDE DEF row
  <2> QED
    BY <2>2, <2>3, <2>4, <2>5, <2>6
<1> QED
  BY <1>1, <1>2
  DEF Next, Begin, Lock, Refuse, Rollback, CommitAcquire, CommitRenew, CommitRelease, Tick, vars

\* IInv is an inductive invariant of the lease protocol.
THEOREM Inductive == Spec => []IInv
<1>1. IInv /\ [Next]_vars => IInv'
  BY StepTypeOK, StepHeldKnows, StepGrants, StepHistory DEF IInv
<1> QED
  BY InitIInv, <1>1, PTL DEF Spec

-----------------------------------------------------------------------------
(* What the invariant gives *)

\* The variables of the lease protocol always have their types.
THEOREM TypeCorrect == Spec => []TypeOK
<1>1. IInv => TypeOK
  BY DEF IInv
<1> QED
  BY Inductive, <1>1, PTL

\* The fence: in the history of a workflow scheduler epochs never move backwards
\* and an epoch has one writer, however long a transaction holds the row lock.
THEOREM Fencing == Spec => []EpochFence
<1>1. IInv => EpochFence
  BY DEF IInv, HistoryGranted, OneOwnerPerEpoch, EpochFence
<1> QED
  BY Inductive, <1>1, PTL

\* AcquireLease never grants one epoch to two owners.
THEOREM UniqueGrants == Spec => []OneOwnerPerEpoch
<1>1. IInv => OneOwnerPerEpoch
  BY DEF IInv
<1> QED
  BY Inductive, <1>1, PTL

\* A fenced transaction commits under the epoch and for the owner the row names
\* at the moment of the commit.
THEOREM CommitsAsOwner == Spec => WriterStillOwns
<1>1. IInv /\ [Next]_vars =>
        [history' # history =>
           history' = Append(history, [epoch |-> lease.epoch, owner |-> lease.owner])]_vars
  <2> SUFFICES ASSUME IInv, [Next]_vars, history' # history
               PROVE history' = Append(history, [epoch |-> lease.epoch, owner |-> lease.owner])
    OBVIOUS
  <2>1. PICK t \in Tx : CommitWrite(t)
    BY DEF Next, Begin, Lock, Refuse, Rollback, CommitAcquire, CommitRenew, CommitRelease,
           Tick, vars
  <2> QED
    BY <2>1 DEF IInv, HeldKnows, CommitWrite, Holds
<1> QED
  BY Inductive, <1>1, PTL DEF Spec, WriterStillOwns

\* A lease changes hands only after it expired or was released, and then under a
\* new epoch.
THEOREM Takeover == Spec => TakeoverAfterExpiry
<1> DEFINE A == lease'.owner \notin {None, lease.owner} =>
                  /\ lease'.epoch = lease.epoch + 1
                  /\ lease.owner = None \/ lease.expiry <= now
<1>1. IInv /\ [Next]_vars => [A]_vars
  <2> SUFFICES ASSUME IInv, [Next]_vars, lease'.owner \notin {None, lease.owner}
               PROVE /\ lease'.epoch = lease.epoch + 1
                     /\ lease.owner = None \/ lease.expiry <= now
    OBVIOUS
  <2>1. PICK t \in Tx : CommitAcquire(t)
    <3>1. ASSUME NEW t \in Tx, CommitRenew(t) PROVE lease'.owner = lease.owner
      BY <3>1 DEF CommitRenew, IInv, TypeOK
    <3>2. ASSUME NEW t \in Tx, CommitRelease(t) PROVE lease'.owner = None
      BY <3>2 DEF CommitRelease, IInv, TypeOK
    <3> QED
      BY <3>1, <3>2 DEF Next, Begin, Lock, Refuse, Rollback, CommitWrite, Tick, vars
  <2>2. lease' = [owner |-> tx[t].owner, epoch |-> NextEpoch(tx[t].owner, tx[t].at),
                  expiry |-> tx[t].at + TTL]
    BY <2>1 DEF CommitAcquire
  <2>3. tx[t].owner # lease.owner /\ MayAcquire(tx[t].owner, tx[t].at) /\ tx[t].at <= now
    BY <2>1, <2>2 DEF CommitAcquire, Holds, IInv, HeldKnows
  <2>4. lease.expiry \in Nat /\ tx[t].at \in Nat /\ now \in Nat
    BY DEF IInv, TypeOK
  <2> QED
    BY <2>2, <2>3, <2>4 DEF NextEpoch, MayAcquire
<1> QED
  BY Inductive, <1>1, PTL DEF Spec, TakeoverAfterExpiry
=============================================================================
