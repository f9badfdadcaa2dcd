----------------------------- MODULE MCProcesses -----------------------------
(***************************************************************************)
(* The processes around the engine's tables, checked in one run: schedulers *)
(* that contend for a partition (PartitionLease), one worker process        *)
(* (WorkerProcess, two instances), the fault harness and its network proxy. *)
(* They share no state; a behaviour is one of the component part, and the   *)
(* variables of the others keep one initial value.                          *)
(***************************************************************************)
EXTENDS PartitionLease, TLC

CONSTANTS w1, w2, w3, k1, k2, NoPart

VARIABLES
  part,
  drain, expired, exit, main, slot, threads, inFlight, capacity, group,
  inbox, workerSpent,
  action, plan, target, code, stopped, doomed, channel, sent, command, reader,
  accepting, events, trace, reached, requested, observed, exitRecorded, cleaned,
  pc, nested, status, result, harnessSpent,
  stop, sockets, accepted, pump, unread, inject, cut, taken, cutObserved, late

leaseVars == vars
workerVars == <<drain, expired, exit, main, slot, threads, inFlight, capacity,
                group, inbox, workerSpent>>
harnessVars == <<action, plan, target, code, stopped, doomed, channel, sent, command,
                 reader, accepting, events, trace, reached, requested, observed,
                 exitRecorded, cleaned, pc, nested, status, result, harnessSpent>>
proxyVars == <<stop, sockets, accepted, pump, unread, inject, cut, taken, cutObserved, late>>
allVars == <<part, leaseVars, workerVars, harnessVars, proxyVars>>

\* Two slots of one process share a partition.
SharedPartition == INSTANCE WorkerProcess WITH
  Slots <- {w1, w2}, Partitions <- {k1}, LogLength <- 2, spent <- workerSpent,
  MaxRebalances <- 1, MaxErrors <- 0

\* One slot reads two partitions, with errors of the endpoint.
TwoPartitions == INSTANCE WorkerProcess WITH
  Slots <- {w3}, Partitions <- {k1, k2}, LogLength <- 2, spent <- workerSpent,
  MaxRebalances <- 2, MaxErrors <- 1

\* Every action on every kind of target, a crash and an unfinished kill.
Harness == INSTANCE FaultHarness WITH
  Actions <- {"release", "kill", "pause", "cut-network", "message"},
  Plans <- {"obeys", "silent", "early", "wrong"},
  MaxCrashes <- 1, MaxStuck <- 1, spent <- harnessSpent

Proxy == INSTANCE FaultProxy WITH MaxChunks <- 2, observed <- cutObserved

Symmetry == Permutations(Owner) \cup Permutations(Tx) \cup Permutations({w1, w2})

AllInit ==
  /\ part \in {"lease", "slots", "partitions", "harness", "proxy"}
  /\ Init /\ Proxy!Init
  /\ IF part = "slots" THEN SharedPartition!Init ELSE TwoPartitions!Init
  /\ Harness!Init
  /\ part # "harness" => action = "release" /\ plan = "obeys"

AllNext ==
  /\ UNCHANGED part
  /\ \/ part = "lease" /\ Next /\ UNCHANGED <<workerVars, harnessVars, proxyVars>>
     \/ part = "slots" /\ SharedPartition!Next /\ UNCHANGED <<leaseVars, harnessVars, proxyVars>>
     \/ part = "partitions" /\ TwoPartitions!Next
        /\ UNCHANGED <<leaseVars, harnessVars, proxyVars>>
     \/ part = "harness" /\ Harness!Next /\ UNCHANGED <<leaseVars, workerVars, proxyVars>>
     \/ part = "proxy" /\ Proxy!Next /\ UNCHANGED <<leaseVars, workerVars, harnessVars>>

AllSpec == AllInit /\ [][AllNext]_allVars
-----------------------------------------------------------------------------
\* No offset is committed to the broker that the engine has not stored, with
\* slots that share a partition and partitions that move (fetch, commit).
CommittedIsStored ==
  /\ part = "slots" => SharedPartition!CommittedIsStored
  /\ part = "partitions" => TwoPartitions!CommittedIsStored

\* A process that returns from finish_drain leaves no activity behind that had
\* been granted a claim.
CleanExitLeavesNoClaim ==
  /\ part = "slots" => SharedPartition!CleanExitLeavesNoClaim
  /\ part = "partitions" => TwoPartitions!CleanExitLeavesNoClaim

\* A slot that submits a task whose offset it has committed is never refused.
ExecutorHasRoom ==
  /\ part = "slots" => SharedPartition!ExecutorHasRoom
  /\ part = "partitions" => TwoPartitions!ExecutorHasRoom

\* Whatever _run_command returns, the target is gone and recorded, and a channel
\* that passed the boundary is closed.
ReturnedRunIsClean == Harness!ReturnedRunIsClean

\* Once the cut is recorded as observed, no pump forwards a chunk.
NothingPassesTheCut == Proxy!NothingPassesTheCut
=============================================================================
