# Verification of the durable workflow engine

TLA+ models of this repository, the TLC runs that check them on small instances,
and TLAPS proofs that hold for every instance. `PROJECT.json` lists components,
runs, hazards, findings and theorems, and maps every definition to the lines it
models.

## 1. The system

The engine: a client submits a workflow, whose definition is a graph of nodes
(activity, fan-out, join, timer, success, failure); all durable state is in
PostgreSQL; Go schedulers advance workflows, Python workers run activities that
reach them through Kafka. Around it the repository keeps an incident agent, the
studies that evaluate it with paid providers, a fault harness, and the tools that
measure the engine on Kubernetes and on rented hosts.

| Part | Source | Module |
|---|---|---|
| Partition leases | `internal/state/store.go` | `PartitionLease` |
| Workflow, node, attempt, timer and cancellation rows | `internal/state/store.go`, `graph.go`, `m4.go` | `WorkflowStore` (partly) |
| Schedulers and interpreter | `internal/engine`, `internal/state/runtime.go` | `Scheduler` (partly) |
| What a worker slot tells the engine | `python/workers` | `Worker` (partly) |
| The worker process: fetching, admission, drain | `python/workers` | `WorkerProcess` (partly) |
| The running engine | `cmd/runtime` | `Runtime` (partly) |
| Invariant checker over the history | `internal/invariants` | properties of `Runtime` (partly) |
| Incident investigation on SQLite | `python/incident_agent/workflow.py`, `mcp.py` | `Incident` |
| Spend ledgers of paid requests, and the clients that use them | `dur055_budget.py`, `dur056_budget.py`, `dur055_agent.py`, `dur056_agent.py` | `Budget`, `SpendLedger` |
| Held-out scorers | `dur056_scorer.py`, `dur055_heldout.py` | `OneShotStudy`, `OneShotScorer`, `HeldOutScorer` |
| Development gate of DUR-056 | `dur056.py` | `GateA` |
| Fault harness and its proxy | `python/faults` | `FaultHarness`, `FaultProxy` |
| Kubernetes driver: deadlines, resources, one measured cell | `scripts/dur053_k3.py`, `dur053_pilot_driver.py` | `LiveDeadline`, `K3Driver`, `PilotRun` (partly) |
| Kubernetes campaign: dispatch, ledger, intake, freeze | `scripts/dur053_campaign.py` and its evidence tools | `Campaign` |
| Cost of the capacity campaign's hosts | `scripts/dur050-*` | `HostCost` |

How the parts of the engine interact. A scheduler lists workflows that have work
(`RuntimeWork`), acquires the lease of the partition, and repeats: renew the
lease, read the workflow and its nodes, choose one step, commit it in a
transaction of its own. The transaction checks the lease row (owner, epoch,
expiry) and the revision that the scheduler read. Workers do not hold leases.
They claim an attempt, which gives them a token, send heartbeats and post a
result under that token. The result is only *recorded* by the worker's
transaction; a lease owner later *consumes* it, and only then does the workflow
move on. An attempt whose heartbeats stop is timed out by the lease owner.

The tools around the engine share files and providers, not memory: a ledger file
replaced as a whole, lock and marker files, evidence directories, a checkout. What
goes wrong there goes wrong between two writes, or between a check and its use, so
their models take one step per file operation, commit or command.

## 2. Modules of the engine

**PartitionLease.** State: the row (`lease`), its lock (`rowLock`), the transaction
of each session (`tx`), the lease reference each owner believes it has (`ref`), the
log of acquisitions and the scheduler rows of the history. `Begin`, `Lock` or
`Refuse`, then a commit or `Rollback` are separate steps. `Lock` reads the clock at
any moment between the start of the statement and the grant of the lock, because
`clock_timestamp()` in the select list may be evaluated before the wait. The
owner's `ref` may miss an acquisition that committed. One operation, `write`,
stands for all transactions that begin with `lockLease` and insert a history row.

**WorkflowStore.** A transaction is one atomic action. Each locks the workflow row
before it reads anything else of the workflow and keeps the lock to the commit;
that the lease check survives to the commit is what `PartitionLease` shows. Three
encodings keep counters out of the state: `ref` is the set of schedulers whose
lease reference has the epoch of the row; `read` the set of schedulers whose last
read has the current revision (a transaction that increments the revision empties
it); a deadline or due time is a flag, or a count of due timers. `Fenced` is the
pair of checks (lease, expected revision) that begins every scheduler transaction.

**Scheduler.** `Decide` is one iteration of the loop up to the choice: due timers
first, then the first node, in the order of `ListNodes`, that has something to do
(`Due`). The step itself is a later action, `TakeStep`, or `StepFails` if the
transaction refuses it. The several reads of a decision are one action, since a
change between two of them also changes the revision; claims and heartbeats do not,
but the transactions that depend on them check them again. `PassFails` is the
iteration timeout or a lost connection, `CrashScheduler` the death of the process,
whose lease then belongs to nobody until it expires. With `External = FALSE` the
engine runs activities itself (readiness check, benchmarks, tests).

**Worker.** `exec[e]` goes from `Deliver` over `Claim` and `Finish` to `PostResult`.
Responses of claims and results can be lost after the commit and are sent again.
A delivery can happen whenever the API would answer it with a task
(`RuntimeActivity`).

**Runtime.** The composition, with time, faults and the client. `MaxFaults` bounds,
in one counter, crashes of schedulers and workers, failed passes, lost responses,
and leases or heartbeats that expire although their process is alive.
`WorkflowGraphs` has the graphs of the instances.

**WorkerProcess.** The same worker from inside its process: consumer slots that
poll, deliver, pause, seek and commit; the rebalance listener called inside `poll`;
the bounded executor; drain, deadline, watchdog and exit. The broker refuses commits of an old generation and the
delivery endpoint answers with its contiguous watermark, as `kafka_worker.py` uses
them (external). The drain deadline may pass at any moment after the drain began.

## 3. Modules around the engine

**Incident.** Every `DurableStore` method is a commit, so `start`, `investigate`,
`approve`, `reject` and `resume` are chains of commits (`pc`), and `Crash` cuts
them anywhere. The tool budget lives in memory and is lost in a crash; the
checkpoints are in the timeline.

**SpendLedger, Budget.** A ledger operation takes the lock of its process, reads the
file, changes the copy and replaces the file. Threads reserve, send, settle, fail,
retry and reconcile; processes die anywhere. The constant `RecordsBreach` is the
difference of the two studies: `dur056` records a breach and raises, `dur055`
refuses to settle. `Budget` is the promise: what a provider may charge was
committed before, and commitments stay under the cap.

**OneShotStudy, OneShotScorer, HeldOutScorer.** The abstract study has an owner, a
status and a set of results. The two scorers differ in lock, marker, unit files,
artifacts and resume, and both implement it. Every write can fail, handlers can
raise, the working tree can be moved, processes can be killed. `dur055` writes units
and artifacts in place, so a failing or killed write leaves a torn file, which every
later command refuses to read.

**GateA.** `prepare-dev`, `pilot-injection-dev` and `refreeze-gate-a` as concurrent
commands over bundles, markers, unit files, reports and the ledger. A paid call
writes the ledger twice, to reserve and to settle, and each of these is a read and,
later, a replacement of the whole file, so that a concurrent command can be written
over (`overwritten`). `Cap` bounds the calls; `Embedded` and `Prepared` say what an
earlier command left: the vectors, and a bundle.

**FaultHarness, FaultProxy.** `_run_command` with reader and watcher threads, a
target that obeys, is silent, exits early or reaches a wrong boundary, and POSIX
signals that may take longer than `finish` waits. A connection is accepted,
connected and published in steps of their own, in the harness's channel and in the
proxy, whose pump threads and `inject` run against `cut`.

**LiveDeadline.** What a job may still start, how long a command may take, what
diagnostics and teardown may use, and what the job is charged, for the smoke and
for the pilot (`driver`). `Work` is one command and the time until the next thing the
run does. In that gap no deadline is looked at: the polls sleep (`PollPause`), the
smoke awaits its drain probe once (`DrainWait`), and a pilot, which is live from
`build` on, downloads its addon manifests once (`Downloads`). Each gap follows a
command, so two never add up; `Slack` is the longest. The drain probe is a child
process and not a command; the teardown, too, sleeps while it waits for PostgreSQL.

**K3Driver.** What a run creates on its host, in which order, and what `cleanup`
and the cleanup scenario find and remove. A command succeeds, fails, or times out
with or without its effect. An inspect of the network that fails for a reason of its
own is taken for an absent network, as the code does, and noted (`misread`).

**PilotRun.** One cell: warm-up and measured window, the load generator in its pool
thread, worker restarts, witness collection (the look at the pods, then the reading
of their ledgers), record, reset and seal.

**Campaign.** Jobs with the checkout of the moment they were dispatched, admission
against the ledger and the history of dispatches, carry-overs, evidence intake that
can be killed between its two writes, and the freeze.

**HostCost.** Check, apply, launch, open, preflight, destroy, close and backfill.
The four hosts of a cycle are one amount, because they share their timestamps.

## 4. Runs

Components that share no state are checked together: an `MC` module instantiates
each of them, `part` names the one a behaviour is of, and the other variables keep
one initial value. A property of such a run is the property of the component.

| Run | States | Instance and question |
|---|---|---|
| `runtime` | 436,563 | linear graph with retries and 2 faults; fan-out of two with join; activities run in process, non-cooperating, 3 faults; an activity the deployed runtime does not support. Two schedulers in each, cancellation: are decisions fresh, retries bounded, the graph followed, the history legal, unknown outcomes left alone? |
| `runtime_liveness` | 34,882 | the linear graph, one slot: is an attempt current once, a success final, an end quiet, and, with fairness, nothing stranded? |
| `processes` | 692,390 | 2 owners and 2 sessions on a lease; worker processes with two slots on a partition, and one slot on two partitions; all fault actions on all targets; the proxy |
| `spending` | 1,137,787 | the hosts of the capacity campaign; both ledgers with 2 threads and 3 calls, one with a crash; an incident with 2 proposals, 3 investigations, 2 crashes |
| `evaluation` | 1,350,592 | both scorers with 2 processes, write faults, errors, a kill and moved sources; the gate with two processes that prepare and pilot, with two that pilot a prepared study while one fails, and with one process over two units |
| `cluster` | 1,027,033 | deadlines of smoke and pilot; two runs on a host, one of them killed; a cell with a restart; three jobs of a campaign with a carry-over, and three of one with a dependency, with a killed intake |
| `progress` | 130,402 | with fairness: drain, delivery of a log, resumed studies |
| `fanout_stall`, `fanout_names`, `fanout_history`, `incident_reject`, `campaign_intake` | | see Findings |

What is checked, each with a comment in its module naming the code it is about:

- Leases: `EpochFence`, `OneOwnerPerEpoch`, `WriterStillOwns`.
- Engine: `CurrentIsNewest`, `SuccessNotRepeated`, `UnknownNotRetried`,
  `EndedIsQuiet`, `OneExecutionPerAttempt`, `RetriesBounded`, `GraphOrder`,
  `HistoryAllowed`, and `DecisionsFresh`: whatever step still commits is the step
  the state at the commit calls for. In this model the lease fence and the revision
  check are each sufficient for it; its mutant drops both. Liveness: `NotStranded`,
  `ResultsConsumed`, `CancellationsApplied`.
- Worker process: `CommittedIsStored` (no offset is committed that the engine has
  not stored, although fetches, seeks and rebalances interleave),
  `CleanExitLeavesNoClaim`, `ExecutorHasRoom` (a slot that submits finds a place,
  since its offset is committed already), `DrainEnds`, `EveryMessageIsStored`.
- Fault harness: `ReturnedRunIsClean` (a run that came past the boundary also closed
  the channel), `NothingPassesTheCut` (no pumped chunk at all; an injected payload
  only on a connection not yet published when the cut took its sockets).
- Money: `TotalsMatchEntries`, `CommittedWithinCap` (dur055), `ImplementsBudget`
  (dur056 implements `Budget`), `BillBelowCap`.
- Incident: `EffectsFreshlyApproved`, `AppliedOnce`.
- Studies: `ImplementsStudy` (both scorers implement `OneShotStudy`),
  `IndexMatchesRows` (an index lists rows that are all there and whole),
  `ReportCoversItsRows` (rows of its own sources and bundle, and their ledger entries
  unless a concurrent command wrote over the ledger), `FreezeFollowsRule`,
  `ResumesFinish`.
- Kubernetes: `TeardownStartsInTime`, `WithinCeiling`, `EpisodesAreIsolated`,
  `SealedIsMeasured`, `UsedWithinLimit`, `CellMeasuredOnce`,
  `FrozenLeavesNothingOut`. The last also holds of a job that stands beside those
  that make up the campaign: refused, interrupted, or never taken in.

Every property of a passing run has a mutant: a definition changed the way a bug
would change it, after which TLC reports the property violated.

### Bounds

Two schedulers are enough for a takeover and a return; two slots for a second
delivery while the first runs. One retry reaches both sides of the budget check. Two
faults give a crash in the recovery from a crash; the linear graph has these with
one slot, the fan-out has two slots and one fault. In `PartitionLease` clock, epoch
and history are bounded so that an expiry, a takeover and writes by both owners
happen; longer histories are left to the proofs. A log of two messages is the least in which one is fetched while the
slot is busy with the other. Three calls under a cap of three, with reservations of
one and two, reach the cap from settled, open and uncertain calls. Three
investigations of an incident, with two crashes, reach an effect applied, forgotten
and proposed again. The scorers have a preparation and two units, so that an abort
leaves done and missing ones; `MaxResumes` bounds the resumes of a study that a torn
unit stops each time. The gate's race of two preparations has no failing write, its
race of two pilots one. Two runs on a host are a killed run and the one that
finds its remains. Three jobs under a limit of two and a half reservations meet the
limit, and two of them make up a campaign, so that a freeze can have one beside it.
Time in `LiveDeadline` and `HostCost` is scaled down, and the theorems hold
for the real values.

The runs of the engine check deadlock; a runtime with nothing left to do takes the
explicit step `Done` (`Quiescent`). The other runs do not: a process that exited, a
completed study or a closed job has no next step.

### Fairness

Engine (`FairSpec`): weak fairness of each scheduler's own steps (the loop of
`ServeWithOptions` never stops), of each worker's steps, of deliveries while an
attempt is unclaimed (the relay and the redispatch of unclaimed attempts repeat
them), of due times and of the expiry of an abandoned lease. Faults and client
requests are not fair, and faults are finite.

`progress`: for `DrainEnds` only that time passes and the watchdog thread runs, so
that activities that never return and requests that hang are included; for
`EveryMessageIsStored` that consumer and activity threads are scheduled and
activities return; for `ResumesFinish` that a started command goes on, and, strongly,
that an operator starts an aborted study again. Without the last there is nothing in
the code that would: the scorers do not restart themselves. In that run
providers fail, no process is killed and writes succeed: a torn unit or a marker that
could not be written back can end a study for good (see the observations).

## 5. Findings

1. `fanout_stall`. A claim requires the workflow to be `WAITING_ACTIVITY`
   (`store.go:1287`, `runtime.go:123`). After one branch's result is consumed, the
   workflow is `RUNNABLE`, and a sibling that no worker has claimed yet can never be
   claimed: the scheduler redispatches it forever. The comment of `RuntimeWork`
   says that the scan "must not strand work".
2. `fanout_names`. `recoverSucceeded` takes a fan-out node that has succeeded for
   unfinished, because its `next` is empty, and `AdvanceGraph` refuses it. The pass
   ends there, before all nodes whose identifiers sort after the fan-out node. With
   the identifiers of `cmd/dur050-fixture` (`root`, `succeeded`) the workflow never
   ends. In `TestM1InterpreterFanoutJoin` the names sort the other way.
3. `fanout_history`. The timeout of a non-cooperating branch while the workflow is
   `RUNNABLE` records `RUNNABLE -> RECONCILIATION_REQUIRED`, which the invariant
   checker rejects.
4. `incident_reject`. `investigate` accepts a run that is `DISPATCHED` or `VERIFYING`.
   After a crash that followed the effect, a new investigation ends in a rejection
   that records `no_action: True` although a remediation was applied.
5. `campaign_intake`. A job that fails while it installs its tools is charged one
   second; the intake recomputes the whole reservation from the same cleanup record
   and refuses the artifact.

Observations made while modelling, which contradict no text of the repository and
have no run:

- Scorer of DUR-056: if the write of the `COMPLETE` marker fails, or the process is
  killed, the marker stays `RUNNING`. A resume is refused, and the refusal itself
  writes the marker back as `ABORTED_INFRASTRUCTURE`, so the next resume is accepted
  (`dur056_scorer.py:182`, `:309`). In DUR-055 a failed abort write leaves `RUNNING`
  and no resume is ever accepted (`dur055_heldout.py:336`).
- DUR-055 writes units and artifacts in place: one cut short stops every resume.
- Two processes that share a spend ledger can lose a reservation
  (`dur055_budget.py:95`); the lock is one of threads.
- Gate A: if the last marker write fails after the report, a resume writes a second
  usable report and the refreeze refuses; a killed pilot stays `RUNNING`; no lock
  keeps two commands apart, so each may write over the other's ledger entries, and a
  command whose reservation is gone ends when it settles.
- Fault harness: a kill is recorded although the target had exited by itself
  (`control.py:525`), and an exit may be recorded before `released`
  (`control.py:270`). A run that gives up before the boundary may leave a connection
  open that was accepted and not yet published, and `inject` does not look at the
  proxy's stop event.
- Live time outside commands: a download is limited in its silence (60 s), not in its
  length (`dur053_k3.py:62`). One that trickles for more than ten minutes, late in a
  pilot, uses up the teardown reserve, and the job would outlive its reservation:
  `DownloadAssumption` excludes it. The sleep of the wait for PostgreSQL can carry a
  teardown up to a second beyond its deadline.
- Kubernetes driver: any nonzero exit of `docker network inspect` counts as an absent
  network (`dur053_k3.py:486`, `:1553`). If the command fails for another reason, a
  run may remove a network it did not create, or pass with its own still there.
- Host cost: the apply tool accepts a gate record of up to 240 minutes whatever it
  reserved. The hosts of a failed apply cannot be backfilled, and `-Backfill` asks
  for a schema and a field that the apply and destroy tools name differently. These
  are the lapses `BillBelowCap` excludes.

## 6. Proofs

TLAPS proves the following for all values of the constants that satisfy the named
assumptions: `LeaseAssumption`, `GraphAssumption`, `SchedulerAssumption`,
`RuntimeAssumption` (types of the constants), `DeadlineAssumption` (the reserve is
the diagnostic and the teardown reserve, and less than the reservation),
`DownloadAssumption` (the addon downloads of a pilot, and a sleep, take no longer than
the teardown limit; needed for `PilotWithinCeiling` and `ChargeAlwaysCovers`) and
`HostCostAssumption` (earlier cycles cost less than the cap).

**PartitionLeaseProofs**: `TypeCorrect`, `Fencing` (`EpochFence`), `UniqueGrants`
(`OneOwnerPerEpoch`), `CommitsAsOwner` (`WriterStillOwns`), `Takeover`
(`TakeoverAfterExpiry`: a lease changes hands only after release or expiry). The
inductive invariant adds to the types: the row lock is held by exactly the
transaction that passed its check, and what it checked of owner and epoch is still
true of the row (`HeldKnows`); the row is the newest grant (`RowIsNewestGrant`); the
history is written under granted epochs, in the order of the grants
(`HistoryGranted`). Without the first, a commit could not be related to the check
that preceded it.

**RuntimeProofs**: `TypeCorrect`, `OneCurrentAttempt` (`CurrentIsNewest`),
`SuccessIsLast` (`SuccessNotRepeated`), `UnknownIsLast` (`UnknownNotRetried`),
`QuietEnd` (`EndedIsQuiet`), `FinalEnd` (`EndIsFinal`). The inductive invariant
describes each node together with its attempts (`RowInv`): which attempts may still
be live, what the node's pointer may name, and which states follow a success. It
adds that ended workflows are settled and that passes and executions refer to
attempts that exist. The properties alone are not inductive: that no attempt follows
a success rests on the node keeping its pointer until the result is consumed and on
its being `SUCCEEDED` from then on. `WorkflowStoreProofs` shows once per transaction
that the invariant is kept; `RuntimeProofs` lifts this to the actions. TLC checks
three of these on the linear graph only; the theorems cover fan-outs.

**LiveDeadlineProofs**: `TeardownAlwaysInTime` (`TeardownStartsInTime`),
`PilotWithinCeiling` (`WithinCeiling`), `ChargeAlwaysCovers` (`ChargeCoversLive`: the
charge stays within the reservation and covers the live time up to one sleep). The
bounds name the time outside commands that the code leaves unchecked: one gap before
teardown starts, one sleep after its deadline. `Bounds` says how far
each phase may push the clock; no property is inductive without it, since each speaks
of a phase that starts where the previous one was stopped.

**HostCostProofs**: `BillStaysBelowCap` (`BillBelowCap`). The invariant adds what the
last check granted, up to which moment (`Granted`, `InTime`), and that everything
billed is in the ledger or in the cycle still to be recorded (`Recorded`).

Only model-checked: liveness and both refinements; `DecisionsFresh`,
`OneExecutionPerAttempt`, `RetriesBounded`, `GraphOrder`, `HistoryAllowed` (which does
not hold for every graph, finding 3); and the modules without a proof module.

## 7. Abstractions

- One workflow and one partition: workflows share only the lease, and the lease is
  `PartitionLease`. Iteration 0 only, and all declared successors. No approvals in
  the engine, so cancellation has no `BEST_EFFORT` outcome.
- `CancelWorkflow` and `RecordLateEvidence` have no caller in the runtime. The bound
  `MaxSteps` of a pass is not reached by the graphs here.
- Amounts of money and time are whole units. Hashes, timestamps in file names and
  contents of evidence are identities: who wrote it, from which sources.
- A file replaced with `os.replace` changes at once, and a write that fails leaves the
  old one. A file written in place can be torn: a marker when it is
  created, the units of the gate, the units and artifacts of DUR-055. A report of
  the gate torn by a kill is not modelled.
- `LiveDeadline` orders commands one after the other; where the load generator runs
  beside the sampler, both end by the same deadline. Computing takes no time.
- Provider, Kafka, docker, kubectl, EC2 and the operator are external: they do, fail
  to do or do late whatever the code that calls them provides for.

## 8. Not modelled

- Outbox, relay, inbox and wakeups of the Go engine. A delivery is an opportunity
  while an attempt is unclaimed; `NotStranded` holds without any wakeup.
- Approvals, grants and effects of the Go engine (`internal/effects`, `m4.go`). The
  Python incident workflow, with the same steps, is modelled.
- Checkpoints and deadlines of retry policies, submission and admission (one
  serialised transaction each), reconciliation scans over tables that are not
  modelled.
- The legacy mode of the workers, the lifecycle of the Go processes, health and
  metrics endpoints.
- Retrieval, ranking, prompts, scores, fixtures and provider protocols: calculations
  and services without state of their own. Telemetry and contracts likewise.
- Load generators, derivations of service levels and other calculations over finished
  measurements: single-threaded, within reach of unit tests.
- `internal/reference/model.go`, a sequential oracle for tests.
