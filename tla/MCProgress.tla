----------------------------- MODULE MCProgress -----------------------------
(***************************************************************************)
(* What must eventually happen outside the engine, checked in one run: a    *)
(* draining worker process exits, a working one delivers its log            *)
(* (WorkerProcess), and an evaluation that is resumed after every abort     *)
(* completes (OneShotScorer, HeldOutScorer).  They share no state; a        *)
(* behaviour is one of the component part, the variables of the others keep *)
(* their initial value, and each part has the fairness of its component.    *)
(***************************************************************************)
CONSTANTS s1, s2, k1, k2, NoPart, p1, c1, prep, u1, u2, a1, a2, m1, Free, Orphan, NoRow

VARIABLES
  part,
  drain, expired, exit, main, slot, threads, inFlight, capacity, group,
  inbox, spent,
  lock, disk, units, vectors, index, gate, pc, fz, resume, mem, cur, faults, errors,
  kills, moves,
  hLock, hDisk, rows, hVectors, artifacts, indexes, hHead, hPc, hd, hResume, seen, hCur,
  hFaults, hErrors, hKills, hMoves

workerVars == <<drain, expired, exit, main, slot, threads, inFlight, capacity,
                group, inbox, spent>>
scorerVars == <<lock, disk, units, vectors, index, gate, pc, fz, resume, mem, cur, faults,
                errors, kills, moves>>
heldOutVars == <<hLock, hDisk, rows, hVectors, artifacts, indexes, hHead, hPc, hd, hResume,
                 seen, hCur, hFaults, hErrors, hKills, hMoves>>
allVars == <<part, workerVars, scorerVars, heldOutVars>>

\* Two slots share a partition; the process may be told to drain at any time.
Draining == INSTANCE WorkerProcess WITH
  Slots <- {s1, s2}, Partitions <- {k1}, LogLength <- 1,
  MaxRebalances <- 0, MaxErrors <- 0

\* One slot reads two partitions; the endpoint fails once.
Working == INSTANCE WorkerProcess WITH
  Slots <- {s1}, Partitions <- {k1, k2}, LogLength <- 2,
  MaxRebalances <- 1, MaxErrors <- 1

\* One process on an unmoved tree; providers fail three times, files never.
Dur056 == INSTANCE OneShotScorer WITH
  Procs <- {p1}, Plan <- <<prep, u1, u2>>, Freezes <- {c1}, Batches <- 2,
  NotSafe <- FALSE, MaxFaults <- 0, MaxErrors <- 3, MaxKills <- 0, MaxMoves <- 0

Dur055 == INSTANCE HeldOutScorer WITH
  Procs <- {p1}, Primary <- <<a1, a2>>, Matrix <- <<m1>>, Commits <- {c1},
  Batches <- 2, Escapes <- FALSE, MaxFaults <- 0, MaxErrors <- 3, MaxKills <- 0,
  MaxMoves <- 0,
  MaxResumes <- 3, lock <- hLock, disk <- hDisk, vectors <- hVectors, head <- hHead, pc <- hPc,
  resume <- hResume, cur <- hCur, faults <- hFaults, errors <- hErrors, kills <- hKills,
  moves <- hMoves

Init ==
  /\ part \in {"draining", "working", "dur056", "dur055"}
  /\ IF part = "draining" THEN Draining!Init ELSE Working!Init
  /\ Dur056!Init /\ Dur055!Init
  /\ part # "dur056" => gate = c1

Next ==
  /\ UNCHANGED part
  /\ \/ part = "draining" /\ Draining!Next /\ UNCHANGED <<scorerVars, heldOutVars>>
     \/ part = "working" /\ Working!Next /\ UNCHANGED <<scorerVars, heldOutVars>>
     \/ part = "dur056" /\ Dur056!Next /\ UNCHANGED <<workerVars, heldOutVars>>
     \/ part = "dur055" /\ Dur055!Next /\ UNCHANGED <<workerVars, scorerVars>>

\* Time passes and the watchdog runs; nothing else of a draining process is
\* promised to.
DrainFairness ==
  /\ WF_workerVars(part = "draining" /\ Draining!Expire)
  /\ WF_workerVars(part = "draining" /\ Draining!Watchdog)

\* Consumer and activity threads are scheduled, and activities return.
WorkFairness ==
  /\ WF_workerVars(part = "working" /\ Working!AllJoined)
  /\ WF_workerVars(part = "working" /\ Working!SlotStep(s1))
  /\ WF_workerVars(part = "working" /\ \E t \in threads : Working!ThreadStep(t))

\* A started command goes on, and an operator starts an aborted study again.
Going ==
  \/ part = "dur056" /\ Dur056!Step(p1) /\ UNCHANGED heldOutVars
  \/ part = "dur055" /\ Dur055!Step(p1) /\ UNCHANGED scorerVars
Started(status, resuming) ==
  \/ /\ part = "dur056" /\ disk.status = status
     /\ Dur056!LoadFrozenContext(p1, resuming) /\ UNCHANGED heldOutVars
  \/ /\ part = "dur055" /\ hDisk.status = status
     /\ Dur055!ScoringGuard(p1, resuming) /\ UNCHANGED scorerVars
ScorerFairness ==
  /\ WF_<<scorerVars, heldOutVars>>(Going)
  /\ SF_<<scorerVars, heldOutVars>>(Started("ABORTED", TRUE))
  /\ SF_<<scorerVars, heldOutVars>>(Started("new", FALSE))

Spec == Init /\ [][Next]_allVars /\ DrainFairness /\ WorkFairness /\ ScorerFairness
-----------------------------------------------------------------------------
\* A drain always ends the process, also when an activity never returns, a slot
\* hangs in a request or the main thread is held in its startup hook.
DrainEnds == part = "draining" /\ drain ~> exit # "no"

\* Until the process drains, every message of the log is eventually stored by
\* the engine, whatever is fetched while a slot is busy and however often
\* partitions move or a slot restarts.
EveryMessageIsStored ==
  part = "working" ~>
    (part = "working" => drain \/ \A p \in {k1, k2} : inbox.stored[p] = Working!Offsets)

\* Started again after every abort, on an unmoved reviewed tree and with no file
\* write failing, a study completes (score, _run_missing_units).
ResumesFinish ==
  part \in {"dur056", "dur055"} /\ gate = c1 ~>
    (IF part = "dur056" THEN disk ELSE hDisk).status = "COMPLETE"
=============================================================================
