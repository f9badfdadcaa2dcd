---------------------------- MODULE MCEvaluation ----------------------------
(***************************************************************************)
(* The held-out evaluations, checked in one run: the DUR-056 scorer         *)
(* (OneShotScorer), the DUR-055 scorer (HeldOutScorer), which both          *)
(* implement OneShotStudy, and the development gate that precedes them      *)
(* (GateA).  They share no state; a behaviour is one of the component part, *)
(* and the variables of the others keep one initial value.  Two processes   *)
(* race in each; the gate is also run by one process through two units.     *)
(* The sources are at c1 or at c2.                                          *)
(***************************************************************************)
EXTENDS TLC

CONSTANTS p1, p2, c1, c2, prep, u1, u2, a1, a2, m1, Free, Orphan, NoRow

VARIABLES
  part,
  lock, disk, units, vectors, index, gate, pc, fz, resume, mem, cur, faults, errors,
  kills, moves,
  hLock, hDisk, rows, hVectors, artifacts, indexes, hHead, hPc, hd, hResume, seen, hCur,
  hFaults, hErrors, hKills, hMoves,
  bundles, gVectors, ledger, overwritten, markers, gUnits, reports, freezes, head, run, gFaults, gMoves

scorerVars == <<lock, disk, units, vectors, index, gate, pc, fz, resume, mem, cur, faults,
                errors, kills, moves>>
heldOutVars == <<hLock, hDisk, rows, hVectors, artifacts, indexes, hHead, hPc, hd, hResume,
                 seen, hCur, hFaults, hErrors, hKills, hMoves>>
gateVars == <<bundles, gVectors, ledger, overwritten, markers, gUnits, reports, freezes, head, run,
              gFaults, gMoves>>
allVars == <<part, scorerVars, heldOutVars, gateVars>>

\* A preparation unit, two scored ones, and two freezes of the sources.
Dur056 == INSTANCE OneShotScorer WITH
  Procs <- {p1, p2}, Plan <- <<prep, u1, u2>>, Freezes <- {c1, c2}, Batches <- 2,
  NotSafe <- TRUE, MaxFaults <- 2, MaxErrors <- 1, MaxKills <- 1, MaxMoves <- 1

\* Two primary units, one of the matrix, and two reviewed commits.
Dur055 == INSTANCE HeldOutScorer WITH
  Procs <- {p1, p2}, Primary <- <<a1, a2>>, Matrix <- <<m1>>, Commits <- {c1, c2},
  Batches <- 2, Escapes <- TRUE, MaxFaults <- 1, MaxErrors <- 1, MaxKills <- 1,
  MaxMoves <- 1,
  MaxResumes <- 2, lock <- hLock, disk <- hDisk, vectors <- hVectors, head <- hHead, pc <- hPc,
  resume <- hResume, cur <- hCur, faults <- hFaults, errors <- hErrors, kills <- hKills,
  moves <- hMoves

\* Two processes prepare and then pilot one unit.
GateRace == INSTANCE GateA WITH
  Procs <- {p1, p2}, Units <- <<"defended">>, Heads <- {c1, c2},
  Embedded <- TRUE, Prepared <- {}, Cap <- 4, MaxFaults <- 0, MaxMoves <- 0,
  vectors <- gVectors, units <- gUnits, faults <- gFaults, moves <- gMoves

\* Two processes share the pilot of a prepared study; one command fails.
GatePilot == INSTANCE GateA WITH
  Procs <- {p1, p2}, Units <- <<"defended">>, Heads <- {c1, c2},
  Embedded <- TRUE, Prepared <- {"earlier"}, Cap <- 3, MaxFaults <- 1, MaxMoves <- 0,
  vectors <- gVectors, units <- gUnits, faults <- gFaults, moves <- gMoves

\* One process over a defended and a plain unit, with more failures and edits.
GateAlone == INSTANCE GateA WITH
  Procs <- {p1}, Units <- <<"defended", "plain">>, Heads <- {c1, c2},
  Embedded <- FALSE, Prepared <- {}, Cap <- 6, MaxFaults <- 2, MaxMoves <- 2,
  vectors <- gVectors, units <- gUnits, faults <- gFaults, moves <- gMoves

Symmetry == Permutations({p1, p2}) \cup Permutations({c1, c2})

Init ==
  /\ part \in {"dur056", "dur055", "gate race", "gate pilot", "gate alone"}
  /\ Dur056!Init /\ Dur055!Init
  /\ CASE part = "gate alone" -> GateAlone!Init
       [] part = "gate pilot" -> GatePilot!Init
       [] OTHER -> GateRace!Init
  /\ part # "dur056" => gate = c1
  /\ part # "dur055" => hHead = c1
  /\ part \in {"dur056", "dur055"} => head = c1

Next ==
  /\ UNCHANGED part
  /\ \/ part = "dur056" /\ Dur056!Next /\ UNCHANGED <<heldOutVars, gateVars>>
     \/ part = "dur055" /\ Dur055!Next /\ UNCHANGED <<scorerVars, gateVars>>
     \/ part = "gate race" /\ GateRace!Next /\ UNCHANGED <<scorerVars, heldOutVars>>
     \/ part = "gate pilot" /\ GatePilot!Next /\ UNCHANGED <<scorerVars, heldOutVars>>
     \/ part = "gate alone" /\ GateAlone!Next /\ UNCHANGED <<scorerVars, heldOutVars>>

Spec == Init /\ [][Next]_allVars
-----------------------------------------------------------------------------
\* Both scorers implement the one-shot study: one process at a time, a result
\* once, work only on a fresh or aborted study, complete only with every unit.
ImplementsStudy == Dur056!ImplementsStudy /\ Dur055!ImplementsStudy

\* Both unit artifacts of an index list exactly the rows on disk
\* (_run_missing_units, reuse_or_write).
IndexMatchesRows == Dur055!IndexMatchesRows

\* A report's rows are those of its own sources and bundle, and its ledger
\* entries cover them unless a concurrent command wrote over the ledger
\* (run_development_injection_pilot).
ReportCoversItsRows ==
  IF part = "gate alone" THEN GateAlone!ReportCoversItsRows ELSE GateRace!ReportCoversItsRows

\* A freeze names a usable report of its own bundle, of the attempt the rule
\* selects (refreeze_gate_a_after_injection_pilot).
FreezeFollowsRule ==
  IF part = "gate alone" THEN GateAlone!FreezeFollowsRule ELSE GateRace!FreezeFollowsRule
=============================================================================
