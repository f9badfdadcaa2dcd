---------------------------- MODULE HeldOutScorer ----------------------------
(* The DUR-055 held-out scorer: check the receipt, take the lock, create or  *)
(* reopen the marker of the freeze, then embed, score retrieval, score the   *)
(* primary units and the injection matrix, write their artifacts and a       *)
(* numbered index, and mark the study COMPLETE.  Unit files carry a time     *)
(* stamp in their names, so nothing but the lock keeps a unit from having    *)
(* two; artifacts are reused by a resumed run when their content is equal.   *)
(* They are written in place, so a write that fails may leave a torn file.   *)
EXTENDS Naturals, Sequences, FiniteSets, SequencesExt

CONSTANTS
  Procs,
  Primary, Matrix,      \* the two unit plans, sequences of units
  Commits,              \* scorer commits for which a receipt exists
  Free, Orphan,
  Batches,              \* batches of held-out texts to embed
  Escapes,              \* whether a provider or workflow error may escape a unit
  MaxFaults, MaxErrors, MaxKills, MaxMoves,
  MaxResumes            \* bound: times an aborted study is taken up again

VARIABLES
  lock, disk,        \* the lock file and the marker
  rows,              \* unit files: for each unit the runs that wrote one, or Torn
  vectors,           \* batches of held-out vectors in PostgreSQL
  artifacts,         \* artifact name -> content; the content of a unit artifact
                     \* is the run that scored each row, or <<Torn>>
  indexes,           \* numbers of the result indexes written whole
  head,              \* the commit checked out
  pc, hd, resume, seen, cur,
  faults, errors, kills, moves

files == <<lock, disk, rows, vectors, artifacts, indexes>>
world == <<head, kills, moves>>
vars == <<files, pc, hd, resume, seen, cur, world, faults, errors>>

Plan(phase) == IF phase = "agent" THEN Primary ELSE Matrix
Units == Range(Primary) \cup Range(Matrix)
Absent == <<>>
Marker(s, c, n) == [status |-> s, commit |-> c, resumes |-> n]
Run == disk.resumes + 1      \* runs are numbered from 1
Torn == 0                    \* in place of a run: a file that is not JSON
Go(p, l) == pc' = [pc EXCEPT ![p] = l]
Fault == faults < MaxFaults /\ faults' = faults + 1
Error == errors < MaxErrors /\ errors' = errors + 1
Nothing == [u \in Units |-> 0]      \* no row in memory yet

Init ==
  /\ lock = Free /\ disk = Marker("new", "none", 0)
  /\ rows = [u \in Units |-> {}] /\ vectors = 0
  /\ artifacts = [a \in {"retrieval", "agent", "injection"} |-> Absent] /\ indexes = {}
  /\ head \in Commits
  /\ pc = [p \in Procs |-> "idle"] /\ hd = [p \in Procs |-> "none"]
  /\ resume = [p \in Procs |-> FALSE] /\ seen = [p \in Procs |-> Nothing]
  /\ cur = [p \in Procs |-> 1]
  /\ faults = 0 /\ errors = 0 /\ kills = 0 /\ moves = 0

\* heldout_scoring_guard: frozen configurations and a receipt for HEAD.
ScoringGuard(p, r) ==
  /\ pc[p] = "idle" /\ head \in Commits /\ (r => disk.resumes < MaxResumes)
  /\ hd' = [hd EXCEPT ![p] = head] /\ resume' = [resume EXCEPT ![p] = r]
  /\ Go(p, "lock")
  /\ UNCHANGED <<files, seen, cur, world, faults, errors>>

\* _start_one_shot_run up to the lock.
Claim(p) ==
  /\ pc[p] = "lock"
  /\ \/ lock = Free /\ lock' = p /\ Go(p, "marker")
     \/ lock # Free /\ Go(p, "idle") /\ UNCHANGED lock
  /\ UNCHANGED <<disk, rows, vectors, artifacts, indexes, hd, resume, seen, cur, world, faults, errors>>

\* _create_one_shot_marker: O_EXCL, and a failed write leaves a torn file.
CreateMarker(p) ==
  /\ pc[p] = "marker" /\ ~resume[p]
  /\ \/ disk.status # "new" /\ Go(p, "unlock") /\ UNCHANGED <<disk, faults>>
     \/ /\ disk.status = "new"
        /\ \/ disk' = Marker("RUNNING", hd[p], 0) /\ Go(p, "prepare") /\ UNCHANGED faults
           \/ Fault /\ disk' = Marker("torn", "none", 0) /\ Go(p, "unlock")
  /\ UNCHANGED <<lock, rows, vectors, artifacts, indexes, hd, resume, seen, cur, world, errors>>

\* An abort marker of the same commit and fingerprints is set RUNNING again.
Resumable(p) == disk.status = "ABORTED" /\ disk.commit = hd[p]

OpenMarker(p) ==
  /\ pc[p] = "marker" /\ resume[p]
  /\ Go(p, IF Resumable(p) THEN "resume" ELSE "unlock")
  /\ UNCHANGED <<files, hd, resume, seen, cur, world, faults, errors>>

ResumeMarker(p) ==
  /\ pc[p] = "resume"
  /\ \/ /\ disk' = [disk EXCEPT !.status = "RUNNING", !.resumes = @ + 1]
        /\ Go(p, "prepare") /\ UNCHANGED faults
     \/ Fault /\ Go(p, "unlock") /\ UNCHANGED disk
  /\ UNCHANGED <<lock, rows, vectors, artifacts, indexes, hd, resume, seen, cur, world, errors>>

\* Ledger, connection and fixture checks.
Prepare(p) ==
  /\ pc[p] = "prepare" /\ Go(p, "embed")
  /\ UNCHANGED <<files, hd, resume, seen, cur, world, faults, errors>>

\* _insert_heldout_embeddings: one transaction per batch that has no vectors.
InsertEmbeddings(p) ==
  /\ pc[p] = "embed"
  /\ IF vectors < Batches THEN vectors' = vectors + 1 /\ UNCHANGED pc
     ELSE UNCHANGED vectors /\ Go(p, "retrieval")
  /\ UNCHANGED <<lock, disk, rows, artifacts, indexes, hd, resume, seen, cur, world, faults, errors>>

\* The retrieval evaluation is scored and written, or the existing one kept;
\* _existing_artifact raises when that is torn.
ScoreRetrieval(p) ==
  /\ pc[p] = "retrieval"
  /\ Go(p, IF artifacts["retrieval"] = <<Torn>> THEN "abort" ELSE "agent")
  /\ artifacts' = IF artifacts["retrieval"] # Absent THEN artifacts
                  ELSE [artifacts EXCEPT !["retrieval"] = <<Run>>]
  /\ UNCHANGED <<lock, disk, rows, vectors, indexes, hd, resume, seen, cur, world, faults, errors>>

LoadRows_SkipsTorn(p) ==
  /\ pc[p] \in {"agent", "injection"}
  /\ IF \E u \in Units : Cardinality(rows[u] \ {Torn}) > 1 THEN Go(p, "abort") /\ UNCHANGED <<seen, cur>>
     ELSE /\ seen' = [seen EXCEPT ![p] = [u \in Units |-> IF rows[u] \ {Torn} = {} THEN 0
                                                          ELSE CHOOSE n \in rows[u] \ {Torn} : TRUE]]
          /\ cur' = [cur EXCEPT ![p] = 1]
          /\ Go(p, pc[p] \o " units")
  /\ UNCHANGED <<files, hd, resume, world, faults, errors>>

\* _load_unit_rows, once per phase, over the files of both: a torn file and two
\* files of one unit are errors.
LoadRows(p) ==
  /\ pc[p] \in {"agent", "injection"}
  /\ IF \E u \in Units : Torn \in rows[u] \/ Cardinality(rows[u]) > 1 THEN Go(p, "abort") /\ UNCHANGED <<seen, cur>>
     ELSE /\ seen' = [seen EXCEPT ![p] = [u \in Units |-> IF rows[u] = {} THEN 0
                                                          ELSE CHOOSE n \in rows[u] : TRUE]]
          /\ cur' = [cur EXCEPT ![p] = 1]
          /\ Go(p, pc[p] \o " units")
  /\ UNCHANGED <<files, hd, resume, world, faults, errors>>

Phase(p) == IF pc[p] = "agent units" THEN "agent" ELSE "injection"
InUnits(p) == pc[p] \in {"agent units", "injection units"}

\* _run_missing_units: a unit with a row is taken from it.
SkipUnit(p) ==
  /\ InUnits(p) /\ cur[p] <= Len(Plan(Phase(p))) /\ seen[p][Plan(Phase(p))[cur[p]]] # 0
  /\ cur' = [cur EXCEPT ![p] = @ + 1]
  /\ UNCHANGED <<files, pc, hd, resume, seen, world, faults, errors>>

\* _run_agent_unit turns provider and workflow errors into rows; the row is
\* written under a new name and kept in memory.
RunUnit(p) ==
  /\ InUnits(p) /\ cur[p] <= Len(Plan(Phase(p))) /\ seen[p][Plan(Phase(p))[cur[p]]] = 0
  /\ LET u == Plan(Phase(p))[cur[p]] IN
       /\ rows' = [rows EXCEPT ![u] = @ \cup {Run}]
       /\ seen' = [seen EXCEPT ![p][u] = Run]
  /\ cur' = [cur EXCEPT ![p] = @ + 1]
  /\ UNCHANGED <<lock, disk, vectors, artifacts, indexes, pc, hd, resume, world, faults, errors>>

\* _reuse_or_write_artifact: an artifact of an earlier run must be equal.
ReuseOrWriteArtifact(p) ==
  /\ InUnits(p) /\ cur[p] > Len(Plan(Phase(p)))
  /\ LET a == Phase(p)
         value == [i \in 1..Len(Plan(a)) |-> seen[p][Plan(a)[i]]]
     IN  /\ artifacts' = IF artifacts[a] = Absent THEN [artifacts EXCEPT ![a] = value] ELSE artifacts
         /\ Go(p, IF artifacts[a] \notin {Absent, value} THEN "abort"
                  ELSE IF a = "agent" THEN "injection" ELSE "index")
  /\ UNCHANGED <<lock, disk, rows, vectors, indexes, hd, resume, seen, cur, world, faults, errors>>

WriteIndex(p) ==
  /\ pc[p] = "index" /\ indexes' = indexes \cup {Run} /\ Go(p, "complete")
  /\ UNCHANGED <<lock, disk, rows, vectors, artifacts, hd, resume, seen, cur, world, faults, errors>>

\* _mark_one_shot_complete: the marker is read back and must be RUNNING.
MarkComplete(p) ==
  /\ pc[p] = "complete" /\ disk.status = "RUNNING"
  /\ disk' = [disk EXCEPT !.status = "COMPLETE"] /\ Go(p, "unlock")
  /\ UNCHANGED <<lock, rows, vectors, artifacts, indexes, hd, resume, seen, cur, world, faults, errors>>

\* write_once fills the file in place: cut short, the unit or the artifact it
\* was writing is left torn.  A torn index keeps the number of its run.
CutShort(p) ==
  \/ /\ InUnits(p) /\ cur[p] <= Len(Plan(Phase(p))) /\ seen[p][Plan(Phase(p))[cur[p]]] = 0
     /\ rows' = [rows EXCEPT ![Plan(Phase(p))[cur[p]]] = @ \cup {Torn}]
     /\ UNCHANGED artifacts
  \/ \E a \in DOMAIN artifacts :
       /\ \/ a = "retrieval" /\ pc[p] = "retrieval"
          \/ InUnits(p) /\ a = Phase(p) /\ cur[p] > Len(Plan(a))
       /\ artifacts[a] = Absent /\ artifacts' = [artifacts EXCEPT ![a] = <<Torn>>]
       /\ UNCHANGED rows

\* Between the marker and its completion any step may raise: a write that
\* fails, PostgreSQL or the embedding API, or an error that escapes a unit and
\* is re-raised without a record.
Working(p) == pc[p] \in {"prepare", "embed", "retrieval", "agent", "agent units",
                         "injection", "injection units", "index", "complete"}
Raise(p) ==
  /\ Working(p)
  /\ \/ pc[p] # "complete" /\ Error /\ Go(p, "abort") /\ UNCHANGED <<rows, artifacts, faults>>
     \/ /\ Fault /\ Go(p, "abort") /\ UNCHANGED errors
        /\ CutShort(p) \/ UNCHANGED <<rows, artifacts>>
     \/ Escapes /\ InUnits(p) /\ Error /\ Go(p, "unlock") /\ UNCHANGED <<rows, artifacts, faults>>
  /\ UNCHANGED <<lock, disk, vectors, indexes, hd, resume, seen, cur, world>>

\* _mark_infrastructure_abort reads the marker and replaces it.
MarkAbort_Skipped(p) ==
  /\ pc[p] = "abort" /\ Go(p, "unlock")
  /\ UNCHANGED <<files, hd, resume, seen, cur, world, faults, errors>>

MarkAbort(p) ==
  /\ pc[p] = "abort" /\ Go(p, "unlock")
  /\ \/ disk.status = "RUNNING" /\ disk' = [disk EXCEPT !.status = "ABORTED"] /\ UNCHANGED faults
     \/ disk.status # "RUNNING" /\ UNCHANGED <<disk, faults>>
     \/ Fault /\ UNCHANGED disk
  /\ UNCHANGED <<lock, rows, vectors, artifacts, indexes, hd, resume, seen, cur, world, errors>>

ReleaseLock(p) ==
  /\ pc[p] = "unlock" /\ lock' = Free /\ Go(p, "idle")
  /\ seen' = [seen EXCEPT ![p] = Nothing] /\ cur' = [cur EXCEPT ![p] = 1]
  /\ UNCHANGED <<disk, rows, vectors, artifacts, indexes, hd, resume, world, faults, errors>>

\* The process dies and its lock file stays, so that nobody reads what else it
\* leaves behind.
Kill(p) ==
  /\ kills < MaxKills /\ kills' = kills + 1
  /\ pc[p] # "idle" /\ Go(p, "idle")
  /\ lock' = IF lock = p THEN Orphan ELSE lock
  /\ seen' = [seen EXCEPT ![p] = Nothing] /\ cur' = [cur EXCEPT ![p] = 1]
  /\ UNCHANGED <<disk, rows, vectors, artifacts, indexes, hd, resume, head, moves, faults, errors>>

Move ==
  /\ moves < MaxMoves /\ moves' = moves + 1
  /\ head' \in Commits \ {head}
  /\ UNCHANGED <<files, pc, hd, resume, seen, cur, kills, faults, errors>>

Step(p) ==
  \/ Claim(p) \/ CreateMarker(p) \/ OpenMarker(p) \/ ResumeMarker(p) \/ Prepare(p) \/ InsertEmbeddings(p)
  \/ ScoreRetrieval(p) \/ LoadRows(p) \/ SkipUnit(p) \/ RunUnit(p)
  \/ ReuseOrWriteArtifact(p) \/ WriteIndex(p) \/ MarkComplete(p)
  \/ Raise(p) \/ MarkAbort(p) \/ ReleaseLock(p)

Next ==
  \/ \E p \in Procs : Step(p) \/ Kill(p) \/ \E r \in BOOLEAN : ScoringGuard(p, r)
  \/ Move

Spec == Init /\ [][Next]_vars
-----------------------------------------------------------------------------
Done == {u \in Units : rows[u] \ {Torn} # {}}

\* Once an index exists, every unit has one whole row and both unit artifacts
\* list exactly the rows on disk, also when earlier runs wrote some of them and
\* writes were cut short (_run_missing_units, _reuse_or_write_artifact).
IndexMatchesRows ==
  indexes # {} =>
    \A a \in {"agent", "injection"} : \A i \in 1..Len(Plan(a)) :
      /\ artifacts[a] # Absent
      /\ rows[Plan(a)[i]] = {artifacts[a][i]} /\ artifacts[a][i] # Torn

Study == INSTANCE OneShotStudy WITH owner <- lock, status <- disk.status, done <- Done

\* The scorer implements the one-shot study.
ImplementsStudy == Study!Spec
=============================================================================
