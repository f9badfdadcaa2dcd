---------------------------- MODULE OneShotScorer ----------------------------
(* The DUR-056 held-out scorer: load the reviewed freeze, take the O_EXCL    *)
(* lock, open or resume the marker, score the missing units one by one, and  *)
(* publish report and index before the marker becomes COMPLETE.  Every file  *)
(* write may fail, unit handlers may raise, the working tree may be moved to *)
(* another reviewed (or unreviewed) commit at any time, and a process may be *)
(* killed.                                                                   *)
EXTENDS Naturals, Sequences, FiniteSets, SequencesExt

CONSTANTS
  Procs,          \* scorer processes
  Plan,           \* the unit plan; its first unit prepares the embeddings
  Freezes,        \* commits with matching configurations and receipt
  Free, Orphan, NoRow,
  NotSafe,        \* whether a handler may let a provider or workflow error out
  Batches,        \* batches of texts to embed
  MaxFaults, MaxErrors, MaxKills, MaxMoves

VARIABLES
  lock,      \* run-001.json.lock: absent (Free), created by p, or left behind
  disk,      \* the marker file
  units,     \* the unit files: NoRow, or the freeze and kind of the row
  vectors,   \* batches of chunks and queries whose vectors are in PostgreSQL
  index,     \* a COMPLETE result index has been written
  gate,      \* the freeze the working tree is at, or "unreviewed"
  pc, fz, resume, mem, cur,    \* per process: step, freeze, flag, marker, unit
  faults, errors, kills, moves

files == <<lock, disk, units, vectors, index>>
proc  == <<pc, fz, resume, mem, cur>>
world == <<gate, moves, kills>>
vars  == <<files, proc, world, faults, errors>>

Units == Range(Plan)
Prep == Plan[1]
OnDisk == {u \in Units : units[u] # NoRow}

NoMarker(s) == [status |-> s, done |-> {}, freeze |-> "unreviewed"]

Init ==
  /\ lock = Free /\ disk = NoMarker("new") /\ units = [u \in Units |-> NoRow]
  /\ vectors = 0 /\ index = FALSE
  /\ gate \in Freezes \cup {"unreviewed"}
  /\ pc = [p \in Procs |-> "idle"] /\ fz = [p \in Procs |-> "unreviewed"]
  /\ resume = [p \in Procs |-> FALSE]
  /\ mem = [p \in Procs |-> NoMarker("new")] /\ cur = [p \in Procs |-> Prep]
  /\ faults = 0 /\ errors = 0 /\ kills = 0 /\ moves = 0

Go(p, l) == pc' = [pc EXCEPT ![p] = l]
Fault == faults < MaxFaults /\ faults' = faults + 1

\* atomic_write_json: the marker is replaced whole, or not at all.
Save(p, m, ok, bad) ==
  /\ mem' = [mem EXCEPT ![p] = m]
  /\ \/ disk' = m /\ UNCHANGED faults /\ Go(p, ok)
     \/ Fault /\ UNCHANGED disk /\ Go(p, bad)

\* _assert_unchanged: HEAD, configurations and receipt are still those of the
\* freeze the process loaded, and so is the marker it works on.
GateHolds(p) == gate = fz[p]
Unchanged(p, m) == GateHolds(p) /\ m.freeze = fz[p]

\* verify_receipt: the receipt accepts this commit and both configurations.
Accepted(g) == g \in Freezes

\* score_heldout up to the scorer: the latest freeze bundle with its receipt.
LoadFrozenContext(p, r) ==
  /\ pc[p] = "idle" /\ Accepted(gate)
  /\ fz' = [fz EXCEPT ![p] = gate] /\ resume' = [resume EXCEPT ![p] = r]
  /\ Go(p, "lock")
  /\ UNCHANGED <<files, mem, cur, world, faults, errors>>

Acquire_UnlinksOnRefusal(p) ==
  /\ pc[p] = "lock"
  /\ IF GateHolds(p) /\ lock = Free THEN lock' = p /\ Go(p, "marker")
     ELSE lock' = Free /\ Go(p, "idle")
  /\ UNCHANGED <<disk, units, vectors, index, fz, resume, mem, cur, world, faults, errors>>

\* run: the freeze is checked again and the lock file created.  When writing
\* its content fails the file stays behind with no owner.
Acquire(p) ==
  /\ pc[p] = "lock"
  /\ \/ GateHolds(p) /\ lock = Free /\ lock' = p /\ Go(p, "marker") /\ UNCHANGED faults
     \/ (~GateHolds(p) \/ lock # Free) /\ Go(p, "idle") /\ UNCHANGED <<lock, faults>>
     \/ GateHolds(p) /\ lock = Free /\ Fault /\ lock' = Orphan /\ Go(p, "idle")
  /\ UNCHANGED <<disk, units, vectors, index, fz, resume, mem, cur, world, errors>>

\* A marker that is missing for a resume, present for a start, complete, torn,
\* or of another freeze ends the run; the lock is released.
Refuse(p) ==
  /\ pc[p] = "marker"
  /\ \/ ~resume[p] /\ disk.status # "new"
     \/ resume[p] /\ disk.status \in {"new", "torn", "COMPLETE"}
     \/ resume[p] /\ disk.status = "ABORTED" /\ ~Unchanged(p, disk)
  /\ Go(p, "unlock")
  /\ UNCHANGED <<files, fz, resume, mem, cur, world, faults, errors>>

\* A resume over a RUNNING marker is refused too, whatever its freeze, but by
\* then the marker is in memory and the outer except clause writes it back as
\* aborted.
RefuseRunning(p) ==
  /\ pc[p] = "marker" /\ resume[p] /\ disk.status = "RUNNING"
  /\ Save(p, [disk EXCEPT !.status = "ABORTED"], "unlock", "unlock")
  /\ UNCHANGED <<lock, units, vectors, index, fz, resume, cur, world, errors>>

\* create_exclusive_json: a failed write leaves a file that is not JSON.
CreateMarker(p) ==
  /\ pc[p] = "marker" /\ ~resume[p] /\ disk.status = "new"
  /\ LET m == [status |-> "RUNNING", done |-> {}, freeze |-> fz[p]]
     IN  /\ mem' = [mem EXCEPT ![p] = m]
         /\ \/ disk' = m /\ UNCHANGED faults /\ Go(p, "reconcile")
            \/ Fault /\ disk' = NoMarker("torn") /\ Go(p, "abort")
  /\ UNCHANGED <<lock, units, vectors, index, fz, resume, cur, world, errors>>

\* The abort marker is read and checked, then written back as RUNNING.
OpenMarker(p) ==
  /\ pc[p] = "marker" /\ resume[p] /\ disk.status = "ABORTED" /\ Unchanged(p, disk)
  /\ mem' = [mem EXCEPT ![p] = [disk EXCEPT !.status = "RUNNING"]] /\ Go(p, "resume")
  /\ UNCHANGED <<files, fz, resume, cur, world, faults, errors>>

ResumeMarker(p) ==
  /\ pc[p] = "resume" /\ Save(p, mem[p], "reconcile", "abort")
  /\ UNCHANGED <<lock, units, vectors, index, fz, resume, cur, world, errors>>

\* _load_existing_units: rows of another freeze stop the run.
Reconcile(p) ==
  /\ pc[p] = "reconcile"
  /\ IF \E u \in OnDisk : units[u].freeze # fz[p]
     THEN Go(p, "abort") /\ UNCHANGED <<mem, disk, faults>>
     ELSE Save(p, [mem[p] EXCEPT !.done = OnDisk], "unit", "abort")
  /\ UNCHANGED <<lock, units, vectors, index, fz, resume, cur, world, errors>>

\* The next unit of the plan with no file; the freeze is checked before it.
NextUnit(p) ==
  /\ pc[p] = "unit"
  /\ \/ OnDisk = Units /\ Go(p, "finalize") /\ UNCHANGED cur
     \/ \E i \in DOMAIN Plan :
          /\ Plan[i] \notin OnDisk /\ \A j \in 1..(i - 1) : Plan[j] \in OnDisk
          /\ cur' = [cur EXCEPT ![p] = Plan[i]]
          /\ Go(p, IF Unchanged(p, mem[p]) THEN "handler" ELSE "unit abort")
  /\ UNCHANGED <<files, fz, resume, mem, world, faults, errors>>

\* embed_missing: one request and one transaction per batch without vectors.
EmbedMissing(p) ==
  /\ pc[p] = "handler" /\ cur[p] = Prep /\ vectors < Batches
  /\ vectors' = vectors + 1
  /\ UNCHANGED <<lock, disk, units, index, proc, world, faults, errors>>

\* query_vector_map: a missing vector raises.
VectorsPresent == vectors = Batches

\* handle_unit: every unit needs the vectors, which the first one provides.  A
\* provider or workflow error becomes a NOT_SAFE row, any other exception
\* (PostgreSQL, embedding API, budget) an infrastructure abort.
HandleUnit(p) ==
  /\ pc[p] = "handler"
  /\ \/ VectorsPresent /\ Go(p, "row") /\ UNCHANGED errors
     \/ cur[p] # Prep /\ ~VectorsPresent /\ Go(p, "unit abort") /\ UNCHANGED errors
     \/ errors < MaxErrors /\ errors' = errors + 1 /\ Go(p, "unit abort")
     \/ /\ NotSafe /\ cur[p] # Prep /\ errors < MaxErrors /\ errors' = errors + 1
        /\ Go(p, "NOT_SAFE")
  /\ UNCHANGED <<files, fz, resume, mem, cur, world, faults>>

\* write_unit_once, stamped with the freeze of the process; a failed write is
\* unlinked.  Raised inside an except clause it skips the unit's own handler.
WriteUnitOnce(p) ==
  /\ pc[p] \in {"row", "NOT_SAFE"}
  /\ \/ /\ units[cur[p]] = NoRow
        /\ units' = [units EXCEPT ![cur[p]] = [freeze |-> fz[p], kind |-> pc[p]]]
        /\ Go(p, IF pc[p] = "row" THEN "mark" ELSE "mark NOT_SAFE") /\ UNCHANGED faults
     \/ /\ Fault /\ UNCHANGED units
        /\ Go(p, IF pc[p] = "row" THEN "unit abort" ELSE "abort")
  /\ UNCHANGED <<lock, disk, vectors, index, fz, resume, mem, cur, world, errors>>

MarkUnit(p) ==
  /\ pc[p] \in {"mark", "mark NOT_SAFE"}
  /\ Save(p, [mem[p] EXCEPT !.done = @ \cup {cur[p]}], "unit",
          IF pc[p] = "mark" THEN "unit abort" ELSE "abort")
  /\ UNCHANGED <<lock, units, vectors, index, fz, resume, cur, world, errors>>

\* The except clause of the unit loop sets ABORTED_INFRASTRUCTURE in memory
\* and writes it; when that write fails the outer clause, which acts only on a
\* RUNNING marker, leaves the file as it is.
UnitAbort(p) ==
  /\ pc[p] = "unit abort"
  /\ Save(p, [mem[p] EXCEPT !.status = "ABORTED"], "unlock", "unlock")
  /\ UNCHANGED <<lock, units, vectors, index, fz, resume, cur, world, errors>>

\* The outer except clause, reached with a RUNNING marker in memory.
OuterAbort(p) ==
  /\ pc[p] = "abort"
  /\ Save(p, [mem[p] EXCEPT !.status = "ABORTED"], "unlock", "unlock")
  /\ UNCHANGED <<lock, units, vectors, index, fz, resume, cur, world, errors>>

CountFinalization(p) ==
  /\ pc[p] = "finalize"
  /\ Save(p, mem[p], "report", "abort")
  /\ UNCHANGED <<lock, units, vectors, index, fz, resume, cur, world, errors>>

\* build_final_report: the summaries read the arm and case of every row, which
\* a NOT_SAFE row written by the scorer does not have.
BuildReport(p) ==
  /\ pc[p] = "report"
  /\ IF \A u \in Units \ {Prep} : units[u].kind = "row"
     THEN Save(p, mem[p], "index", "abort")
     ELSE Go(p, "abort") /\ UNCHANGED <<mem, disk, faults>>
  /\ UNCHANGED <<lock, units, vectors, index, fz, resume, cur, world, errors>>

WriteIndex(p) ==
  /\ pc[p] = "index"
  /\ \/ index' = TRUE /\ Go(p, "complete") /\ UNCHANGED faults
     \/ Fault /\ UNCHANGED index /\ Go(p, "abort")
  /\ UNCHANGED <<lock, disk, units, vectors, fz, resume, mem, cur, world, errors>>

\* COMPLETE is set in memory before it is written.
MarkComplete(p) ==
  /\ pc[p] = "complete"
  /\ Save(p, [mem[p] EXCEPT !.status = "COMPLETE", !.done = Units], "unlock", "unlock")
  /\ UNCHANGED <<lock, units, vectors, index, fz, resume, cur, world, errors>>

Unlock(p) ==
  /\ pc[p] = "unlock"
  /\ lock' = Free /\ Go(p, "idle")
  /\ mem' = [mem EXCEPT ![p] = NoMarker("new")] /\ cur' = [cur EXCEPT ![p] = Prep]
  /\ UNCHANGED <<disk, units, vectors, index, fz, resume, world, faults, errors>>

\* The process dies and its lock file stays, so that nobody reads what else it
\* leaves behind.
Kill(p) ==
  /\ kills < MaxKills /\ kills' = kills + 1
  /\ pc[p] # "idle" /\ Go(p, "idle")
  /\ lock' = IF lock = p THEN Orphan ELSE lock
  /\ mem' = [mem EXCEPT ![p] = NoMarker("new")] /\ cur' = [cur EXCEPT ![p] = Prep]
  /\ UNCHANGED <<disk, units, vectors, index, fz, resume, gate, moves, faults, errors>>

\* Someone commits, edits a configuration, or installs another receipt.
Move ==
  /\ moves < MaxMoves /\ moves' = moves + 1
  /\ gate' \in (Freezes \cup {"unreviewed"}) \ {gate}
  /\ UNCHANGED <<files, proc, kills, faults, errors>>

Step(p) ==
  \/ Acquire(p) \/ Refuse(p) \/ RefuseRunning(p) \/ CreateMarker(p)
  \/ OpenMarker(p) \/ ResumeMarker(p) \/ Reconcile(p)
  \/ NextUnit(p) \/ EmbedMissing(p) \/ HandleUnit(p) \/ WriteUnitOnce(p) \/ MarkUnit(p)
  \/ UnitAbort(p) \/ OuterAbort(p)
  \/ CountFinalization(p) \/ BuildReport(p) \/ WriteIndex(p) \/ MarkComplete(p)
  \/ Unlock(p)

Next ==
  \/ \E p \in Procs : Step(p) \/ Kill(p) \/ \E r \in BOOLEAN : LoadFrozenContext(p, r)
  \/ Move

Spec == Init /\ [][Next]_vars
-----------------------------------------------------------------------------

Study == INSTANCE OneShotStudy WITH owner <- lock, status <- disk.status, done <- OnDisk

\* The scorer implements the one-shot study.
ImplementsStudy == Study!Spec
=============================================================================
