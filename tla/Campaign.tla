------------------------------ MODULE Campaign -------------------------------
(***************************************************************************)
(* The registered pilot campaign (scripts/dur053_campaign.py and its       *)
(* evidence tools): jobs dispatched on a hosted runner, each with the      *)
(* checkout of the moment it was dispatched; the operator who takes the    *)
(* downloaded evidence into the repository and charges the live-time       *)
(* ledger; and the freeze that turns the evidence into one result.         *)
(***************************************************************************)
EXTENDS Integers, Sequences, FiniteSets, FiniteSetsExt

CONSTANTS
  Bases,      \* the registered jobs dispatched: names of JOBS
  Repeats,    \* index of the last repeat of an arm (3 in the code)
  Names,      \* the names dispatched: a base and the number of its carry-over, or 0
  CEILING,    \* live time reserved for one job
  Limit,      \* limit_seconds of the ledger
  Replays,    \* pre-start refusals of one name (3 in the code)
  MaxJobs,    \* bound on dispatches
  MaxCrashes  \* bound on intakes killed between evidence and ledger

VARIABLES
  jobs,     \* every job Actions knows, in order of creation
  repo,     \* row: charges in the ledger; art: evidence, by job
  crashes,
  frozen    \* the freeze has been accepted

vars == <<jobs, repo, crashes, frozen>>

Cells(arm, first) == [k \in 1 .. Repeats + 1 - first |-> <<arm, first + k - 1>>]

JOBS == [b \in Bases |->
  CASE b = "1a" -> Cells("short", 0) \o Cells("medium", 0)
    [] b = "1b" -> Cells("cpu", 0)
    [] b = "2"  -> <<<<"long", 0>>>>
    [] b = "3"  -> Cells("long", 1)]

Job == DOMAIN jobs
Elems(s) == {s[k] : k \in DOMAIN s}
Sum(row) == MapThenSumSet(LAMBDA j : row[j], DOMAIN row)
With(f, j, v) == [k \in DOMAIN f \cup {j} |-> IF k = j THEN v ELSE f[k]]

NoRepo == [row |-> <<>>, art |-> <<>>]
Init == jobs = <<>> /\ repo = NoRepo /\ crashes = 0 /\ frozen = FALSE

Set(i, j) == jobs' = [jobs EXCEPT ![i] = j] /\ UNCHANGED <<repo, crashes, frozen>>

-----------------------------------------------------------------------------
(* Reading evidence.  An interrupted intake replaces the manifest of the    *)
(* job by one that failed with nothing completed.                           *)

Recorded(art, j) == j \in DOMAIN art /\ art[j] = "record"

Completed(art, j) == IF Recorded(art, j) THEN {jobs[j].plan[k] : k \in 1 .. jobs[j].done} ELSE {}

pre_start_refusal(art, j) == Recorded(art, j) /\ jobs[j].cleanup = "EMPTY"

Accepted(art, j) ==
  Recorded(art, j) /\ jobs[j].status \in {"PASS", "CARRY_OVER"} /\ jobs[j].cleanup = "PASS"

carry_over(j) == [base |-> jobs[j].name.base, carry |-> jobs[j].name.carry + 1]

-----------------------------------------------------------------------------
(* Admission.  Evidence and ledger are those of the checkout, the history   *)
(* of dispatches is asked for when the job runs.  created_at counts         *)
(* seconds, so a job may share it with one dispatched just before.          *)

Dispatch(name, at) ==
  /\ Len(jobs) < MaxJobs
  /\ \/ at = Len(jobs) + 1
     \/ jobs # <<>> /\ jobs[Len(jobs)].pc = "queued" /\ at = jobs[Len(jobs)].at
  /\ jobs' = Append(jobs, [name |-> name, at |-> at, seen |-> repo, pc |-> "queued",
                           identity |-> FALSE, plan |-> <<>>, done |-> 0, calibrated |-> FALSE,
                           carried |-> FALSE, status |-> "FAIL", cleanup |-> "none",
                           charged |-> 0, used |-> 0])
  /\ UNCHANGED <<repo, crashes, frozen>>

Prior_Ended(i) == {j \in Job \ {i} : jobs[j].at <= jobs[i].at /\ jobs[j].pc = "ended"}
Prior(i) == {j \in Job \ {i} : jobs[j].at <= jobs[i].at}

ledger_check(row, registered, prior) == prior \subseteq DOMAIN row /\ Sum(row) + registered <= Limit

committed_ledger(r) == DOMAIN r.row \subseteq DOMAIN r.art

campaign_gate(i) ==
  LET r == jobs[i].seen
  IN  ledger_check(r.row, CEILING, Prior(i)) /\ committed_ledger(r)

Predecessors(i) ==
  {j \in DOMAIN jobs[i].seen.art :
     /\ Recorded(jobs[i].seen.art, j)
     /\ jobs[j].carried
     /\ carry_over(j) = jobs[i].name}

Pending(i) ==
  IF jobs[i].name.carry = 0
    THEN JOBS[jobs[i].name.base]
    ELSE LET p == jobs[CHOOSE j \in Predecessors(i) : TRUE]
         IN  SubSeq(p.plan, p.done + 1, Len(p.plan))

Previous(i) == {j \in DOMAIN jobs[i].seen.art : jobs[j].name = jobs[i].name}

NoReplay_FailedOnly(i) ==
  /\ \A j \in Previous(i) : ~Accepted(jobs[i].seen.art, j)
  /\ Cardinality(Previous(i)) < Replays
NoReplay(i) ==
  /\ \A j \in Previous(i) : pre_start_refusal(jobs[i].seen.art, j)
  /\ Cardinality(Previous(i)) < Replays

Initials(i, arm) == {j \in DOMAIN jobs[i].seen.art : <<arm, 0>> \in Completed(jobs[i].seen.art, j)}

dependency_plan(i) ==
  LET art == jobs[i].seen.art
  IN  /\ \/ jobs[i].name.carry = 0
         \/ Cardinality(Predecessors(i)) = 1 /\ \A j \in Predecessors(i) : Accepted(art, j)
      /\ NoReplay(i)
      /\ \A cell \in Elems(Pending(i)) :
           cell[2] > 0 /\ <<cell[1], 0>> \notin Elems(Pending(i)) =>
             /\ Cardinality(Initials(i, cell[1])) = 1
             /\ \A j \in Initials(i, cell[1]) : Accepted(art, j)

live_charge(cleanup, elapsed, started) ==
  IF ~started THEN 1
  ELSE IF cleanup \in {"PASS", "EMPTY"} /\ elapsed \in 1 .. CEILING THEN elapsed
  ELSE CEILING

\* The job ends before its live time starts.
Stopped(i, cleanup) ==
  [jobs[i] EXCEPT !.pc = "ended", !.status = "FAIL", !.cleanup = cleanup,
                  !.charged = live_charge(cleanup, 0, FALSE), !.seen = NoRepo]

\* No answer about the own identity: the manifest has no job_id.
NoIdentity(i) == jobs[i].pc = "queued" /\ Set(i, Stopped(i, "EMPTY"))

\* ci_proof, committed_bytes and the first admit may refuse whatever the ledger says.
Refused(i) ==
  /\ jobs[i].pc = "queued"
  /\ Set(i, [Stopped(i, "EMPTY") EXCEPT !.identity = TRUE])

Admitted(i) ==
  /\ jobs[i].pc = "queued"
  /\ campaign_gate(i)
  /\ dependency_plan(i)
  /\ Set(i, [jobs[i] EXCEPT !.pc = "install", !.identity = TRUE, !.plan = Pending(i),
                                !.seen = NoRepo])

-----------------------------------------------------------------------------
(* The admitted job. *)

\* A tool or the wheel does not arrive or does not match: before the binary of
\* kind is there cleanup has nothing to do, afterwards it looks for clusters.
InstallFails(i) ==
  /\ jobs[i].pc = "install"
  /\ \E cleanup \in {"EMPTY", "PASS", "FAIL"} : Set(i, Stopped(i, cleanup))

Installed(i) == jobs[i].pc = "install" /\ Set(i, [jobs[i] EXCEPT !.pc = "live"])

Calibrates(i) == jobs[i].name = [base |-> "1b", carry |-> 0]

Calibrate(i) ==
  /\ jobs[i].pc = "live" /\ Calibrates(i) /\ ~jobs[i].calibrated
  /\ Set(i, [jobs[i] EXCEPT !.calibrated = TRUE])

RunCell(i) ==
  /\ jobs[i].pc = "live" /\ (Calibrates(i) => jobs[i].calibrated)
  /\ jobs[i].done < Len(jobs[i].plan)
  /\ Set(i, [jobs[i] EXCEPT !.done = @ + 1])

\* admit finds no room for the next cell, and this is not the first one.
CarryOver(i) ==
  /\ jobs[i].pc = "live" /\ jobs[i].done \in 1 .. Len(jobs[i].plan) - 1
  /\ Set(i, [jobs[i] EXCEPT !.pc = "cleanup", !.status = "CARRY_OVER", !.carried = TRUE])

AllCells(i) ==
  /\ jobs[i].pc = "live" /\ jobs[i].done = Len(jobs[i].plan)
  /\ Set(i, [jobs[i] EXCEPT !.pc = "cleanup", !.status = "PASS"])

CellFails(i) ==
  /\ jobs[i].pc = "live" /\ jobs[i].done < Len(jobs[i].plan)
  /\ Set(i, [jobs[i] EXCEPT !.pc = "cleanup"])

Cleanup(i) ==
  /\ jobs[i].pc = "cleanup"
  /\ \E used \in 1 .. CEILING :
       Set(i, [jobs[i] EXCEPT !.pc = "ended", !.cleanup = "PASS", !.used = used,
                              !.charged = live_charge("PASS", used, TRUE)])

CleanupFails(i) ==
  /\ jobs[i].pc = "cleanup"
  /\ Set(i, [jobs[i] EXCEPT !.pc = "ended", !.cleanup = "FAIL", !.status = "FAIL",
                            !.used = CEILING, !.charged = live_charge("FAIL", 0, TRUE)])

Live(i) == jobs[i].pc \in {"live", "cleanup"}

\* The runner dies or the job is cancelled or times out: no final manifest, and
\* a live time nobody reads, taken to be the whole of it.
Terminated(i) ==
  /\ jobs[i].pc # "ended"
  /\ Set(i, [jobs[i] EXCEPT !.pc = "ended", !.status = "FAIL", !.seen = NoRepo,
                            !.used = IF Live(i) THEN CEILING ELSE 0])

-----------------------------------------------------------------------------
(* Intake: the evidence is copied first, the ledger is saved last. *)

\* What record accepts: a final manifest with its identity and the charge the
\* cleanup justifies.
IntakeCharge(i) ==
  jobs[i].charged = live_charge(jobs[i].cleanup, jobs[i].used, jobs[i].cleanup # "EMPTY")

Intake(i, kind, charge, complete) ==
  /\ repo' = [row |-> IF complete THEN With(repo.row, i, charge) ELSE repo.row,
              art |-> With(repo.art, i, kind)]
  /\ UNCHANGED <<jobs, frozen>>

Crash == crashes < MaxCrashes /\ crashes' = crashes + 1

record(i) ==
  /\ jobs[i].pc = "ended" /\ jobs[i].cleanup # "none" /\ jobs[i].identity
  /\ IntakeCharge(i)
  /\ ledger_check(repo.row, jobs[i].charged, {})
  /\ i \notin DOMAIN repo.row /\ i \notin DOMAIN repo.art
  /\ \/ Intake(i, "record", jobs[i].charged, TRUE) /\ UNCHANGED crashes
     \/ Intake(i, "record", jobs[i].charged, FALSE) /\ Crash

\* Actions says cancelled, timed_out or failure; the ledger is looked at after
\* the evidence is in place.
interrupted(i) ==
  /\ jobs[i].pc = "ended" /\ jobs[i].status = "FAIL"
  /\ i \notin DOMAIN repo.art
  /\ \/ Intake(i, "interrupted", CEILING, ledger_check(repo.row, CEILING, {})) /\ UNCHANGED crashes
     \/ Intake(i, "interrupted", CEILING, FALSE) /\ Crash

-----------------------------------------------------------------------------
(* The freeze reads the repository only. *)

AllRegistered == UNION {Elems(JOBS[b]) : b \in Bases}

NoBlockingJob_Any == \A j \in DOMAIN repo.art : Recorded(repo.art, j)
NoBlockingJob ==
  \A j \in DOMAIN repo.art : pre_start_refusal(repo.art, j) \/ Accepted(repo.art, j)

freeze ==
  /\ ~frozen
  /\ DOMAIN repo.art # {}
  /\ NoBlockingJob
  /\ DOMAIN repo.art = DOMAIN repo.row
  /\ \A i, j \in DOMAIN repo.art : i # j => Completed(repo.art, i) \cap Completed(repo.art, j) = {}
  /\ UNION {Completed(repo.art, j) : j \in DOMAIN repo.art} = AllRegistered
  /\ \A j \in DOMAIN repo.art : jobs[j].calibrated <=> <<"cpu", 0>> \in Completed(repo.art, j)
  /\ frozen' = TRUE
  /\ UNCHANGED <<jobs, repo, crashes>>

Next ==
  \/ \E name \in Names, at \in 1 .. MaxJobs : Dispatch(name, at)
  \/ \E i \in Job :
       \/ NoIdentity(i) \/ Refused(i) \/ Admitted(i) \/ InstallFails(i) \/ Installed(i)
       \/ Calibrate(i) \/ RunCell(i) \/ CarryOver(i) \/ AllCells(i) \/ CellFails(i) \/ Cleanup(i)
       \/ CleanupFails(i) \/ Terminated(i) \/ record(i) \/ interrupted(i)
  \/ freeze

Spec == Init /\ [][Next]_vars

-----------------------------------------------------------------------------
(* Properties *)

\* The live time of all jobs, a running one with its whole reservation, stays
\* within the ledger's limit, whatever was dispatched together, killed or taken
\* in late (campaign_gate, ledger_check, record, interrupted).
UsedWithinLimit ==
  MapThenSumSet(LAMBDA i : IF Live(i) THEN CEILING ELSE jobs[i].used, Job) <= Limit

\* No cell is measured by two jobs, recorded or not: a result cannot be picked
\* from several attempts (dependency_plan, pilot-no-replay-job).
CellMeasuredOnce ==
  \A i, j \in Job : i # j =>
    {jobs[i].plan[k] : k \in 1 .. jobs[i].done} \cap {jobs[j].plan[k] : k \in 1 .. jobs[j].done} = {}

\* An accepted freeze leaves out no measurement that was ever made: each job
\* that completed a cell passed, was cleaned up and is in the ledger.
FrozenLeavesNothingOut ==
  frozen => \A i \in Job : jobs[i].done > 0 =>
    jobs[i].status \in {"PASS", "CARRY_OVER"} /\ jobs[i].cleanup = "PASS" /\ i \in DOMAIN repo.row

\* A failed job that wrote its manifest can be taken in as it is: "Downloaded
\* complete or failed artifact intake" (k3b-tooling-v1/README.md:38).
FailedIsTakenIn ==
  \A i \in Job : jobs[i].pc = "ended" /\ jobs[i].cleanup # "none" /\ jobs[i].identity => IntakeCharge(i)
=============================================================================
