------------------------------ MODULE PilotRun -------------------------------
(***************************************************************************)
(* One cell of the pilot (scripts/dur053_pilot_driver.py): a warm-up       *)
(* window, its reconciliation, the measured window, its reconciliation,    *)
(* the reset of the episode and the seal.  A pool thread runs the load     *)
(* generator through kubectl exec while the driver samples the cluster.    *)
(***************************************************************************)
EXTENDS Integers, FiniteSets

CONSTANT MaxRestarts   \* bound on worker restarts

Windows == {"warmup", "measured"}

VARIABLES
  pc,       \* where pilot() is
  window,   \* the window it works on
  load,     \* the load generator in the observer pod
  future,   \* the pool thread: what kubectl exec returned
  active,   \* windows with work that has not ended
  seen,     \* windows whose workflows are all in terminal_observed
  restarts, \* worker restarts so far
  files,    \* record.json, seal.json, and witnesses collected in this cell
  dirty     \* the namespace, the database or the topics of the episode exist

vars == <<pc, window, load, future, active, seen, restarts, files, dirty>>

Init ==
  /\ pc = "setup" /\ window = "warmup" /\ load = "none" /\ future = "none"
  /\ active = {} /\ seen = {} /\ restarts = 0 /\ dirty = FALSE
  /\ files = [record |-> "none", sealed |-> FALSE, witness |-> {}, expected |-> 0]

Keep == UNCHANGED <<load, future, active, restarts, dirty>>

\* Any exception: the record says FAIL, the failure is exported, the job goes on
\* to its cleanup.  The pool waits for its thread before the exception leaves it.
Fails(step) ==
  /\ pc = step /\ pc' = "failed"
  /\ files' = [files EXCEPT !.record = "FAIL"]
  /\ UNCHANGED <<window, seen>> /\ Keep

-----------------------------------------------------------------------------
(* The cluster and the load generator. *)

WorkerRestarts ==
  /\ dirty /\ restarts < MaxRestarts /\ restarts' = restarts + 1
  /\ UNCHANGED <<pc, window, load, future, active, seen, files, dirty>>

WorkEnds(w) ==
  /\ w \in active /\ (load = "running" => w # window)
  /\ active' = active \ {w}
  /\ UNCHANGED <<pc, window, load, future, seen, restarts, files, dirty>>

\* It ends with every arrival of the window sent in time, or with some missed.
LoadEnds(how) ==
  /\ load = "running" /\ load' = how
  /\ UNCHANGED <<pc, window, future, active, seen, restarts, files, dirty>>

\* kubectl exec returns with the generator, or is cut off at its timeout.
Returns ==
  /\ future = "pending"
  /\ \/ load \in {"complete", "partial"} /\ future' = load
     \/ future' = "timeout"
  /\ UNCHANGED <<pc, window, load, active, seen, restarts, files, dirty>>

-----------------------------------------------------------------------------
(* The driver. *)

\* stable_worker_sessions: the pods are those of the set-up, never restarted.
Stable == restarts = files.expected

\* What a sample finds in the database: workflows of w that have SUCCEEDED.
Terminal ==
  {w \in Windows : /\ w \notin active
                   /\ w = window => load = "complete"
                   /\ window = "warmup" => w = "warmup"}

Sample == Stable /\ seen' = seen \cup Terminal

Setup ==
  /\ pc = "setup"
  /\ \/ pc' = "load" /\ files' = [files EXCEPT !.record = "FAIL", !.expected = restarts]
     \/ pc' = "failed" /\ files' = [files EXCEPT !.record = "FAIL"]
  /\ dirty' = TRUE
  /\ UNCHANGED <<window, load, future, active, seen, restarts>>

StartLoad ==
  /\ pc = "load" /\ pc' = "poll"
  /\ load' = "running" /\ future' = "pending" /\ active' = active \cup {window}
  /\ UNCHANGED <<window, seen, restarts, files, dirty>>

Poll == pc = "poll" /\ future = "pending" /\ Sample /\ UNCHANGED <<pc, window, files>> /\ Keep

\* A failed sample: SIGTERM to the generator, which may fail as well, and raise.
StopLoad ==
  /\ pc = "poll" /\ future = "pending" /\ pc' = "stopping"
  /\ load' \in {load, IF load = "running" THEN "partial" ELSE load}
  /\ UNCHANGED <<window, future, active, seen, restarts, files, dirty>>

Stopped == future # "pending" /\ Fails("stopping")

\* Every arrival of the window was offered and accepted.
window_ok(how) == how = "complete"

\* window_ok and the exit code of the generator.
Offered ==
  /\ pc = "poll" /\ window_ok(future)
  /\ pc' = IF window = "warmup" THEN "wait" ELSE "reconcile"
  /\ UNCHANGED <<window, seen, files>> /\ Keep

\* The finally block cannot read the arrivals, or they are not complete.
NotOffered == future # "pending" /\ Fails("poll")

\* The rest of the warm-up period, sampled.
Wait ==
  /\ pc = "wait" /\ Sample
  /\ pc' \in {"wait", "reconcile"} /\ UNCHANGED <<window, files>> /\ Keep

Wanted == IF window = "warmup" THEN {"warmup"} ELSE Windows

\* The witness inventories did not change for 30 seconds: nothing is running.
Quiet == active = {}

Reconcile ==
  /\ pc = "reconcile" /\ Sample
  /\ \/ pc' = "reconcile"
     \/ Wanted \subseteq seen' /\ Quiet /\ pc' = "witness"
  /\ UNCHANGED <<window, files>> /\ Keep

\* collect_witness looks at the pods first and reads their ledgers afterwards.
Witness ==
  pc = "witness" /\ Stable /\ pc' = "collect" /\ UNCHANGED <<window, seen, files>> /\ Keep

\* A worker that restarted in between has begun a second session file.
single_witness_session == restarts = files.expected

Collect ==
  /\ pc = "collect" /\ single_witness_session /\ pc' = "check"
  /\ files' = [files EXCEPT !.witness = @ \cup {<<window, restarts>>}]
  /\ UNCHANGED <<window, seen>> /\ Keep

\* Both checkers agree, the clock is probed and the deadline has not passed.
Check ==
  /\ pc = "check" /\ active = {}
  /\ \/ window = "warmup" /\ window' = "measured" /\ pc' = "load"
        /\ load' = "none" /\ future' = "none" /\ UNCHANGED files
     \/ window = "measured" /\ pc' = "summarize" /\ files' = [files EXCEPT !.record = "PASS"]
        /\ UNCHANGED <<window, load, future>>
  /\ UNCHANGED <<active, seen, restarts, dirty>>

\* The witness ledgers come from the expected pods, have one session each and
\* pair a start with an end for every measured workflow.
busy_times == <<"measured", files.expected>> \in files.witness

\* The evidence read back from the files before the episode is given up.
Summarized ==
  files.record = "PASS" /\ window_ok(load) /\ busy_times /\ active = {} /\ Windows \subseteq seen

Summarize_SealFirst ==
  pc = "summarize" /\ Summarized /\ pc' = "seal" /\ UNCHANGED <<window, seen, files>> /\ Keep
Summarize ==
  pc = "summarize" /\ Summarized /\ pc' = "reset" /\ UNCHANGED <<window, seen, files>> /\ Keep

Reset == pc = "reset" /\ pc' = "seal" /\ dirty' = FALSE
         /\ UNCHANGED <<window, load, future, active, seen, restarts, files>>

Seal ==
  /\ pc = "seal" /\ pc' = "done" /\ files' = [files EXCEPT !.sealed = TRUE]
  /\ UNCHANGED <<window, seen>> /\ Keep

Failing ==
  \/ \E step \in {"load", "wait", "reconcile", "witness", "collect", "check", "summarize",
                "reset", "seal"} : Fails(step)
  \/ Stopped \/ NotOffered

Next ==
  \/ WorkerRestarts \/ Returns
  \/ \E w \in Windows : WorkEnds(w)
  \/ \E how \in {"complete", "partial"} : LoadEnds(how)
  \/ Setup \/ StartLoad \/ Poll \/ StopLoad \/ Offered \/ Wait \/ Reconcile \/ Witness \/ Collect
  \/ Check \/ Summarize \/ Reset \/ Seal \/ Failing

Spec == Init /\ [][Next]_vars

-----------------------------------------------------------------------------
(* Properties *)

\* A sealed cell is one that passed, whose episode is gone, whose workflows were
\* all seen to end, and whose workers are the same from set-up to the witness.
SealedIsMeasured ==
  files.sealed => /\ files.record = "PASS" /\ ~dirty
                  /\ files.witness = {<<w, files.expected>> : w \in Windows} /\ seen = Windows /\ active = {}
=============================================================================
