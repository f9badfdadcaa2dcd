---------------------------- MODULE OneShotStudy ----------------------------
(* What a one-shot held-out study promises, whichever scorer carries it out: *)
(* at most one process works on it at a time, a result is produced once and  *)
(* never replaced, work starts only on a fresh or an aborted study, and the  *)
(* study is complete only when every unit has its result.  OneShotScorer     *)
(* (the DUR-056 scorer) and HeldOutScorer (the DUR-055 one) implement it.    *)
CONSTANTS Procs, Units, Free, Orphan
VARIABLES
  owner,     \* who holds the study: a process, Free, or Orphan (left behind)
  status,    \* "new", "RUNNING", "ABORTED", "COMPLETE" or "torn"
  done       \* the units that have a result

vars == <<owner, status, done>>

Init == owner = Free /\ status = "new" /\ done = {}

\* The study is taken: nobody else may hold it.
Take(p) == owner = Free /\ owner' = p /\ UNCHANGED <<status, done>>

\* Taking it may leave it held by nobody.
Lose == owner \in {Free} \cup Procs /\ owner' = Orphan /\ UNCHANGED <<status, done>>

\* Work starts on a study that is new, or that an abort released.
Start(p) ==
  /\ owner = p /\ status \in {"new", "ABORTED"}
  /\ status' = "RUNNING" \/ (status = "new" /\ status' = "torn")
  /\ UNCHANGED <<owner, done>>

\* A result is recorded, once, while the study runs.
Score(p, u) ==
  /\ owner = p /\ status = "RUNNING" /\ u \notin done
  /\ done' = done \cup {u}
  /\ UNCHANGED <<owner, status>>

Abort(p) ==
  /\ owner = p /\ status \in {"RUNNING", "torn", "ABORTED"} /\ status' = "ABORTED"
  /\ UNCHANGED <<owner, done>>

Complete(p) ==
  /\ owner = p /\ status = "RUNNING" /\ done = Units
  /\ status' = "COMPLETE" /\ UNCHANGED <<owner, done>>

Release(p) == owner = p /\ owner' = Free /\ UNCHANGED <<status, done>>

Next ==
  \/ Lose
  \/ \E p \in Procs :
       \/ Take(p) \/ Start(p) \/ Abort(p) \/ Complete(p) \/ Release(p)
       \/ \E u \in Units : Score(p, u)

Spec == Init /\ [][Next]_vars
=============================================================================
