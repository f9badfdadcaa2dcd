----------------------------- MODULE LiveDeadline -----------------------------
(***************************************************************************)
(* The live-time budget of a Kubernetes run (scripts/dur053_k3.py Driver   *)
(* and the PilotDriver of scripts/dur053_pilot_driver.py): which commands  *)
(* may still start, how long they may take, what a failure spends on       *)
(* diagnostics, when teardown starts and what the run is charged.  Time is *)
(* counted from live_start; a command that times out ends at its timeout.  *)
(* Between two commands a run also sleeps, downloads and waits, and looks  *)
(* at no deadline; only its own computing is taken to need no time.        *)
(***************************************************************************)
EXTENDS Integers

CONSTANTS
  Reservation,         \* live_reservation
  Reserve,             \* 900: what no work command may use
  DiagnosticReserve,   \* 300
  TeardownLimit,       \* 600
  Timeouts,            \* the timeouts commands ask for
  CaptureLimit,        \* 10: one diagnostic capture
  PollPause,           \* 3: the longest sleep between two commands
  DrainWait,           \* 30: communicate() of the drain probe
  Downloads,           \* the addon downloads of a pilot, one after the other
  MaxTeardown          \* commands of a teardown

ASSUME DeadlineAssumption ==
  /\ Reservation \in Nat /\ DiagnosticReserve \in Nat /\ TeardownLimit \in Nat
  /\ Reserve = DiagnosticReserve + TeardownLimit /\ Reserve < Reservation
  /\ Timeouts \subseteq Nat /\ CaptureLimit \in Nat /\ DrainWait \in Nat
  /\ PollPause \in Nat /\ Downloads \in Nat /\ MaxTeardown \in Nat

\* The code limits the silence of a download (60 s), not its length: that the
\* downloads of a pilot end within ten minutes is an assumption about the network.
ASSUME DownloadAssumption == Downloads <= TeardownLimit /\ PollPause <= TeardownLimit

VARIABLES
  driver,      \* pilot: a PilotDriver job; smoke: the plain Driver
  phase,       \* work, failed, diagnose, export, teardown, closed
  elapsed,     \* time since live_start
  limit,       \* the deadline of the diagnostics, then of the teardown
  began,       \* when teardown began; -1 before
  commands,    \* teardown commands run
  waited,      \* the one long wait of the run is over
  cleanup,     \* status of the cleanup record
  charged      \* charged_seconds

vars == <<driver, phase, elapsed, limit, began, commands, waited, cleanup, charged>>

Pilot == driver = "pilot"

Least(a, b) == IF a <= b THEN a ELSE b
Greatest(a, b) == IF a <= b THEN b ELSE a

\* The longest time a run spends outside its commands at one go: prepare_addon
\* downloads manifests while a pilot is live, the smoke awaits its drain probe, a
\* child process; both happen once.  The polls of either sleep between commands.
LongWait == IF Pilot THEN Downloads ELSE DrainWait
Slack == Greatest(LongWait, PollPause)

Init ==
  /\ driver \in {"smoke", "pilot"}
  /\ phase = "work" /\ elapsed = 0 /\ limit = 0 /\ began = -1 /\ commands = 0
  /\ waited = FALSE /\ cleanup = "none" /\ charged = Reservation

\* Driver.command while live_start is set: refused once no more than the
\* reserve is left, and never allowed to run into the reserve.  gap is the time
\* from its end to the next thing the run does.
LiveCommand(gap) ==
  /\ Reservation - elapsed > Reserve
  /\ \E timeout \in Timeouts :
       \E t \in 0..Least(timeout, Reservation - elapsed - Reserve) : elapsed' = elapsed + t + gap

BeginTeardown ==
  /\ phase' = "teardown" /\ began' = elapsed'

\* A command and what follows it outside a command.  No two such gaps meet: the
\* download follows build's commands, the drain probe a kubectl delete, a sleep
\* the query of its loop.
Work ==
  /\ phase = "work"
  /\ \/ UNCHANGED waited /\ \E gap \in 0..PollPause : LiveCommand(gap)
     \/ ~waited /\ waited' = TRUE /\ \E gap \in 0..LongWait : LiveCommand(gap)
  /\ \/ phase' \in {"work", "failed"} /\ UNCHANGED began
     \/ BeginTeardown
  /\ UNCHANGED <<limit, commands, cleanup, charged>>

Refuse ==
  /\ phase = "work" /\ Reservation - elapsed <= Reserve /\ phase' = "failed"
  /\ UNCHANGED <<elapsed, limit, began, commands, waited, cleanup, charged>>

\* diagnostics: captures share one deadline of their own.
StartDiagnostics ==
  /\ phase = "failed" /\ phase' = "diagnose" /\ limit' = elapsed + DiagnosticReserve
  /\ UNCHANGED <<elapsed, began, commands, waited, cleanup, charged>>

Capture_OwnTimeout ==
  /\ phase = "diagnose" /\ limit > elapsed
  /\ \E t \in 0..CaptureLimit : elapsed' = elapsed + t
  /\ UNCHANGED <<phase, limit, began, commands, waited, cleanup, charged>>

Capture ==
  /\ phase = "diagnose" /\ limit > elapsed
  /\ \E t \in 0..Least(CaptureLimit, limit - elapsed) : elapsed' = elapsed + t
  /\ UNCHANGED <<phase, limit, began, commands, waited, cleanup, charged>>

EndDiagnostics ==
  /\ phase = "diagnose" /\ phase' = "export"
  /\ UNCHANGED <<elapsed, limit, began, commands, waited, cleanup, charged>>

\* failure_export: ordinary live commands whose refusal is swallowed.
Export ==
  /\ phase = "export" /\ LiveCommand(0)
  /\ UNCHANGED <<phase, limit, began, commands, waited, cleanup, charged>>

EndExport ==
  /\ phase = "export" /\ UNCHANGED elapsed /\ BeginTeardown
  /\ UNCHANGED <<limit, commands, waited, cleanup, charged>>

\* live_charge: verified teardown is charged its time rounded up, anything
\* else the whole reservation; a smoke is an engineering run and free.
Charge(status, seconds) ==
  IF ~Pilot THEN 0
  ELSE IF status = "PASS" /\ 0 < seconds /\ seconds <= Reservation THEN seconds ELSE Reservation

Close(status) ==
  /\ phase' = "closed" /\ cleanup' = status /\ charged' = Charge(status, elapsed' + 1)

\* PilotDriver.command after live_start is cleared: the first command fixes
\* one deadline for the whole teardown, within the reservation.
TeardownDeadline ==
  IF commands = 0 THEN Least(Reservation, elapsed + TeardownLimit) ELSE limit

TeardownCommand_OwnTimeout ==
  /\ phase = "teardown" /\ commands < MaxTeardown /\ commands' = commands + 1
  /\ limit' = TeardownDeadline
  /\ \E timeout \in Timeouts :
       \/ \E t \in 0..timeout : elapsed' = elapsed + t /\ UNCHANGED <<phase, cleanup, charged>>
       \/ elapsed' = elapsed + timeout /\ Close("FAIL")
  /\ UNCHANGED <<began, waited>>

\* cleanup with live_start cleared: the commands of the smoke keep only their
\* own timeouts.  A timeout ends the cleanup; a nonzero exit does not, and the
\* wait for PostgreSQL sleeps after one.
TeardownCommand ==
  /\ phase = "teardown" /\ commands < MaxTeardown /\ commands' = commands + 1
  /\ limit' = TeardownDeadline
  /\ \E timeout \in Timeouts :
       LET allowed == IF Pilot THEN Least(timeout, limit' - elapsed) ELSE timeout IN
       /\ Pilot => limit' > elapsed
       /\ \/ \E t \in 0..allowed, gap \in 0..PollPause :
               elapsed' = elapsed + t + gap /\ UNCHANGED <<phase, cleanup, charged>>
          \/ elapsed' = elapsed + allowed /\ Close("FAIL")
  /\ UNCHANGED <<began, waited>>

TeardownRefused ==
  /\ phase = "teardown" /\ Pilot /\ limit' = TeardownDeadline /\ limit' <= elapsed
  /\ UNCHANGED elapsed /\ Close("FAIL")
  /\ UNCHANGED <<began, commands, waited>>

TeardownVerified ==
  /\ phase = "teardown" /\ commands > 0 /\ UNCHANGED elapsed /\ Close("PASS")
  /\ UNCHANGED <<limit, began, commands, waited>>

Step ==
  \/ Work \/ Refuse \/ StartDiagnostics \/ Capture \/ EndDiagnostics
  \/ Export \/ EndExport \/ TeardownCommand \/ TeardownRefused \/ TeardownVerified

Next == Step /\ UNCHANGED driver

Spec == Init /\ [][Next]_vars

\* Teardown starts with its limit untouched, but for one stretch of time outside
\* a command: a command started just before the reserve is cut off there, and
\* nothing the work, the diagnostics or the exports do adds a second stretch
\* (Driver.command, diagnostics).
TeardownStartsInTime == began <= Reservation - TeardownLimit + Slack

\* A pilot job, teardown included, outlives its reservation by one sleep of a
\* poll at most (PilotDriver.command's teardown deadline).
WithinCeiling == Pilot => elapsed <= Reservation + PollPause

\* What a closed pilot job is charged never exceeds what was reserved for it and
\* covers the live time it used, up to that sleep (live_charge).
ChargeCoversLive ==
  Pilot /\ phase = "closed" => elapsed <= charged + PollPause /\ charged <= Reservation
=============================================================================
