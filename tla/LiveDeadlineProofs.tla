------------------------- MODULE LiveDeadlineProofs -------------------------
(***************************************************************************)
(* The deadlines of a Kubernetes run (dur053_k3.py, dur053_pilot_driver.py) *)
(* hold for every reservation, every set of command timeouts and every      *)
(* number of teardown commands.                                             *)
(*                                                                         *)
(* Bounds says how far each phase may push the clock: the work up to the    *)
(* reserve and one stretch of time outside a command beyond it, the         *)
(* diagnostics up to their own deadline, the teardown up to the reservation *)
(* and one sleep.  None of the three properties is inductive without it.    *)
(***************************************************************************)
EXTENDS LiveDeadline, TLAPS

TypeOK ==
  /\ phase \in {"work", "failed", "diagnose", "export", "teardown", "closed"}
  /\ elapsed \in Nat /\ limit \in Nat /\ began \in Int /\ commands \in Nat
  /\ charged \in Nat

Bounds ==
  /\ phase \in {"work", "failed"} => elapsed <= Reservation - Reserve + Slack
  /\ phase = "diagnose" => /\ elapsed <= limit
                           /\ limit <= Reservation - TeardownLimit + Slack
  /\ phase = "export" => elapsed <= Reservation - TeardownLimit + Slack
  /\ began <= Reservation - TeardownLimit + Slack
  /\ Pilot /\ phase \in {"teardown", "closed"} => elapsed <= Reservation + PollPause
  /\ Pilot /\ phase = "teardown" /\ commands > 0 => limit <= Reservation
  /\ phase \in {"work", "failed", "diagnose", "export"} => commands = 0
  /\ Pilot /\ phase = "closed" => elapsed <= charged + PollPause /\ charged <= Reservation

Inv == TypeOK /\ Bounds

\* The constants as the arithmetic below uses them.
LEMMA ConstantFacts ==
  /\ LongWait \in Nat /\ PollPause \in Nat /\ Slack \in Nat
  /\ LongWait <= Slack /\ PollPause <= Slack /\ (Pilot => Slack <= TeardownLimit)
  /\ Reservation \in Nat /\ TeardownLimit \in Nat /\ DiagnosticReserve \in Nat
  /\ Reserve = DiagnosticReserve + TeardownLimit /\ Reserve < Reservation
  /\ CaptureLimit \in Nat
  BY DeadlineAssumption, DownloadAssumption DEF LongWait, Slack, Greatest

\* A timeout clamped to the time left ends by the deadline.
LEMMA LeastFacts ==
  ASSUME NEW a \in Nat, NEW b \in Nat, NEW c \in Nat, b > c
  PROVE  Least(a, b - c) \in Nat /\ c + Least(a, b - c) <= b
  BY DEF Least

\* A live command never runs into the reserve; only the gap after it may.
LEMMA LiveCommandStopsAtReserve ==
  ASSUME NEW gap \in Nat, elapsed \in Nat, LiveCommand(gap)
  PROVE  elapsed' \in Nat /\ elapsed' <= Reservation - Reserve + gap
  <1>1. PICK timeout \in Timeouts :
          \E t \in 0..Least(timeout, Reservation - elapsed - Reserve) : elapsed' = elapsed + t + gap
    BY DEF LiveCommand
  <1>2. PICK t \in 0..Least(timeout, Reservation - elapsed - Reserve) : elapsed' = elapsed + t + gap
    BY <1>1
  <1>3. timeout \in Nat /\ Reservation - elapsed - Reserve \in Int
    BY DeadlineAssumption
  <1>4. Least(timeout, Reservation - elapsed - Reserve) <= Reservation - elapsed - Reserve
        /\ Least(timeout, Reservation - elapsed - Reserve) \in Int
    BY <1>3 DEF Least
  <1> QED
    BY <1>2, <1>3, <1>4, ConstantFacts

\* What a closed pilot job is charged, whatever its cleanup recorded.
LEMMA ChargeBounds ==
  ASSUME NEW status, NEW s \in Nat
  PROVE  /\ Charge(status, s + 1) \in Nat
         /\ Pilot /\ s <= Reservation + PollPause =>
              s <= Charge(status, s + 1) + PollPause /\ Charge(status, s + 1) <= Reservation
  BY ConstantFacts DEF Charge

LEMMA InitInv == Init => Inv
  BY ConstantFacts DEF Init, Inv, TypeOK, Bounds

\* The kind of run is fixed, and so is its slack.
LEMMA SameRun == ASSUME driver' = driver PROVE (Pilot' <=> Pilot) /\ Slack' = Slack
  BY DEF Pilot, Slack, LongWait

\* Closing a run, at any time a pilot's deadlines allow, charges what it used.
LEMMA CloseInv ==
  ASSUME driver' = driver, elapsed' \in Nat, limit' \in Nat, began' \in Int, commands' \in Nat,
         began' <= Reservation - TeardownLimit + Slack,
         Pilot => elapsed' <= Reservation + PollPause,
         NEW status, Close(status)
  PROVE  Inv'
  <1>1. phase' = "closed" /\ charged' = Charge(status, elapsed' + 1)
    BY DEF Close
  <1>2. /\ charged' \in Nat
        /\ Pilot => elapsed' <= charged' + PollPause /\ charged' <= Reservation
    BY <1>1, ChargeBounds
  <1> QED
    BY <1>1, <1>2, SameRun DEF Inv, TypeOK, Bounds

\* A teardown command of a pilot ends within the one teardown deadline, and
\* that deadline within the reservation.
LEMMA TeardownCommandInv == Inv /\ TeardownCommand /\ driver' = driver => Inv'
  <1> SUFFICES ASSUME Inv, TeardownCommand, driver' = driver PROVE Inv'
    OBVIOUS
  <1>1. /\ phase = "teardown" /\ commands' = commands + 1
        /\ limit' = TeardownDeadline /\ began' = began
    BY DEF TeardownCommand
  <1>2. PICK timeout \in Timeouts :
          LET allowed == IF Pilot THEN Least(timeout, limit' - elapsed) ELSE timeout IN
          /\ Pilot => limit' > elapsed
          /\ \/ \E t \in 0..allowed, gap \in 0..PollPause :
                  elapsed' = elapsed + t + gap /\ UNCHANGED <<phase, cleanup, charged>>
             \/ elapsed' = elapsed + allowed /\ Close("FAIL")
    BY DEF TeardownCommand
  <1> DEFINE allowed == IF Pilot THEN Least(timeout, limit' - elapsed) ELSE timeout
  <1>3. /\ elapsed \in Nat /\ limit \in Nat /\ commands \in Nat /\ began \in Int
        /\ charged \in Nat
        /\ began <= Reservation - TeardownLimit + Slack
        /\ Pilot /\ commands > 0 => limit <= Reservation
    BY <1>1 DEF Inv, TypeOK, Bounds
  <1>4. limit' \in Nat /\ (Pilot => limit' <= Reservation)
    BY <1>1, <1>3, ConstantFacts DEF TeardownDeadline, Least
  <1>5. timeout \in Nat
    BY DeadlineAssumption
  <1>6. /\ allowed \in Nat
        /\ Pilot => elapsed + allowed <= limit'
    <2>1. Pilot => limit' > elapsed
      BY <1>2
    <2>2. CASE Pilot
      <3>0. limit' \in Nat /\ elapsed \in Nat /\ limit' > elapsed
        BY ONLY <1>3, <1>4, <2>1, <2>2
      <3>1. /\ Least(timeout, limit' - elapsed) \in Nat
            /\ elapsed + Least(timeout, limit' - elapsed) <= limit'
        BY ONLY <1>5, <3>0, LeastFacts
      <3> QED
        BY <2>2, <3>1
    <2>3. CASE ~Pilot
      BY <1>5, <2>3
    <2> QED
      BY <2>2, <2>3
  <1>7. CASE \E t \in 0..allowed, gap \in 0..PollPause :
               elapsed' = elapsed + t + gap /\ UNCHANGED <<phase, cleanup, charged>>
    <2>1. PICK t \in 0..allowed, gap \in 0..PollPause :
            elapsed' = elapsed + t + gap /\ UNCHANGED <<phase, cleanup, charged>>
      BY <1>7
    <2>2. /\ elapsed' \in Nat /\ (Pilot => elapsed' <= limit' + PollPause)
          /\ phase' = "teardown" /\ charged' = charged
      BY <1>1, <1>3, <1>4, <1>6, <2>1, ConstantFacts
    <2> HIDE DEF allowed
    <2> QED
      BY <1>1, <1>3, <1>4, <2>2, SameRun, ConstantFacts DEF Inv, TypeOK, Bounds
  <1>8. CASE elapsed' = elapsed + allowed /\ Close("FAIL")
    <2>1. elapsed' \in Nat /\ (Pilot => elapsed' <= Reservation + PollPause)
      BY <1>3, <1>4, <1>6, <1>8, ConstantFacts
    <2>2. commands' \in Nat /\ began' \in Int
          /\ began' <= Reservation - TeardownLimit + Slack
      BY <1>1, <1>3
    <2> HIDE DEF allowed
    <2> QED
      BY <1>4, <1>8, <2>1, <2>2, CloseInv
  <1> QED
    BY <1>2, <1>7, <1>8

\* Every step of a run, in every phase, preserves Inv.
LEMMA NextInv == Inv /\ [Next]_vars => Inv'
  <1> SUFFICES ASSUME Inv, [Next]_vars PROVE Inv'
    OBVIOUS
  <1> USE ConstantFacts DEF TypeOK, Bounds
  <1>0. TypeOK /\ Bounds /\ driver' = driver /\ (Pilot' <=> Pilot) /\ Slack' = Slack
    BY SameRun DEF Inv, Next, vars
  <1>1. CASE Work
    <2>1. PICK gap \in Nat : gap <= Slack /\ LiveCommand(gap)
      <3>1. CASE \E gap \in 0..PollPause : LiveCommand(gap)
        BY <3>1
      <3>2. CASE \E gap \in 0..LongWait : LiveCommand(gap)
        BY <3>2
      <3> QED
        BY <1>1, <3>1, <3>2 DEF Work
    <2>2. elapsed' \in Nat /\ elapsed' <= Reservation - Reserve + Slack
      BY <1>0, <2>1, LiveCommandStopsAtReserve
    <2>3. /\ phase = "work" /\ limit' = limit /\ commands' = commands /\ charged' = charged
          /\ \/ phase' \in {"work", "failed"} /\ began' = began
             \/ phase' = "teardown" /\ began' = elapsed'
      BY <1>1 DEF Work, BeginTeardown
    <2> QED
      BY <1>0, <2>2, <2>3 DEF Inv
  <1>2. CASE Refuse
    BY <1>0, <1>2 DEF Refuse, Inv
  <1>3. CASE StartDiagnostics
    BY <1>0, <1>3 DEF StartDiagnostics, Inv
  <1>4. CASE Capture
    <2>1. elapsed' \in Nat /\ elapsed' <= limit
      <3>1. limit \in Nat /\ elapsed \in Nat /\ limit > elapsed
        BY <1>0, <1>4 DEF Capture
      <3>2. PICK t \in 0..Least(CaptureLimit, limit - elapsed) : elapsed' = elapsed + t
        BY <1>4 DEF Capture
      <3>3. /\ Least(CaptureLimit, limit - elapsed) \in Nat
            /\ elapsed + Least(CaptureLimit, limit - elapsed) <= limit
        BY <3>1, LeastFacts
      <3> QED
        BY <3>1, <3>2, <3>3
    <2> QED
      BY <1>0, <1>4, <2>1 DEF Capture, Inv
  <1>5. CASE EndDiagnostics
    BY <1>0, <1>5 DEF EndDiagnostics, Inv
  <1>6. CASE Export
    <2>1. elapsed' \in Nat /\ elapsed' <= Reservation - Reserve
      BY <1>0, <1>6, LiveCommandStopsAtReserve DEF Export
    <2> QED
      BY <1>0, <1>6, <2>1 DEF Export, Inv
  <1>7. CASE EndExport
    BY <1>0, <1>7 DEF EndExport, BeginTeardown, Inv
  <1>8. CASE TeardownCommand
    BY <1>0, <1>8, TeardownCommandInv
  <1>9. CASE TeardownRefused
    <2>1. limit' \in Nat
      BY <1>0, <1>9 DEF TeardownRefused, TeardownDeadline, Least
    <2> QED
      BY <1>0, <1>9, <2>1, CloseInv DEF TeardownRefused
  <1>10. CASE TeardownVerified
    BY <1>0, <1>10, CloseInv DEF TeardownVerified
  <1>11. CASE UNCHANGED vars
    BY <1>0, <1>11 DEF vars, Inv
  <1> QED
    BY <1>1, <1>2, <1>3, <1>4, <1>5, <1>6, <1>7, <1>8, <1>9, <1>10, <1>11 DEF Next, Step

\* Whatever the work, the diagnostics and the export did, teardown starts with
\* its own limit left, but for one stretch of time outside a command
\* (Driver.command, diagnostics).
THEOREM TeardownAlwaysInTime == Spec => []TeardownStartsInTime
  <1>1. Inv => TeardownStartsInTime
    BY DEF Inv, Bounds, TeardownStartsInTime
  <1> QED
    BY <1>1, InitInv, NextInv, PTL DEF Spec

\* A pilot job, teardown included, outlives its reservation by one sleep at most
\* (PilotDriver.command).
THEOREM PilotWithinCeiling == Spec => []WithinCeiling
  <1>1. Inv => WithinCeiling
    BY ConstantFacts DEF Inv, TypeOK, Bounds, WithinCeiling
  <1> QED
    BY <1>1, InitInv, NextInv, PTL DEF Spec

\* What a closed pilot job is charged covers what it used up to one sleep, within
\* what was reserved for it (live_charge).
THEOREM ChargeAlwaysCovers == Spec => []ChargeCoversLive
  <1>1. Inv => ChargeCoversLive
    BY DEF Inv, Bounds, ChargeCoversLive
  <1> QED
    BY <1>1, InitInv, NextInv, PTL DEF Spec
=============================================================================
