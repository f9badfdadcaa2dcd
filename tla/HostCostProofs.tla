--------------------------- MODULE HostCostProofs ---------------------------
(***************************************************************************)
(* The DUR-050 ledger check keeps the bill below the cap, for every cap,    *)
(* minute, gate age and set of reserves.                                    *)
(*                                                                         *)
(* BillBelowCap is not inductive: it says nothing of the time a check has   *)
(* granted.  Inv adds what each phase of a cycle carries: the ledger holds  *)
(* at least what is billed, and the bill the cycle runs up by the end of    *)
(* its reserve was projected below the cap.                                 *)
(***************************************************************************)
EXTENDS HostCost, TLAPS

TypeOK ==
    /\ now \in Nat /\ checked \in Nat /\ reserve \in Nat
    /\ start \in Nat /\ launch \in Nat /\ end \in Nat
    /\ closed \in Nat /\ billed \in Nat
    /\ phase \in Phases
    /\ launched \in BOOLEAN /\ lapse \in BOOLEAN

\* The check that opened or last extended the cycle granted the time to Until.
Granted ==
    /\ phase = "checked" => /\ closed + reserve < CAP
                            /\ MINUTE <= reserve
                            /\ checked <= now
    /\ HostsUp => /\ closed + billable_seconds(start, Until) < CAP
                  /\ start <= now

\* What is billed is in the ledger, up to the cycle that is still to be recorded.
Recorded ==
    /\ phase \in {"none", "checked", "applied", "open"} => billed <= closed
    /\ HostsUp /\ launched => start <= launch /\ launch <= now
    /\ phase = "open" => launched
    /\ phase \in {"destroyed", "unrecorded"} =>
          billed <= closed + (IF launched THEN billable_seconds(start, end) ELSE 0)
    /\ phase \in {"destroyed", "unrecorded"} => start <= end /\ end <= now

InTime ==
    /\ HostsUp => now <= Until \/ now = start
    /\ billed < CAP

Inv == TypeOK /\ (~lapse => Granted /\ Recorded /\ InTime)

\* The inductive invariant implies the property: a host that is up is billed no
\* more than the check projected for the end of its reserve.
LEMMA InvBill == Inv => BillBelowCap
  BY HostCostAssumption
  DEF Inv, TypeOK, Granted, Recorded, InTime, BillBelowCap, Bill, HostsUp,
      billable_seconds, Until, Phases

LEMMA InitInv == Init => Inv
  <1> SUFFICES ASSUME Init PROVE Inv
    OBVIOUS
  <1>1. TypeOK
    BY HostCostAssumption DEF Init, TypeOK, Phases
  <1>2. Granted /\ InTime
    BY HostCostAssumption DEF Init, Granted, InTime, HostsUp
  <1>3. Recorded
    BY HostCostAssumption DEF Init, Recorded, HostsUp
  <1> QED
    BY <1>1, <1>2, <1>3 DEF Inv

\* An interval is billed its length, and a minute at the least.
LEMMA BillableIsNat ==
    ASSUME NEW a \in Nat, NEW b \in Nat
    PROVE  billable_seconds(a, b) \in Nat
  BY HostCostAssumption DEF billable_seconds

\* A reserve of whole minutes is at least the minute that is billed at least.
LEMMA ReserveIsAMinute ==
    ASSUME NEW m \in Reserves
    PROVE  m * MINUTE \in Nat /\ MINUTE <= m * MINUTE
  <1>1. m \in Nat /\ m >= 1 /\ MINUTE \in Nat
    BY HostCostAssumption
  <1>2. m * MINUTE = (m - 1) * MINUTE + MINUTE /\ (m - 1) * MINUTE \in Nat
    BY <1>1
  <1> QED
    BY <1>1, <1>2

\* Every operation of the campaign, and the passing of time, preserves Inv.
LEMMA NextInv == Inv /\ [Next]_vars => Inv'
  <1> SUFFICES ASSUME Inv, [Next]_vars PROVE Inv'
    OBVIOUS
  <1> USE HostCostAssumption DEF TypeOK, Phases
  <1>0. /\ TypeOK
        /\ ~lapse => Granted /\ Recorded /\ InTime
    BY DEF Inv
  <1>1. CASE Tick
    <2>1. TypeOK'
      BY <1>0, <1>1 DEF Tick, cycle
    <2>2. ASSUME ~lapse' PROVE ~lapse /\ (HostsUp => now + 1 <= Until)
      <3>1. now' = now + 1 /\ Until \in Nat
        BY <1>0, <1>1 DEF Tick, Until
      <3>2. ~lapse /\ (HostsUp => ~(now' > Until))
        BY <1>1, <2>2 DEF Tick
      <3> QED
        BY <1>0, <3>1, <3>2
    <2>3. ASSUME ~lapse' PROVE (Granted /\ Recorded /\ InTime)'
      BY <1>0, <1>1, <2>2, <2>3
      DEF Tick, cycle, Granted, Recorded, InTime, HostsUp, billable_seconds, Until
    <2> QED
      BY <2>1, <2>3 DEF Inv
  <1>2. CASE Apply
    <2>1. TypeOK'
      BY <1>0, <1>2 DEF Apply, billable_seconds, HostsUp
    <2>2. ASSUME ~lapse' PROVE Granted /\ Recorded /\ InTime
      BY <1>0, <1>2, <2>2 DEF Apply
    <2>3. ASSUME ~lapse' PROVE Granted'
      BY <1>0, <1>2, <2>2, <2>3
      DEF Apply, Granted, Recorded, InTime, HostsUp, billable_seconds, Until
    <2>4. ASSUME ~lapse' PROVE Recorded'
      BY <1>0, <1>2, <2>2, <2>4
      DEF Apply, Granted, Recorded, InTime, HostsUp, billable_seconds, Until
    <2>5. ASSUME ~lapse' PROVE InTime'
      BY <1>0, <1>2, <2>2, <2>5
      DEF Apply, Granted, Recorded, InTime, HostsUp, billable_seconds, Until
    <2> QED
      BY <2>1, <2>3, <2>4, <2>5 DEF Inv
  <1>3. CASE Launch
    <2>1. TypeOK'
      BY <1>0, <1>3 DEF Launch, billable_seconds, HostsUp
    <2>2. ASSUME ~lapse' PROVE Granted /\ Recorded /\ InTime
      BY <1>0, <1>3, <2>2 DEF Launch
    <2>3. ASSUME ~lapse' PROVE Granted'
      BY <1>0, <1>3, <2>2, <2>3
      DEF Launch, Granted, Recorded, InTime, HostsUp, billable_seconds, Until
    <2>4. ASSUME ~lapse' PROVE Recorded'
      BY <1>0, <1>3, <2>2, <2>4
      DEF Launch, Granted, Recorded, InTime, HostsUp, billable_seconds, Until
    <2>5. ASSUME ~lapse' PROVE InTime'
      BY <1>0, <1>3, <2>2, <2>5
      DEF Launch, Granted, Recorded, InTime, HostsUp, billable_seconds, Until
    <2> QED
      BY <2>1, <2>3, <2>4, <2>5 DEF Inv
  <1>4. CASE Open
    <2>1. TypeOK'
      BY <1>0, <1>4 DEF Open, cycle, billable_seconds, HostsUp
    <2>2. ASSUME ~lapse' PROVE Granted /\ Recorded /\ InTime
      BY <1>0, <1>4, <2>2 DEF Open, cycle
    <2>3. ASSUME ~lapse' PROVE Granted'
      BY <1>0, <1>4, <2>2, <2>3
      DEF Open, cycle, Granted, Recorded, InTime, HostsUp, billable_seconds, Until
    <2>4. ASSUME ~lapse' PROVE Recorded'
      BY <1>0, <1>4, <2>2, <2>4
      DEF Open, cycle, Granted, Recorded, InTime, HostsUp, billable_seconds, Until
    <2>5. ASSUME ~lapse' PROVE InTime'
      BY <1>0, <1>4, <2>2, <2>5
      DEF Open, cycle, Granted, Recorded, InTime, HostsUp, billable_seconds, Until
    <2> QED
      BY <2>1, <2>3, <2>4, <2>5 DEF Inv
  <1>5. CASE Destroy
    <2>1. TypeOK'
      BY <1>0, <1>5 DEF Destroy, billable_seconds, HostsUp
    <2>2. ASSUME ~lapse' PROVE Granted /\ Recorded /\ InTime
      BY <1>0, <1>5, <2>2 DEF Destroy
    <2>3. ASSUME ~lapse' PROVE Granted'
      BY <1>0, <1>5, <2>2, <2>3
      DEF Destroy, Granted, Recorded, InTime, HostsUp, billable_seconds, Until
    <2>4. ASSUME ~lapse' PROVE Recorded'
      BY <1>0, <1>5, <2>2, <2>4
      DEF Destroy, Granted, Recorded, InTime, HostsUp, billable_seconds, Until
    <2>5. ASSUME ~lapse' PROVE InTime'
      BY <1>0, <1>5, <2>2, <2>5
      DEF Destroy, Granted, Recorded, InTime, HostsUp, billable_seconds, Until
    <2> QED
      BY <2>1, <2>3, <2>4, <2>5 DEF Inv
  <1>6. CASE Close
    <2>1. TypeOK'
      <3>1. closed' \in Nat
        <4>1. PICK t \in {end, now} : closed' = closed + billable_seconds(start, t)
          BY <1>6 DEF Close
        <4>2. t \in Nat /\ start \in Nat /\ closed \in Nat
          BY <1>0
        <4>3. billable_seconds(start, t) \in Nat
          BY ONLY <4>2, BillableIsNat
        <4> QED
          BY ONLY <4>1, <4>2, <4>3
      <3> QED
        BY <1>0, <1>6, <3>1 DEF Close, CycleOver
    <2>2. ASSUME ~lapse' PROVE Granted /\ Recorded /\ InTime
      BY <1>0, <1>6, <2>2 DEF Close, CycleOver
    <2>3. ASSUME ~lapse' PROVE Granted'
      BY <1>0, <1>6, <2>2, <2>3
      DEF Close, CycleOver, Granted, Recorded, InTime, HostsUp, billable_seconds, Until
    <2>4. ASSUME ~lapse' PROVE Recorded'
      BY <1>0, <1>6, <2>2, <2>4
      DEF Close, CycleOver, Granted, Recorded, InTime, HostsUp, billable_seconds, Until
    <2>5. ASSUME ~lapse' PROVE InTime'
      BY <1>0, <1>6, <2>2, <2>5
      DEF Close, CycleOver, Granted, Recorded, InTime, HostsUp, billable_seconds, Until
    <2> QED
      BY <2>1, <2>3, <2>4, <2>5 DEF Inv
  <1>7. CASE Backfill
    <2>1. TypeOK'
      <3>1. closed' \in Nat
        <4>1. closed' = closed + billable_seconds(start, end)
          BY <1>7 DEF Backfill
        <4>2. end \in Nat /\ start \in Nat /\ closed \in Nat
          BY <1>0
        <4>3. billable_seconds(start, end) \in Nat
          BY ONLY <4>2, BillableIsNat
        <4> QED
          BY ONLY <4>1, <4>2, <4>3
      <3> QED
        BY <1>0, <1>7, <3>1 DEF Backfill, CycleOver
    <2>2. ASSUME ~lapse' PROVE Granted /\ Recorded /\ InTime
      BY <1>0, <1>7, <2>2 DEF Backfill, CycleOver
    <2>3. ASSUME ~lapse' PROVE Granted'
      BY <1>0, <1>7, <2>2, <2>3
      DEF Backfill, CycleOver, Granted, Recorded, InTime, HostsUp, billable_seconds, Until
    <2>4. ASSUME ~lapse' PROVE Recorded'
      BY <1>0, <1>7, <2>2, <2>4
      DEF Backfill, CycleOver, Granted, Recorded, InTime, HostsUp, billable_seconds, Until
    <2>5. ASSUME ~lapse' PROVE InTime'
      BY <1>0, <1>7, <2>2, <2>5
      DEF Backfill, CycleOver, Granted, Recorded, InTime, HostsUp, billable_seconds, Until
    <2> QED
      BY <2>1, <2>3, <2>4, <2>5 DEF Inv
  <1>8. CASE Abandon
    <2>1. TypeOK'
      BY <1>0, <1>8 DEF Abandon, CycleOver, billable_seconds, HostsUp
    <2>2. ASSUME ~lapse' PROVE Granted /\ Recorded /\ InTime
      BY <1>0, <1>8, <2>2 DEF Abandon, CycleOver
    <2>3. ASSUME ~lapse' PROVE Granted'
      BY <1>0, <1>8, <2>2, <2>3
      DEF Abandon, CycleOver, Granted, Recorded, InTime, HostsUp, billable_seconds, Until
    <2>4. ASSUME ~lapse' PROVE Recorded'
      BY <1>0, <1>8, <2>2, <2>4
      DEF Abandon, CycleOver, Granted, Recorded, InTime, HostsUp, billable_seconds, Until
    <2>5. ASSUME ~lapse' PROVE InTime'
      BY <1>0, <1>8, <2>2, <2>5
      DEF Abandon, CycleOver, Granted, Recorded, InTime, HostsUp, billable_seconds, Until
    <2> QED
      BY <2>1, <2>3, <2>4, <2>5 DEF Inv
  <1>9. ASSUME NEW m \in Reserves, PreApply(m) PROVE Inv'
    <2>1. TypeOK'
      BY <1>0, <1>9, ReserveIsAMinute DEF PreApply, projected_planned, cycle, billable_seconds, HostsUp
    <2>2. ASSUME ~lapse' PROVE Granted /\ Recorded /\ InTime
      BY <1>0, <1>9, <2>2 DEF PreApply, projected_planned, cycle
    <2>3. ASSUME ~lapse' PROVE Granted'
      BY <1>0, <1>9, <2>2, <2>3, ReserveIsAMinute
      DEF PreApply, projected_planned, cycle, Granted, Recorded, InTime, HostsUp, billable_seconds, Until
    <2>4. ASSUME ~lapse' PROVE Recorded'
      BY <1>0, <1>9, <2>2, <2>4, ReserveIsAMinute
      DEF PreApply, projected_planned, cycle, Granted, Recorded, InTime, HostsUp, billable_seconds, Until
    <2>5. ASSUME ~lapse' PROVE InTime'
      BY <1>0, <1>9, <2>2, <2>5, ReserveIsAMinute
      DEF PreApply, projected_planned, cycle, Granted, Recorded, InTime, HostsUp, billable_seconds, Until
    <2> QED
      BY <2>1, <2>3, <2>4, <2>5 DEF Inv
  <1>10. ASSUME NEW m \in Reserves, Preflight(m) PROVE Inv'
    <2>1. TypeOK'
      BY <1>0, <1>10, ReserveIsAMinute DEF Preflight, projected_open, cycle, billable_seconds, HostsUp
    <2>2. ASSUME ~lapse' PROVE Granted /\ Recorded /\ InTime
      BY <1>0, <1>10, <2>2 DEF Preflight, projected_open, cycle
    <2>3. ASSUME ~lapse' PROVE Granted'
      BY <1>0, <1>10, <2>2, <2>3, ReserveIsAMinute
      DEF Preflight, projected_open, cycle, Granted, Recorded, InTime, HostsUp, billable_seconds, Until
    <2>4. ASSUME ~lapse' PROVE Recorded'
      BY <1>0, <1>10, <2>2, <2>4, ReserveIsAMinute
      DEF Preflight, projected_open, cycle, Granted, Recorded, InTime, HostsUp, billable_seconds, Until
    <2>5. ASSUME ~lapse' PROVE InTime'
      BY <1>0, <1>10, <2>2, <2>5, ReserveIsAMinute
      DEF Preflight, projected_open, cycle, Granted, Recorded, InTime, HostsUp, billable_seconds, Until
    <2> QED
      BY <2>1, <2>3, <2>4, <2>5 DEF Inv
  <1>11. CASE UNCHANGED vars
    BY <1>0, <1>11
    DEF vars, Inv, Granted, Recorded, InTime, HostsUp, billable_seconds, Until
  <1> QED
    BY <1>1, <1>2, <1>3, <1>4, <1>5, <1>6, <1>7, <1>8, <1>9, <1>10, <1>11 DEF Next

\* The campaign's bill stays below the cap (evaluate), for every value of the
\* constants, as long as no block outruns its reserve and no cycle that ran
\* hosts is left out of the ledger.
THEOREM BillStaysBelowCap == Spec => []BillBelowCap
  BY InitInv, NextInv, InvBill, PTL DEF Spec
=============================================================================
