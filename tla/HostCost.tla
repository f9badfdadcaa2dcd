------------------------------ MODULE HostCost ------------------------------
(***************************************************************************)
(* The spending cap of the DUR-050 capacity campaign                        *)
(* (scripts/dur050-cost-ledger.py and the operator tools that call it).     *)
(*                                                                         *)
(* Four hosts are applied and destroyed together, cycle after cycle, and    *)
(* billed by the second with a one minute minimum.  Nothing stops a host    *)
(* that runs up the bill: before each cycle, and before each paid block of  *)
(* a cycle, the ledger check projects what the hosts will have cost when    *)
(* the minutes reserved for the block are over, and refuses the block       *)
(* unless that is below the cap.                                            *)
(*                                                                         *)
(* The four roles of a cycle share their start and end (ledger-record       *)
(* writes the same timestamps to each), so the unit of money is what the    *)
(* four hosts together cost in one unit of time, and the ledger's closed    *)
(* intervals are summed into one amount.  Time is in whole units: a         *)
(* duration is rounded up the same way on both sides of the comparison.     *)
(***************************************************************************)
EXTENDS Integers

CONSTANTS MINUTE,     \* units of time in a minute, the minimum billed
          CAP,        \* budget_cap_usd
          HISTORY,    \* billed by the cycles already closed in the ledger
          GATE_AGE,   \* how old a pre-apply gate record may be when applied
          Reserves,   \* the reserve_minutes an operator asks for
          MaxTime     \* bound: the time the model runs to

ASSUME HostCostAssumption ==
    /\ MINUTE \in Nat \ {0} /\ CAP \in Nat /\ HISTORY \in Nat
    /\ GATE_AGE \in Nat /\ MaxTime \in Nat
    /\ HISTORY < CAP
    /\ Reserves \subseteq Nat \ {0}

VARIABLES
    now,        \* the time
    phase,      \* where the cycle is: "none", "checked", "applied", "open",
                \*   "destroyed" (not yet closed), "unrecorded" (never opened)
    checked,    \* checked_at_utc of the last check that passed
    reserve,    \* the time that check reserved
    start,      \* apply_started_at_utc of the cycle
    launch,     \* EC2 LaunchTime of its hosts
    launched,   \* whether they were launched
    end,        \* when they were gone
    closed,     \* the ledger: billed by its closed intervals
    billed,     \* what AWS bills for the hosts that are gone
    lapse       \* a block outran its reserve, or a cycle was never recorded

vars == <<now, phase, checked, reserve, start, launch, launched, end, closed, billed, lapse>>

cycle == <<start, launch, launched, end>>

\* What a cycle leaves behind is in the ledger and on the bill.
CycleOver ==
    /\ phase' = "none"
    /\ checked' = 0 /\ reserve' = 0
    /\ start' = 0 /\ launch' = 0 /\ launched' = FALSE /\ end' = 0

Phases == {"none", "checked", "applied", "open", "destroyed", "unrecorded"}

Init ==
    /\ now = 0 /\ phase = "none"
    /\ checked = 0 /\ reserve = 0
    /\ start = 0 /\ launch = 0 /\ launched = FALSE /\ end = 0
    /\ closed = HISTORY /\ billed = HISTORY
    /\ lapse = FALSE

\* Durations below the minimum are billed as a minute.
billable_seconds(from, to) == IF to - from < MINUTE THEN MINUTE ELSE to - from

\* The reserved minutes, from the check on.
Until == checked + reserve

HostsUp == phase \in {"applied", "open"}

\* What evaluate projects: the closed intervals, the open one until the reserve
\* is over, and before an apply the planned hosts for the reserve.
projected_open_Accrued(m) == closed + billable_seconds(start, now)
projected_open(m) == closed + billable_seconds(start, now + m * MINUTE)
projected_planned(m) == closed + m * MINUTE

Tick ==
    /\ now < MaxTime
    /\ now' = now + 1
    /\ lapse' = (lapse \/ (HostsUp /\ now' > Until))
    /\ UNCHANGED <<phase, checked, reserve, cycle, closed, billed>>

\* The pre-apply gate: no interval is open and the planned hosts fit.
PreApply(m) ==
    /\ phase \in {"none", "checked"}
    /\ projected_planned(m) < CAP
    /\ phase' = "checked" /\ checked' = now /\ reserve' = m * MINUTE
    /\ UNCHANGED <<now, cycle, closed, billed, lapse>>

\* The apply tool: the gate record is at most GATE_AGE old, whatever it reserved.
Apply ==
    /\ phase = "checked"
    /\ now - checked <= GATE_AGE
    /\ phase' = "applied" /\ start' = now /\ launched' = FALSE
    /\ UNCHANGED <<now, checked, reserve, launch, end, closed, billed, lapse>>

\* EC2 launches the four hosts.
Launch ==
    /\ phase = "applied" /\ ~launched
    /\ launched' = TRUE /\ launch' = now
    /\ UNCHANGED <<now, phase, checked, reserve, start, end, closed, billed, lapse>>

\* ledger-record -Open, from the record of an apply that passed: the start is
\* not later than the LaunchTime.
Open ==
    /\ phase = "applied" /\ launched /\ start <= launch
    /\ phase' = "open"
    /\ UNCHANGED <<now, checked, reserve, cycle, closed, billed, lapse>>

\* The check before each paid block of a cycle whose intervals are open.
Preflight(m) ==
    /\ phase = "open"
    /\ projected_open(m) < CAP
    /\ checked' = now /\ reserve' = m * MINUTE
    /\ UNCHANGED <<now, phase, cycle, closed, billed, lapse>>

\* The destroy tool; the hosts of an apply that failed are destroyed as well.
Destroy ==
    /\ HostsUp
    /\ phase' = IF phase = "open" THEN "destroyed" ELSE "unrecorded"
    /\ end' = now
    /\ billed' = billed + (IF launched THEN billable_seconds(launch, now) ELSE 0)
    /\ UNCHANGED <<now, checked, reserve, start, launch, launched, closed, lapse>>

\* ledger-record -Close: the time is the observed completion, by default the
\* time of the call.
Close ==
    /\ phase = "destroyed"
    /\ \E t \in {end, now} : closed' = closed + billable_seconds(start, t)
    /\ CycleOver
    /\ UNCHANGED <<now, billed, lapse>>

\* ledger-record -Backfill, for a cycle that was applied and never opened, from
\* records in the form it asks for (the apply and destroy tools name a schema
\* and a field differently, so these are records the operator prepared).
Backfill ==
    /\ phase = "unrecorded" /\ launched /\ start < end
    /\ closed' = closed + billable_seconds(start, end)
    /\ CycleOver
    /\ UNCHANGED <<now, billed, lapse>>

\* A cycle nobody can backfill: Backfill wants the record of an apply that
\* passed.  The next gate passes all the same.  (Bound: after one lapse no
\* cycle that ran hosts is abandoned, or the bill would grow for ever.)
Abandon ==
    /\ phase = "unrecorded" /\ ~(lapse /\ launched)
    /\ CycleOver /\ lapse' = (lapse \/ launched)
    /\ UNCHANGED <<now, closed, billed>>

Next ==
    \/ Tick \/ Apply \/ Launch \/ Open \/ Destroy \/ Close \/ Backfill \/ Abandon
    \/ \E m \in Reserves : PreApply(m) \/ Preflight(m)

Spec == Init /\ [][Next]_vars

-----------------------------------------------------------------------------
\* What AWS would bill if the hosts were gone now.
Bill == billed + (IF HostsUp /\ launched THEN billable_seconds(launch, now) ELSE 0)

\* The cap holds at every moment, by the check alone: as long as each block
\* ends, in a new check or in the destroy, before the minutes reserved for it
\* are over, and no cycle that ran hosts is left out of the ledger, what the
\* hosts cost is below the cap (evaluate's projected_total < cap).
BillBelowCap == ~lapse => Bill < CAP
=============================================================================
