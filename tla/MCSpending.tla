----------------------------- MODULE MCSpending -----------------------------
(***************************************************************************)
(* Money and effects, checked in one run: the host bill of the capacity     *)
(* campaign (HostCost), the two provider spend ledgers (SpendLedger), and   *)
(* the approval-gated remediation of an incident (Incident).  They share no *)
(* state; a behaviour is one of the component part, and the variables of    *)
(* the others keep their initial value.                                     *)
(***************************************************************************)
EXTENDS HostCost, TLC

CONSTANTS t1, t2, p1, p2

VARIABLES
  part,
  file, lock, view, agent, charged, issued, ledgerCrashes,
  row, approval, grant, effects, recorded, calls, pc, ctx, round, approved, applied, crashes

hostVars == vars
ledgerVars == <<file, lock, view, agent, charged, issued, ledgerCrashes>>
incidentVars == <<row, approval, grant, effects, recorded, calls, pc, ctx, round, approved,
                  applied, crashes>>
allVars == <<part, hostVars, ledgerVars, incidentVars>>

OneProcess == [t \in {t1, t2} |-> "p1"]

\* dur055: a response may cost more than was reserved for it.  Crashes are the
\* same in both ledgers and left to dur056.
Dur055 == INSTANCE SpendLedger WITH
  Threads <- {t1, t2}, Proc <- OneProcess, Cap <- 3, Amounts <- {1, 2}, Overrun <- 1,
  Retries <- 1, MaxCalls <- 3, MaxCrashes <- 0, RecordsBreach <- FALSE,
  billed <- charged, crashes <- ledgerCrashes

\* dur056, whose reservations bound what a request can cost.
Dur056 == INSTANCE SpendLedger WITH
  Threads <- {t1, t2}, Proc <- OneProcess, Cap <- 3, Amounts <- {1, 2}, Overrun <- 0,
  Retries <- 1, MaxCalls <- 3, MaxCrashes <- 1, RecordsBreach <- TRUE,
  billed <- charged, crashes <- ledgerCrashes

Remediation == INSTANCE Incident WITH
  Proposals <- {p1, p2}, MaxToolCalls <- 4, MaxRounds <- 3, MaxCrashes <- 2

Symmetry == Permutations({t1, t2})

AllInit ==
  /\ part \in {"hosts", "dur055", "dur056", "incident"}
  /\ Init /\ Dur055!Init /\ Remediation!Init

AllNext ==
  /\ UNCHANGED part
  /\ \/ part = "hosts" /\ Next /\ UNCHANGED <<ledgerVars, incidentVars>>
     \/ part = "dur055" /\ Dur055!Next /\ UNCHANGED <<hostVars, incidentVars>>
     \/ part = "dur056" /\ Dur056!Next /\ UNCHANGED <<hostVars, incidentVars>>
     \/ part = "incident" /\ Remediation!Next /\ UNCHANGED <<hostVars, ledgerVars>>

AllSpec == AllInit /\ [][AllNext]_allVars
-----------------------------------------------------------------------------
\* The totals of a ledger file are the sums of its entries (reserve, settle,
\* fail, reconcile_not_sent), also when a process dies inside one of them.
TotalsMatchEntries == Dur055!TotalsMatchEntries

\* dur055's settle refuses a usage that would carry the ledger over its cap.
CommittedWithinCap == part = "dur055" => Dur055!CommittedWithinCap

\* What the provider may charge under dur056 was committed in the ledger first,
\* and the commitments stay under the cap (the abstract Budget).
Capped == INSTANCE Budget WITH
  Cap <- 3,
  committed <- IF part = "dur056" THEN Dur056!Committed(file) ELSE 0,
  billed <- IF part = "dur056" THEN Dur056!BilledTotal ELSE 0
ImplementsBudget == Capped!Spec

\* An effect is entered only for a proposal that a person approved in the
\* current investigation (create_grant, dispatch, apply).
EffectsFreshlyApproved == Remediation!EffectsFreshlyApproved

\* A remediation is carried out at most once, also over crashes and repeated
\* investigations (apply).
AppliedOnce == Remediation!AppliedOnce
=============================================================================
