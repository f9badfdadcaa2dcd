------------------------------- MODULE Budget -------------------------------
(* What a spend ledger promises about a hard cap, whatever the order of      *)
(* requests, failures and crashes: money the provider may charge was         *)
(* committed in the ledger before, and commitments never pass the cap.       *)
EXTENDS Naturals

CONSTANT Cap

VARIABLES committed, billed
vars == <<committed, billed>>

Init == committed = 0 /\ billed = 0

(* A reservation commits more, up to the cap. *)
Commit == committed' \in (committed + 1)..Cap /\ UNCHANGED billed

(* The provider charges within what is committed. *)
Bill == billed' \in (billed + 1)..committed /\ UNCHANGED committed

(* Only what cannot be charged any more is given back. *)
Release == committed' \in billed..committed /\ UNCHANGED billed

Next == Commit \/ Bill \/ Release
Spec == Init /\ [][Next]_vars
=============================================================================
