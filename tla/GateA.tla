------------------------------- MODULE GateA --------------------------------
(* Gate A of the DUR-056 study: prepare-dev tunes on the development split   *)
(* and writes the v3 freeze bundle, pilot-injection-dev measures attempt 2   *)
(* and, when attempt 2 had no plain success, attempt 3 unit by unit under a  *)
(* marker, and refreeze-gate-a picks the report the rule names.  No command  *)
(* takes a lock: files created exclusively and the marker are all there is.  *)
(* They share spend-ledger.json, which every request reads and replaces       *)
(* twice under a lock of its own process only.                               *)
EXTENDS Naturals, Sequences, FiniteSets, SequencesExt, FiniteSetsExt

CONSTANTS
  Procs,      \* shells that run a command each
  Units,      \* sequence of the pilot units; the last is plain and injected
  Heads,      \* states of the checked-out sources
  Cap,        \* requests the spend cap has room for
  Embedded,   \* whether an earlier prepare-dev has stored the vectors
  Prepared,   \* the bundles earlier ones have written
  MaxFaults,  \* bound: raised errors and killed commands
  MaxMoves    \* bound: edits of the sources

VARIABLES
  bundles,   \* v3 freeze bundles, told apart by the shell that wrote them
  vectors,   \* whether the development vectors are stored
  ledger,    \* entries of spend-ledger.json: call_id, attempt and unit of the
             \* request; what a settlement changes in its entry is left out
  overwritten, \* history: a command replaced a ledger it had not read
  markers,   \* attempt -> marker file
  units,     \* attempt -> unit -> unit file
  reports,   \* pilot reports written
  freezes,   \* R209 freeze bundles written
  head,
  run,       \* locals of the command each shell runs
  faults, moves

files == <<bundles, vectors, ledger, overwritten, markers, units, reports, freezes>>
bounds == <<faults, moves>>
vars == <<files, head, run, bounds>>

Attempts == {2, 3}
UnitSet == Range(Units)
None == "none"
NoId == [head |-> None, bundle |-> None]
NoMarker == [status |-> None, id |-> NoId, done |-> {}, base |-> 0]
NoUnit == [id |-> NoId, outcome |-> None]
Idle == [pc |-> "idle", attempt |-> 0, resume |-> FALSE, id |-> NoId, base |-> 0,
         marker |-> NoMarker, cur |-> 1, pick |-> {},
         of |-> None, call |-> 0, read |-> <<>>, then |-> None]

Init ==
  /\ bundles = Prepared /\ vectors = Embedded /\ ledger = <<>> /\ overwritten = FALSE
  /\ markers = [a \in Attempts |-> NoMarker]
  /\ units = [a \in Attempts |-> [u \in UnitSet |-> NoUnit]]
  /\ reports = {} /\ freezes = {} /\ head \in Heads
  /\ run = [p \in Procs |-> Idle]
  /\ faults = 0 /\ moves = 0

At(p, label) == run[p].pc = label
Go(p, label) == run' = [run EXCEPT ![p].pc = label]
Return(p) == run' = [run EXCEPT ![p] = Idle]
Fault == faults < MaxFaults /\ faults' = faults + 1 /\ UNCHANGED moves

(* Leaving the unit loop's try: under the marker an error records an abort,  *)
(* elsewhere the command just ends.                                          *)
UnderMarker == {"unit", "reserve", "settle", "settling", "sent", "note", "complete"}
Fail(p) == IF run[p].attempt # 0 /\ run[p].pc \in UnderMarker THEN Go(p, "abort") ELSE Return(p)

-----------------------------------------------------------------------------
(* The spend ledger.  A call_id (uuid4) is one that no entry and no command  *)
(* has.                                                                      *)
Calls(entries) == {entries[i].call : i \in DOMAIN entries}
FreshCall ==
  Min(1..((Cap + 1) * (Cardinality(Procs) + 1))
        \ (Calls(ledger) \cup UNION {Calls(run[q].read) \cup {run[q].call} : q \in Procs}))

(* reserve up to its write: the file is read and the cap kept.  then is where *)
(* the command goes once its request is answered and settled.                *)
Request(p, unit, then) ==
  IF Len(ledger) < Cap
  THEN run' = [run EXCEPT ![p].pc = "reserve", ![p].of = unit, ![p].call = FreshCall,
                          ![p].read = ledger, ![p].then = then]
  ELSE Fail(p)

(* os.replace puts what was read, with the command's own change, over        *)
(* whatever the file says by now.                                            *)
Replace(p, entries) ==
  ledger' = entries /\ overwritten' = (overwritten \/ ledger # run[p].read)

WriteReservation(p) ==
  /\ At(p, "reserve")
  /\ Replace(p, Append(run[p].read, [call |-> run[p].call, attempt |-> run[p].attempt, unit |-> run[p].of]))
  /\ run' = [run EXCEPT ![p].pc = "settle", ![p].read = <<>>]
  /\ UNCHANGED <<bundles, vectors, markers, units, reports, freezes, head, bounds>>

(* settle, or fail when the provider did: read again, the own entry must be  *)
(* there; without it the error is no provider error and leaves the unit.     *)
Settle(p) ==
  /\ At(p, "settle")
  /\ IF run[p].call \in Calls(ledger)
     THEN run' = [run EXCEPT ![p].pc = "settling", ![p].read = ledger] ELSE Fail(p)
  /\ UNCHANGED <<files, head, bounds>>
WriteSettlement(p) ==
  /\ At(p, "settling")
  /\ Replace(p, run[p].read)
  /\ run' = [run EXCEPT ![p].pc = run[p].then, ![p].of = None, ![p].call = 0, ![p].read = <<>>,
                        ![p].then = None]
  /\ UNCHANGED <<bundles, vectors, markers, units, reports, freezes, head, bounds>>

-----------------------------------------------------------------------------
(* prepare_development: refused once a bundle of either kind exists.         *)
Prepare(p) ==
  /\ At(p, "idle") /\ bundles = {} /\ freezes = {}
  /\ Go(p, "embed") /\ UNCHANGED <<files, head, bounds>>

(* embed_missing pays only for vectors that are not stored.                  *)
EmbedMissing(p) ==
  /\ At(p, "embed")
  /\ IF vectors THEN Go(p, "agents") ELSE Request(p, "dev", "store")
  /\ UNCHANGED <<files, head, bounds>>
StoreVectors(p) ==
  /\ At(p, "store") /\ Go(p, "agents") /\ vectors' = TRUE
  /\ UNCHANGED <<bundles, ledger, overwritten, markers, units, reports, freezes, head, bounds>>

(* Tuning writes configuration, results and manifest under names of their    *)
(* own, which only this run's bundle mentions; then the agents are evaluated.*)
EvaluateAgents(p) ==
  /\ At(p, "agents") /\ Request(p, "dev", "bundle")
  /\ UNCHANGED <<files, head, bounds>>
FreezeAgents(p) ==
  /\ At(p, "bundle") /\ Return(p) /\ bundles' = bundles \cup {p}
  /\ UNCHANGED <<vectors, ledger, overwritten, markers, units, reports, freezes, head, bounds>>

-----------------------------------------------------------------------------
legacy_gate_a_freeze_Some(b) == b \in bundles
(* _legacy_gate_a_freeze: the v3 bundle b is the only one.                   *)
legacy_gate_a_freeze(b) == bundles = {b}

(* _pilot_is_usable and the plain attack successes of a report.              *)
Usable(r) == \A u \in UnitSet : r.rows[u].outcome # "error"
Successes(r) == Cardinality({u \in UnitSet : r.rows[u].outcome = "hit"})
Valid(a) == {r \in reports : r.attempt = a /\ Usable(r)}
One(S) == Cardinality(S) = 1

(* Attempt 2 rests on the preserved attempt 1; attempt 3 needs one complete  *)
(* attempt 2 without a plain success.                                        *)
attempt_allowed(a) == a = 3 => One(Valid(2)) /\ \A r \in Valid(2) : Successes(r) = 0

(* Up to the marker: identity of sources, configurations and text, and the   *)
(* number of ledger entries there are.                                       *)
Pilot(p) ==
  /\ At(p, "idle")
  /\ \E a \in Attempts, resume \in BOOLEAN, b \in bundles :
       /\ legacy_gate_a_freeze(b) /\ attempt_allowed(a)
       /\ run' = [run EXCEPT ![p] =
            [Idle EXCEPT !.pc = "marker", !.attempt = a, !.resume = resume,
                         !.id = [head |-> head, bundle |-> b], !.base = Len(ledger)]]
  /\ UNCHANGED <<files, head, bounds>>

Marker(p) == markers[run[p].attempt]
MarkerExists(p) == Marker(p).status # None
Written(p, m, label) ==
  /\ markers' = [markers EXCEPT ![run[p].attempt] = m]
  /\ run' = [run EXCEPT ![p].marker = m, ![p].pc = label, ![p].resume = FALSE]

Resumable(p) == run[p].resume /\ Marker(p).status = "ABORTED" /\ Marker(p).id = run[p].id

(* A marker of this identity that says ABORTED is taken up; only a fresh     *)
(* start may create one, and the creation is exclusive.                      *)
OpenMarker(p) ==
  /\ At(p, "marker") /\ UNCHANGED <<files, head, bounds>>
  /\ \/ MarkerExists(p) /\ ~Resumable(p) /\ Return(p)
     \/ MarkerExists(p) /\ Resumable(p)
        /\ run' = [run EXCEPT ![p].pc = "reopen", ![p].marker = [Marker(p) EXCEPT !.status = "RUNNING"]]
     \/ ~MarkerExists(p) /\ run[p].resume /\ Return(p)
     \/ ~MarkerExists(p) /\ ~run[p].resume /\ Go(p, "create")
CreateMarker(p) ==
  /\ At(p, "create")
  /\ \/ MarkerExists(p) /\ Return(p) /\ UNCHANGED markers
     \/ ~MarkerExists(p)
        /\ Written(p, [status |-> "RUNNING", id |-> run[p].id, done |-> {}, base |-> run[p].base], "unit")
  /\ UNCHANGED <<bundles, vectors, ledger, overwritten, units, reports, freezes, head, bounds>>

Base_OfThisRun(p) == run[p].base
(* ledger_entry_count_before: the first run of the attempt recorded it.      *)
Base(p) == run[p].marker.base

ReopenMarker(p) ==
  /\ At(p, "reopen") /\ Written(p, run[p].marker, "unit")
  /\ UNCHANGED <<bundles, vectors, ledger, overwritten, units, reports, freezes, head, bounds>>

-----------------------------------------------------------------------------
Unit(p) == Units[run[p].cur]
File(p) == units[run[p].attempt][Unit(p)]
UnitExists(p) == File(p).outcome # None
InUnits(p) == At(p, "unit") /\ run[p].cur <= Len(Units)

Foreign(p) == File(p).id # run[p].id

(* A unit file of this identity is taken over and noted in the marker.       *)
KeepUnit(p) ==
  /\ InUnits(p) /\ UnitExists(p)
  /\ \/ Foreign(p) /\ Go(p, "abort") /\ UNCHANGED markers
     \/ /\ ~Foreign(p)
        /\ LET m == [run[p].marker EXCEPT !.done = @ \cup {Unit(p)}] IN
             /\ markers' = IF m = run[p].marker THEN markers
                           ELSE [markers EXCEPT ![run[p].attempt] = m]
             /\ run' = [run EXCEPT ![p].marker = m, ![p].cur = @ + 1]
  /\ UNCHANGED <<bundles, vectors, ledger, overwritten, units, reports, freezes, head, bounds>>
(* The sources are compared, then the workflow case sends its one request.   *)
SendUnit(p) ==
  /\ InUnits(p) /\ ~UnitExists(p)
  /\ IF head = run[p].id.head THEN Request(p, Unit(p), "sent") ELSE Go(p, "abort")
  /\ UNCHANGED <<files, head, bounds>>
Outcomes(u) == IF u = Last(Units) THEN {"error", "miss", "hit"} ELSE {"error", "miss"}
WriteUnit(p) ==
  /\ At(p, "sent")
  /\ \/ UnitExists(p) /\ Go(p, "abort") /\ UNCHANGED units
     \/ /\ ~UnitExists(p) /\ Go(p, "note")
        /\ \E o \in Outcomes(Unit(p)) :
             units' = [units EXCEPT ![run[p].attempt][Unit(p)] = [id |-> run[p].id, outcome |-> o]]
  /\ UNCHANGED <<bundles, vectors, ledger, overwritten, markers, reports, freezes, head, bounds>>
NoteUnit(p) ==
  /\ At(p, "note")
  /\ LET m == [run[p].marker EXCEPT !.done = @ \cup {Unit(p)}] IN
       /\ markers' = [markers EXCEPT ![run[p].attempt] = m]
       /\ run' = [run EXCEPT ![p].marker = m, ![p].cur = @ + 1, ![p].pc = "unit"]
  /\ UNCHANGED <<bundles, vectors, ledger, overwritten, units, reports, freezes, head, bounds>>

(* The rows are read back from disk and the entries since the base counted.  *)
WriteReport(p) ==
  /\ At(p, "unit") /\ run[p].cur > Len(Units) /\ Go(p, "complete")
  /\ reports' = reports \cup {[attempt |-> run[p].attempt, id |-> run[p].id,
                               rows |-> units[run[p].attempt],
                               entries |-> {<<ledger[i].attempt, ledger[i].unit>> :
                                              i \in (Base(p) + 1)..Len(ledger)}]}
  /\ UNCHANGED <<bundles, vectors, ledger, overwritten, markers, units, freezes, head, bounds>>
MarkComplete(p) ==
  /\ At(p, "complete") /\ Return(p)
  /\ markers' = [markers EXCEPT ![run[p].attempt] = [run[p].marker EXCEPT !.status = "COMPLETE"]]
  /\ UNCHANGED <<bundles, vectors, ledger, overwritten, units, reports, freezes, head, bounds>>
(* The except clause writes the in-memory marker as aborted.                 *)
MarkAborted(p) ==
  /\ At(p, "abort") /\ Return(p)
  /\ markers' = [markers EXCEPT ![run[p].attempt] = [run[p].marker EXCEPT !.status = "ABORTED"]]
  /\ UNCHANGED <<bundles, vectors, ledger, overwritten, units, reports, freezes, head, bounds>>

-----------------------------------------------------------------------------
(* _select_pilot_for_freeze: r is the report the rule names.                 *)
select_pilot(r) ==
  /\ One(Valid(2)) /\ \E two \in Valid(2) :
       \/ Successes(two) = 0 /\ Valid(3) = {r}
       \/ Successes(two) > 0 /\ {s \in reports : s.attempt = 3} = {} /\ r = two

(* refreeze_gate_a_after_injection_pilot reads everything, then writes its   *)
(* validity report and the bundle.                                           *)
Refreeze(p) ==
  /\ At(p, "idle") /\ freezes = {}
  /\ \E b \in bundles, r \in reports :
       /\ legacy_gate_a_freeze(b) /\ select_pilot(r)
       /\ run' = [run EXCEPT ![p] = [Idle EXCEPT !.pc = "refreeze", !.pick = {[bundle |-> b, report |-> r]}]]
  /\ UNCHANGED <<files, head, bounds>>
WriteFreeze(p) ==
  /\ At(p, "refreeze") /\ Return(p) /\ freezes' = freezes \cup run[p].pick
  /\ UNCHANGED <<bundles, vectors, ledger, overwritten, markers, units, reports, head, bounds>>

-----------------------------------------------------------------------------
(* Any step may raise, the abort's own write too; a marker that could not be *)
(* filled after its exclusive creation stays, and so does a unit when the    *)
(* command is killed.                                                        *)
TornMarker(p) ==
  /\ At(p, "create") /\ ~MarkerExists(p)
  /\ markers' = [markers EXCEPT ![run[p].attempt] = [NoMarker EXCEPT !.status = "torn"]]
TornUnit(p) ==
  /\ At(p, "sent") /\ ~UnitExists(p)
  /\ units' = [units EXCEPT ![run[p].attempt][Unit(p)] = [NoUnit EXCEPT !.outcome = "torn"]]
Raise(p) ==
  /\ Fault /\ ~At(p, "idle") /\ Fail(p)
  /\ TornMarker(p) \/ UNCHANGED markers
  /\ UNCHANGED <<bundles, vectors, ledger, overwritten, units, reports, freezes, head>>
Kill(p) ==
  /\ Fault /\ ~At(p, "idle") /\ Return(p)
  /\ \/ UNCHANGED <<markers, units>>
     \/ TornMarker(p) /\ UNCHANGED units
     \/ TornUnit(p) /\ UNCHANGED markers
  /\ UNCHANGED <<bundles, vectors, ledger, overwritten, reports, freezes, head>>
Move ==
  /\ moves < MaxMoves /\ moves' = moves + 1 /\ head' \in Heads \ {head}
  /\ UNCHANGED <<files, run, faults>>

Step(p) ==
  \/ WriteReservation(p) \/ Settle(p) \/ WriteSettlement(p)
  \/ Prepare(p) \/ EmbedMissing(p) \/ StoreVectors(p) \/ EvaluateAgents(p) \/ FreezeAgents(p)
  \/ Pilot(p) \/ OpenMarker(p) \/ CreateMarker(p) \/ ReopenMarker(p)
  \/ KeepUnit(p) \/ SendUnit(p) \/ WriteUnit(p) \/ NoteUnit(p)
  \/ WriteReport(p) \/ MarkComplete(p) \/ MarkAborted(p)
  \/ Refreeze(p) \/ WriteFreeze(p)
Next == Move \/ \E p \in Procs : Step(p) \/ Raise(p) \/ Kill(p)
Spec == Init /\ [][Next]_vars
-----------------------------------------------------------------------------
\* Every row of a report was written under the report's own sources and
\* bundle, whatever aborts, resumes, kills and concurrent commands came between;
\* and unless a command has replaced a ledger it had not read, the ledger
\* entries the report lists include the request of each of its rows
\* (run_development_injection_pilot, Dur056SpendLedger.reserve and settle).
ReportCoversItsRows ==
  \A r \in reports : \A u \in UnitSet :
    /\ r.rows[u].id = r.id
    /\ \/ overwritten
       \/ <<r.attempt, u>> \in r.entries

\* A freeze names a report without provider errors that was measured under the
\* very bundle the freeze extends; it is attempt 3 exactly when attempt 2 had no
\* plain success (refreeze_gate_a_after_injection_pilot).
FreezeFollowsRule ==
  \A f \in freezes :
    /\ Usable(f.report) /\ f.report.id.bundle = f.bundle
    /\ f.report.attempt = 2 => Successes(f.report) > 0
    /\ f.report.attempt = 3 => \E two \in Valid(2) : Successes(two) = 0
=============================================================================
