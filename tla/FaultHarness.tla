----------------------------- MODULE FaultHarness -----------------------------
(***************************************************************************)
(* The named-boundary fault harness of python/faults: the controller's     *)
(* command (_run_command) with its reader and watcher threads, and the     *)
(* target process that holds at a boundary through FailpointClient.        *)
(*                                                                         *)
(* The trace is kept as what the properties ask of it: how often an event  *)
(* was recorded and which of two was recorded first.  Waits that time out  *)
(* may do so at any moment.  Logs, field contents and the Windows branches *)
(* are left out; the POSIX branches are modelled.                          *)
(***************************************************************************)
EXTENDS Naturals, Sequences, SequencesExt

CONSTANTS Actions,      \* of release, kill, pause, cut-network and message
          Plans,        \* what the target may be: obeys, silent, early, wrong
          MaxCrashes,   \* crashes of the target on its own
          MaxStuck      \* kills the kernel does not finish within five seconds

VARIABLES
  action,                          \* the requested action
  plan, target, code, stopped, doomed,   \* the target: kind, position, exit code, signals
  channel, sent, command,          \* the TCP channel, lines to the controller, a command back
  reader, accepting,               \* the protocol thread; the listening socket
  events,                          \* the controller's queue
  trace,                           \* names of the protocol and exit records, in order
  reached, requested, observed, exitRecorded, cleaned,
  pc, nested, status, result,      \* _run_command, kill inside finish, the value to return
  spent

child == <<plan, target, code, stopped, doomed>>
wire == <<channel, sent, command>>
driver == <<action, pc, nested, status, result>>
outcome == <<reached, requested, observed>>
vars == <<plan, target, code, stopped, doomed, channel, sent, command, reader, accepting, events, trace,
          reached, requested, observed, exitRecorded, cleaned, action, pc, nested, status,
          result, spent>>

Init ==
  /\ action \in Actions /\ plan \in Plans /\ target = "started" /\ code = "none" /\ stopped = FALSE /\ doomed = FALSE
  /\ channel = "none" /\ sent = <<>> /\ command = "none"
  /\ reader = "accept" /\ accepting = TRUE
  /\ events = <<>> /\ trace = <<>>
  /\ reached = FALSE /\ requested = "none" /\ observed = "none"
  /\ exitRecorded = FALSE /\ cleaned = FALSE
  /\ pc = "boundary" /\ nested = FALSE /\ status = "0" /\ result = "none"
  /\ spent = [crashes |-> 0, stuck |-> 0]

Alive == target # "exited"
Runs == ~stopped /\ ~doomed
Ended == pc \in {"returned", "raised"}

(***************************************************************************)
(* The target.                                                             *)
(***************************************************************************)

Exit(c) == target' = "exited" /\ code' = c /\ UNCHANGED <<plan, stopped, doomed>>

\* FailpointClient.from_environment: the connection waits in the backlog.
Connect ==
  /\ target = "started" /\ plan \in {"obeys", "wrong"} /\ Runs
  /\ \/ /\ accepting /\ target' = "connected" /\ channel' = "backlog"
        /\ UNCHANGED <<plan, stopped, doomed, code, sent, command>>
     \/ ~accepting /\ Exit("own") /\ UNCHANGED wire
  /\ UNCHANGED <<reader, accepting, events, trace, outcome, exitRecorded, cleaned, driver, spent>>

\* hit: the boundary is reported and the target holds.
Hold ==
  /\ target = "connected" /\ Runs
  /\ target' = "holding" /\ sent' = Append(sent, IF plan = "wrong" THEN "other" ELSE "boundary")
  /\ UNCHANGED <<plan, code, stopped, doomed, channel, command, reader, accepting, events, trace, outcome,
                 exitRecorded, cleaned, driver, spent>>

\* hit returns on a release command and raises when the channel is closed.
Resume ==
  /\ target = "holding" /\ Runs
  /\ \/ /\ command = "release"
        /\ target' = "released" /\ UNCHANGED <<plan, code, stopped, doomed>>
     \/ command = "none" /\ channel \in {"cut", "lost"} /\ Exit("own")
  /\ UNCHANGED <<wire, reader, accepting, events, trace, outcome, exitRecorded, cleaned, driver, spent>>

\* emit("released"), which fails on a closed channel.
Acknowledge ==
  /\ target = "released" /\ Runs
  /\ \/ /\ channel \in {"backlog", "open"}
        /\ target' = "acked" /\ sent' = Append(sent, "released")
        /\ UNCHANGED <<plan, code, stopped, doomed>>
     \/ channel \in {"cut", "lost"} /\ Exit("own") /\ UNCHANGED sent
  /\ UNCHANGED <<channel, command, reader, accepting, events, trace, outcome, exitRecorded, cleaned, driver, spent>>

Done ==
  /\ Runs
  /\ \/ target = "acked" /\ Exit("zero")
     \/ target = "started" /\ plan = "early" /\ Exit("own")
  /\ UNCHANGED <<wire, reader, accepting, events, trace, outcome, exitRecorded, cleaned, driver, spent>>

Crash ==
  /\ Alive /\ Runs /\ spent.crashes < MaxCrashes
  /\ Exit("own") /\ spent' = [spent EXCEPT !.crashes = @ + 1]
  /\ UNCHANGED <<wire, reader, accepting, events, trace, outcome, exitRecorded, cleaned, driver>>

TargetStep == Connect \/ Hold \/ Resume \/ Acknowledge \/ Done

(***************************************************************************)
(* The controller's threads.                                               *)
(***************************************************************************)

\* _read_protocol: the accepted connection is the reader's alone until Publish.
Accept ==
  /\ reader = "accept" /\ ~Ended
  /\ \/ /\ channel = "backlog" /\ accepting
        /\ channel' = "open" /\ reader' = "publish"
     \/ /\ ~accepting \/ (channel # "backlog" /\ ~Alive)
        /\ reader' = "done" /\ channel' = IF channel = "backlog" THEN "lost" ELSE channel
  /\ UNCHANGED <<child, sent, command, accepting, events, trace, outcome, exitRecorded, cleaned, driver, spent>>

Publish ==
  /\ reader = "publish" /\ ~Ended
  /\ reader' = "read"
  /\ UNCHANGED <<child, wire, accepting, events, trace, outcome, exitRecorded, cleaned, driver, spent>>

\* _handle_protocol_line: recorded, then queued.  What the target sent before it
\* exited is still read; after a cut or the close in cleanup nothing is.
ReadLine ==
  /\ reader = "read" /\ ~Ended
  /\ \/ /\ channel = "open" /\ sent # <<>>
        /\ trace' = Append(trace, Head(sent)) /\ events' = Append(events, Head(sent))
        /\ reached' = (reached \/ Head(sent) = "boundary")
        /\ sent' = Tail(sent) /\ UNCHANGED reader
     \/ /\ channel = "cut" \/ (channel = "open" /\ sent = <<>> /\ ~Alive)
        /\ reader' = "done" /\ UNCHANGED <<trace, events, reached, sent>>
  /\ UNCHANGED <<child, channel, command, accepting, requested, observed, exitRecorded, cleaned, driver, spent>>

\* _record_process_exit, under its lock: the watcher, finish and cleanup call it.
RecordExit ==
  IF exitRecorded THEN UNCHANGED <<exitRecorded, trace, events, accepting>>
  ELSE /\ exitRecorded' = TRUE /\ trace' = Append(trace, "exited")
       /\ events' = Append(events, "exited") /\ accepting' = FALSE

Watch ==
  /\ ~Alive /\ ~exitRecorded /\ ~Ended
  /\ RecordExit
  /\ UNCHANGED <<child, wire, reader, outcome, cleaned, driver, spent>>

(***************************************************************************)
(* _run_command.                                                           *)
(***************************************************************************)

Goto(next) == pc' = next /\ UNCHANGED <<action, nested, status, result>>
Fail(s) == pc' = "kill" /\ status' = s /\ UNCHANGED <<action, nested, result>>
Raise == pc' = "raised" /\ result' = "raised" /\ UNCHANGED <<action, nested, status>>
First == CASE action = "pause" -> "stop" [] action = "message" -> "release" [] OTHER -> action

\* wait_for_boundary: the next event, or the timeout.
WaitForBoundary ==
  /\ pc = "boundary"
  /\ \/ /\ events # <<>> /\ events' = Tail(events) /\ UNCHANGED observed
        /\ \/ Head(events) = "boundary" /\ Goto(First)
           \/ Head(events) = "other" /\ Raise
           \/ Head(events) = "exited" /\ Fail("2")
     \/ Fail("2") /\ observed' = "boundary_not_reached" /\ UNCHANGED events
  /\ UNCHANGED <<child, wire, reader, accepting, trace, reached, requested, exitRecorded, cleaned, spent>>

\* release and inject_message: sending to a target that is gone may raise.
Release ==
  /\ pc = "release"
  /\ requested' = IF action = "message" THEN "message_injection" ELSE "release"
  /\ \/ command' = "release" /\ Goto(IF action = "message" THEN "finish" ELSE "acknowledged")
     \/ ~Alive /\ UNCHANGED command /\ Raise
  /\ UNCHANGED <<child, channel, sent, reader, accepting, events, trace, reached, observed, exitRecorded,
                 cleaned, spent>>

\* wait_for_event("released", 5): a pause goes on whatever it answers.
WaitForRelease ==
  /\ pc = "acknowledged"
  /\ \/ /\ events # <<>> /\ events' = Tail(events)
        /\ IF Head(events) = "released" THEN Goto("finish") ELSE Goto("acknowledged")
     \/ UNCHANGED events /\ IF action = "pause" THEN Goto("finish") ELSE Fail("3")
  /\ UNCHANGED <<child, wire, reader, accepting, trace, outcome, exitRecorded, cleaned, spent>>

\* pause_process: poll, then SIGSTOP; signalling a process already reaped raises.
Stop ==
  /\ pc = "stop" /\ requested' = "pause_process"
  /\ \/ Alive /\ stopped' = TRUE /\ observed' = "process_paused" /\ Goto("resume")
     \/ ~Alive /\ observed' = "process_already_exited" /\ Goto("resume") /\ UNCHANGED stopped
     \/ ~Alive /\ UNCHANGED <<observed, stopped>> /\ Raise
  /\ UNCHANGED <<plan, target, code, doomed, wire, reader, accepting, events, trace, reached, exitRecorded, cleaned,
                 spent>>

Continue ==
  /\ pc = "resume"
  /\ \/ stopped' = FALSE /\ observed' = "process_resumed" /\ Goto("release")
     \/ ~Alive /\ UNCHANGED <<observed, stopped>> /\ Raise
  /\ UNCHANGED <<plan, target, code, doomed, wire, reader, accepting, events, trace, reached, requested, exitRecorded,
                 cleaned, spent>>

CutNetwork ==
  /\ pc = "cut-network"
  /\ requested' = "network_cut" /\ observed' = "network_cut"
  /\ channel' = "cut" /\ Goto("finish")
  /\ UNCHANGED <<child, sent, command, reader, accepting, events, trace, reached, exitRecorded, cleaned, spent>>

\* kill: poll, signal the group, wait five seconds; inside finish a kill that is
\* not confirmed raises.
Killed(ok) == IF ~nested THEN Goto("finish") ELSE IF ok THEN Goto("record") ELSE Raise

PollChild ==
  /\ pc = "kill" /\ requested' = "kill"
  /\ \/ Alive /\ Goto("signal") /\ UNCHANGED observed
     \/ ~Alive /\ observed' = "process_already_exited" /\ Killed(FALSE)
  /\ UNCHANGED <<child, wire, reader, accepting, events, trace, reached, exitRecorded, cleaned, spent>>

Signal ==
  /\ pc = "signal" /\ doomed' = Alive /\ Goto("confirm")
  /\ UNCHANGED <<plan, target, code, stopped, wire, reader, accepting, events, trace, outcome, exitRecorded,
                 cleaned, spent>>

Confirm ==
  /\ pc = "confirm"
  /\ \/ ~Alive /\ observed' = "process_killed" /\ Killed(TRUE) /\ UNCHANGED spent
     \/ /\ Alive /\ spent.stuck < MaxStuck
        /\ observed' = "process_kill_unconfirmed" /\ Killed(FALSE)
        /\ spent' = [spent EXCEPT !.stuck = @ + 1]
  /\ UNCHANGED <<child, wire, reader, accepting, events, trace, reached, requested, exitRecorded, cleaned>>

\* A finish that gives up waiting without killing.
Finish_NoKill ==
  /\ pc = "finish"
  /\ pc' = "record" /\ UNCHANGED <<action, nested, status, result>>
  /\ UNCHANGED <<child, wire, reader, accepting, events, trace, outcome, exitRecorded, cleaned, spent>>

Finish ==
  /\ pc = "finish"
  /\ \/ ~Alive /\ Goto("record")
     \/ pc' = "kill" /\ nested' = TRUE /\ UNCHANGED <<action, status, result>>
  /\ UNCHANGED <<child, wire, reader, accepting, events, trace, outcome, exitRecorded, cleaned, spent>>

Record ==
  /\ pc = "record" /\ RecordExit /\ Goto("cleanup")
  /\ UNCHANGED <<child, wire, reader, outcome, cleaned, spent>>

\* cleanup after finish: the exit is recorded already; the connection it finds
\* published is closed, one that is accepted and not published is not.
Cleanup ==
  /\ pc = "cleanup" /\ RecordExit
  /\ cleaned' = TRUE
  /\ channel' = IF channel = "open" /\ reader # "publish" THEN "cut" ELSE channel
  /\ pc' = "returned" /\ result' = status /\ UNCHANGED <<action, nested, status>>
  /\ UNCHANGED <<child, sent, command, reader, outcome, spent>>

\* The kernel ends a killed process, and closes the sockets of the controller's.
Die ==
  /\ doomed /\ Alive /\ Exit("killed")
  /\ UNCHANGED <<wire, reader, accepting, events, trace, outcome, exitRecorded, cleaned, driver, spent>>

Disconnect ==
  /\ Ended /\ (accepting \/ channel \in {"backlog", "open"})
  /\ accepting' = FALSE
  /\ channel' = IF channel \in {"backlog", "open"} THEN "cut" ELSE channel
  /\ UNCHANGED <<child, sent, command, reader, events, trace, outcome, exitRecorded, cleaned, driver, spent>>

DriverStep == \/ WaitForBoundary \/ Release \/ WaitForRelease \/ Stop \/ Continue \/ CutNetwork
              \/ PollChild \/ Signal \/ Confirm \/ Finish \/ Record \/ Cleanup

Next == TargetStep \/ Crash \/ Accept \/ Publish \/ ReadLine \/ Watch \/ DriverStep \/ Die \/ Disconnect

Spec == Init /\ [][Next]_vars

(***************************************************************************)
(* Properties.                                                             *)
(***************************************************************************)

\* Whatever _run_command returns, the target is gone, its exit is in the trace
\* once and nothing listens any more: no run leaves a process for the next.  And
\* a run that came past the boundary has closed the channel; only one that gave
\* up on it may return between the accept and the publication of a connection.
ReturnedRunIsClean ==
  pc = "returned" =>
    /\ ~Alive /\ cleaned /\ ~accepting
    /\ Len(SelectSeq(trace, LAMBDA name : name = "exited")) = 1
    /\ result # "2" => channel # "open"

=============================================================================
