---------------------------- MODULE WorkerProcess ----------------------------
(***************************************************************************)
(* One worker process of python/workers: the consumer slots, the bounded   *)
(* executor and its activity threads, the main thread, the abort watchdog  *)
(* and the invocation witness's place in them.  Worker.tla models what an  *)
(* activity thread says to the engine; this module models how the process  *)
(* fetches, acknowledges, admits, drains and dies around it.  Nothing in   *)
(* the process reads whether a witness record was written: what _append    *)
(* counts is left out.                                                     *)
(*                                                                         *)
(* The drain deadline is an event that may happen any time after the drain *)
(* began (Expire).  The broker and the delivery endpoint of the engine are *)
(* modelled from how kafka_worker.py uses them: a commit of a superseded   *)
(* generation is refused, and the endpoint stores a delivery and answers   *)
(* with the contiguous watermark of its partition.                         *)
(***************************************************************************)
EXTENDS Integers, FiniteSets

CONSTANTS Slots, Partitions, LogLength,
          NoPart,                                  \* the partition of no message
          MaxRebalances, MaxErrors                 \* bounds on what the environment does

VARIABLES
  drain, expired, exit,      \* the lifecycle events and how the process ended
  main,                      \* the main thread
  slot,                      \* the consumer threads
  threads,                   \* the activity threads of the executor
  inFlight, capacity,        \* lifecycle.in_flight and the semaphore
  group,                     \* the broker: owners, committed offsets, members yet to rejoin
  inbox,                     \* the engine: stored offsets and the watermark
  spent                      \* environment faults so far

life == <<drain, expired, exit, main>>
executor == <<threads, inFlight, capacity>>
vars == <<drain, expired, exit, main, slot, threads, inFlight, capacity,
          group, inbox, spent>>

Offsets == 0..(LogLength - 1)
Nothing == [p |-> NoPart, o |-> -1]

Running == exit = "no"
CanStart == ~drain          \* the deadline only passes after the drain began
Aborted == expired

\* The state of a consumer thread: `active` is the event of its last activity.
SlotAt(pc) == [pc |-> pc, msg |-> Nothing, next |-> -1, active |-> "none",
               mine |-> {}, pos |-> [p \in Partitions |-> 0]]

Init ==
  /\ drain = FALSE /\ expired = FALSE /\ exit = "no" /\ main = "startup"
  /\ slot = [s \in Slots |-> SlotAt("poll")]
  /\ threads = {} /\ inFlight = 0 /\ capacity = Cardinality(Slots)
  /\ group \in [member : {[s \in Slots |-> "assigned"]}, owner : [Partitions -> Slots],
                committed : {[p \in Partitions |-> 0]}]
  /\ inbox = [stored |-> [p \in Partitions |-> {}], next |-> [p \in Partitions |-> -1]]
  /\ spent = [rebalances |-> 0, errors |-> 0]

(***************************************************************************)
(* The broker and the engine, as the worker sees them.                     *)
(***************************************************************************)

\* A settled member holds its assignment.  When the group rebalances it is asked
\* to rejoin, which it does in its next poll, and may commit until then; once
\* everyone has joined, the partitions are handed out.  A member that was evicted
\* (or closed its consumer) is not waited for, and its commits are refused.
Asked(member) == [s \in Slots |-> IF member[s] \in {"settled", "assigned"} THEN "asked" ELSE member[s]]

Evict(s) ==
  /\ Running /\ spent.rebalances < MaxRebalances /\ group.member[s] \in {"settled", "asked"}
  /\ group' = [group EXCEPT !.member = [Asked(@) EXCEPT ![s] = "evicted"]]
  /\ spent' = [spent EXCEPT !.rebalances = @ + 1]
  /\ UNCHANGED <<life, slot, executor, inbox>>

AllJoined ==
  LET joined == {s \in Slots : group.member[s] = "joined"}
  IN /\ Running /\ joined # {}
     /\ \A s \in Slots \ joined : group.member[s] = "evicted"
     /\ \E o \in [Partitions -> joined] :
          group' = [group EXCEPT !.owner = o,
                                 !.member = [s \in Slots |-> IF s \in joined THEN "assigned" ELSE @[s]]]
     /\ UNCHANGED <<life, slot, executor, inbox, spent>>

\* The watermark after offset o of partition p was stored.
Watermark(p, o) ==
  LET start == IF inbox.next[p] = -1 THEN o ELSE inbox.next[p]
      stored == inbox.stored[p] \cup {o}
  IN IF o # start THEN start
     ELSE CHOOSE n \in start..LogLength : /\ \A i \in start..(n - 1) : i \in stored
                                          /\ n \notin stored

(***************************************************************************)
(* consume_slot: poll, with the rebalance listener called inside it.       *)
(***************************************************************************)

Busy(s) == slot[s].active = "unset"

\* on_partitions_revoked: the member rejoins with nothing assigned.
Rejoin(s) ==
  /\ Running /\ slot[s].pc = "poll" /\ CanStart /\ group.member[s] \in {"asked", "evicted"}
  /\ slot' = [slot EXCEPT ![s].mine = {}]
  /\ group' = [group EXCEPT !.member = [Asked(@) EXCEPT ![s] = "joined"]]
  /\ UNCHANGED <<life, executor, inbox, spent>>

\* on_partitions_assigned: fetching starts at the committed offsets.
Assigned(s) ==
  IF group.member[s] # "assigned" THEN slot[s]
  ELSE [slot[s] EXCEPT !.mine = {p \in Partitions : group.owner[p] = s}, !.pos = group.committed]

\* Partitions held before the poll are paused while an activity is running; the
\* ones a rebalance brings are not, and what is fetched from them is sought back.
Fetchable(s) == LET c == Assigned(s)
                IN {p \in c.mine : /\ c.pos[p] < LogLength
                                   /\ Busy(s) => p \notin slot[s].mine}

AfterFetch_NoSeek(s, p) ==
  LET c == Assigned(s)
  IN IF Busy(s) THEN [c EXCEPT !.pos[p] = @ + 1]
     ELSE [c EXCEPT !.pos[p] = @ + 1, !.pc = "handle", !.msg = [p |-> p, o |-> c.pos[p]]]

AfterFetch(s, p) ==
  LET c == Assigned(s)
  IN IF Busy(s) THEN c
     ELSE [c EXCEPT !.pos[p] = @ + 1, !.pc = "handle", !.msg = [p |-> p, o |-> c.pos[p]]]

Poll(s) ==
  /\ Running /\ slot[s].pc = "poll" /\ CanStart /\ group.member[s] \in {"settled", "assigned"}
  /\ \/ \E p \in Fetchable(s) : slot' = [slot EXCEPT ![s] = AfterFetch(s, p)]
     \/ group.member[s] = "assigned" /\ slot' = [slot EXCEPT ![s] = Assigned(s)]
  /\ group' = [group EXCEPT !.member[s] = "settled"]
  /\ UNCHANGED <<life, executor, inbox, spent>>

(***************************************************************************)
(* handle_delivery.  The listener runs inside poll, on the same thread, so *)
(* the generation read at its start is still the slot's own at its end; a  *)
(* generation the broker has left behind shows as a refused commit.        *)
(***************************************************************************)

Handle(s) ==
  /\ Running /\ slot[s].pc = "handle"
  /\ slot' = [slot EXCEPT ![s] = IF CanStart THEN [@ EXCEPT !.pc = "post"]
                                 ELSE [@ EXCEPT !.pc = "poll", !.msg = Nothing, !.active = "none"]]
  /\ UNCHANGED <<life, executor, group, inbox, spent>>

\* An exception leaves handle_delivery: the consumer is closed, `active` stays.
Raised(s) == [slot[s] EXCEPT !.pc = "closing", !.msg = Nothing]

\* RetryingControl._post of /v1/worker-deliveries: a 5xx or a lost answer is
\* retried with the same body, a 4xx or the retry deadline raises.
Deliver(s) ==
  LET p == slot[s].msg.p
      o == slot[s].msg.o
      next == Watermark(p, o)
      stored == [stored |-> [inbox.stored EXCEPT ![p] = @ \cup {o}],
                 next |-> [inbox.next EXCEPT ![p] = next]]
  IN /\ Running /\ slot[s].pc = "post"
     /\ \/ /\ CanStart
           /\ inbox' = stored
           /\ slot' = [slot EXCEPT ![s].pc = IF o < next THEN "commit" ELSE "admit",
                                   ![s].next = next]
           /\ UNCHANGED spent
        \/ /\ CanStart /\ spent.errors < MaxErrors
           /\ inbox' \in {inbox, stored}
           /\ slot' \in {slot, [slot EXCEPT ![s] = Raised(s)]}
           /\ spent' = [spent EXCEPT !.errors = @ + 1]
        \/ /\ ~CanStart
           /\ slot' = [slot EXCEPT ![s] = Raised(s)]
           /\ UNCHANGED <<inbox, spent>>
     /\ UNCHANGED <<life, executor, group>>

\* A broker that takes the commit of a member it has evicted.
CommitOffset(s) ==
  LET committed == [group EXCEPT !.committed[slot[s].msg.p] = slot[s].next]
  IN /\ Running /\ slot[s].pc = "commit"
     /\ \/ /\ group.member[s] \in {"settled", "asked"}
           /\ group' = committed
           /\ slot' = [slot EXCEPT ![s].pc = "admit"]
           /\ UNCHANGED spent
        \/ /\ group.member[s] = "evicted"
           /\ slot' = [slot EXCEPT ![s] = Raised(s)]
           /\ UNCHANGED <<group, spent>>
        \/ /\ group.member[s] \in {"settled", "asked"} /\ spent.errors < MaxErrors
           /\ group' \in {group, committed}
           /\ slot' = [slot EXCEPT ![s] = Raised(s)]
           /\ spent' = [spent EXCEPT !.errors = @ + 1]
     /\ UNCHANGED <<life, executor, inbox>>

\* The second can_start check; the engine may also have no task for the event.
Admit(s) ==
  /\ Running /\ slot[s].pc = "admit"
  /\ \/ /\ CanStart
        /\ slot' = [slot EXCEPT ![s].pc = "submit"]
     \/ slot' = [slot EXCEPT ![s].pc = "poll", ![s].msg = Nothing, ![s].active = "none"]
  /\ UNCHANGED <<life, executor, group, inbox, spent>>

\* BoundedExecutor.submit
Submit(s) ==
  /\ Running /\ slot[s].pc = "submit"
  /\ IF capacity = 0
     THEN /\ slot' = [slot EXCEPT ![s] = Raised(s)]
          /\ UNCHANGED <<threads, inFlight, capacity>>
     ELSE /\ capacity' = capacity - 1 /\ inFlight' = inFlight + 1
          /\ threads' = threads \cup {[slot |-> s, msg |-> slot[s].msg, pc |-> "claim"]}
          /\ slot' = [slot EXCEPT ![s].pc = "poll", ![s].msg = Nothing, ![s].active = "unset"]
  /\ UNCHANGED <<life, group, inbox, spent>>

\* The consumer loop ends with the drain; the finally clause closes the
\* consumer, and a failed slot joins the group again with a new one.
Leave(s) ==
  /\ Running /\ slot[s].pc = "poll" /\ drain
  /\ slot' = [slot EXCEPT ![s].pc = "closing"]
  /\ UNCHANGED <<life, executor, group, inbox, spent>>

Close(s) ==
  /\ Running /\ slot[s].pc = "closing"
  /\ \/ /\ drain
        /\ slot' = [slot EXCEPT ![s].pc = "dead"]
        /\ UNCHANGED group
     \/ /\ CanStart
        /\ slot' = [slot EXCEPT ![s] = [SlotAt("poll") EXCEPT !.active = slot[s].active]]
        /\ group' = [group EXCEPT !.member = [Asked(@) EXCEPT ![s] = "evicted"]]
  /\ UNCHANGED <<life, executor, inbox, spent>>

SlotStep(s) == \/ Rejoin(s) \/ Poll(s) \/ Handle(s) \/ Deliver(s) \/ CommitOffset(s) \/ Admit(s)
               \/ Submit(s) \/ Leave(s) \/ Close(s)

(***************************************************************************)
(* An activity thread: ActivityRunner.run_task under BoundedExecutor.      *)
(***************************************************************************)

At(t, pc) == threads' = (threads \ {t}) \cup {[t EXCEPT !.pc = pc]}

\* A claim that does not look at the lifecycle again before it is sent.
CheckClaim_NoGuard(t) ==
  /\ Running /\ t.pc = "claim"
  /\ At(t, "send")
  /\ UNCHANGED <<life, slot, inFlight, capacity, group, inbox, spent>>

\* RetryingControl._post of a claim: the guard, then the request.
CheckClaim(t) ==
  /\ Running /\ t.pc = "claim"
  /\ At(t, IF CanStart THEN "send" ELSE "uncount")
  /\ UNCHANGED <<life, slot, inFlight, capacity, group, inbox, spent>>

SendClaim(t) ==
  /\ Running /\ t.pc = "send"
  /\ \/ At(t, "begin") /\ UNCHANGED spent
     \/ At(t, "uncount") /\ UNCHANGED spent          \* STALE_ATTEMPT and other refusals
     \/ /\ spent.errors < MaxErrors /\ At(t, "claim")
        /\ spent' = [spent EXCEPT !.errors = @ + 1]
  /\ UNCHANGED <<life, slot, inFlight, capacity, group, inbox>>

\* witness.begin and the invocation that follows it.
Begin(t) ==
  /\ Running /\ t.pc = "begin"
  /\ At(t, "run")
  /\ UNCHANGED <<life, slot, inFlight, capacity, group, inbox, spent>>

\* The activity returned or raised: witness.end, whatever the outcome.
Finish(t) ==
  /\ Running /\ t.pc = "run"
  /\ At(t, "report")
  /\ UNCHANGED <<life, slot, inFlight, capacity, group, inbox, spent>>

\* No result after the abort; a lost answer is retried with the same body.
Report(t) ==
  /\ Running /\ t.pc = "report"
  /\ \/ At(t, "uncount") /\ UNCHANGED spent
     \/ /\ ~Aborted /\ spent.errors < MaxErrors /\ UNCHANGED threads
        /\ spent' = [spent EXCEPT !.errors = @ + 1]
  /\ UNCHANGED <<life, slot, inFlight, capacity, group, inbox>>

Uncount(t) ==
  /\ Running /\ t.pc = "uncount"
  /\ inFlight' = inFlight - 1
  /\ At(t, "release")
  /\ UNCHANGED <<life, slot, capacity, group, inbox, spent>>

\* The slot is told that its activity is done before its place is free.
Release_SetFirst(t) ==
  /\ Running /\ t.pc \in {"release", "set"}
  /\ IF t.pc = "release"
     THEN /\ slot' = [slot EXCEPT ![t.slot].active = "set"]
          /\ At(t, "set") /\ UNCHANGED capacity
     ELSE capacity' = capacity + 1 /\ threads' = threads \ {t} /\ UNCHANGED slot
  /\ UNCHANGED <<life, inFlight, group, inbox, spent>>

\* The end of the finally clause: capacity.release(), then done.set().
Release(t) ==
  /\ Running /\ t.pc \in {"release", "set"}
  /\ IF t.pc = "release"
     THEN capacity' = capacity + 1 /\ At(t, "set") /\ UNCHANGED slot
     ELSE /\ slot' = [slot EXCEPT ![t.slot].active = "set"]
          /\ threads' = threads \ {t} /\ UNCHANGED capacity
  /\ UNCHANGED <<life, inFlight, group, inbox, spent>>

ThreadStep(t) == \/ CheckClaim(t) \/ SendClaim(t) \/ Begin(t) \/ Finish(t)
                 \/ Report(t) \/ Uncount(t) \/ Release(t)

(***************************************************************************)
(* The main thread, the signal, the deadline and the watchdog.             *)
(***************************************************************************)

\* The signal handler's begin_drain; installed before the pool is started.
BeginDrain ==
  /\ Running /\ ~drain
  /\ drain' = TRUE
  /\ UNCHANGED <<expired, exit, main, slot, executor, group, inbox, spent>>

Expire ==
  /\ Running /\ drain /\ ~expired
  /\ expired' = TRUE
  /\ UNCHANGED <<drain, exit, main, slot, executor, group, inbox, spent>>

\* The startup failpoint may hold the main thread for as long as it likes.
Started ==
  /\ Running /\ main = "startup"
  /\ main' = "serve"
  /\ UNCHANGED <<drain, expired, exit, slot, executor, group, inbox, spent>>

Woken ==
  /\ Running /\ main = "serve" /\ drain
  /\ main' = "pending"
  /\ UNCHANGED <<drain, expired, exit, slot, executor, group, inbox, spent>>

\* finish_drain reads in_flight under the lock, then looks at the slot threads
\* without it; the deadline turns either answer into os._exit.
ReadPending ==
  /\ Running /\ main = "pending"
  /\ \/ inFlight = 0 /\ main' = "threads" /\ UNCHANGED exit
     \/ inFlight # 0 /\ Aborted /\ exit' = "abort" /\ UNCHANGED main
  /\ UNCHANGED <<drain, expired, slot, executor, group, inbox, spent>>

ReadThreads ==
  /\ Running /\ main = "threads"
  /\ \/ /\ \A s \in Slots : slot[s].pc = "dead"
        /\ exit' = "clean" /\ UNCHANGED main
     \/ /\ \E s \in Slots : slot[s].pc # "dead"
        /\ IF Aborted THEN exit' = "abort" /\ UNCHANGED main
           ELSE main' = "pending" /\ UNCHANGED exit
  /\ UNCHANGED <<drain, expired, slot, executor, group, inbox, spent>>

\* A watchdog that is started by the main thread after its startup hook.
Watchdog_AfterStartup ==
  /\ Running /\ drain /\ expired /\ main # "startup"
  /\ exit' = "abort"
  /\ UNCHANGED <<drain, expired, main, slot, executor, group, inbox, spent>>

\* start_abort_watchdog: process_done is only set after finish_drain returned.
Watchdog ==
  /\ Running /\ drain /\ expired
  /\ exit' = "abort"
  /\ UNCHANGED <<drain, expired, main, slot, executor, group, inbox, spent>>

Next == \/ AllJoined \/ BeginDrain \/ Expire \/ Started \/ Woken \/ ReadPending \/ ReadThreads
        \/ Watchdog
        \/ \E s \in Slots : SlotStep(s) \/ Evict(s)
        \/ \E t \in threads : ThreadStep(t)

Spec == Init /\ [][Next]_vars

(***************************************************************************)
(* Properties.                                                             *)
(***************************************************************************)

\* An offset is only committed once the engine has stored every message below
\* it: across rebalances, refused and lost commits, lost answers of the
\* delivery endpoint and records fetched while the slot was busy, no message is
\* acknowledged to the broker that the engine does not have.
CommittedIsStored ==
  \A p \in Partitions : 0..(group.committed[p] - 1) \subseteq inbox.stored[p]

\* finish_drain may read in_flight before a slot submits its last activity and
\* the slot threads after that slot has ended; even so, a process that returns
\* from it leaves no activity behind that had been granted a claim.
CleanExitLeavesNoClaim ==
  exit = "clean" => \A t \in threads : t.pc \notin {"begin", "run", "report"}

\* BoundedExecutor.submit raises when it is full, and by then the offset of the
\* delivery is committed: the task would be dropped by the worker that took it.
\* Whatever fails, rejoins or finishes around it, a slot that submits finds a
\* place: no slot takes a second activity before the place of its first is free.
ExecutorHasRoom ==
  \A s \in Slots : slot[s].pc = "submit" => capacity > 0

=============================================================================
