------------------------------ MODULE FaultProxy ------------------------------
(***************************************************************************)
(* python/faults/proxy.py: a TCP proxy for one connection whose accept     *)
(* thread, two pump threads and callers of cut and inject share the stop   *)
(* event and the pair of sockets.  One payload is injected each way; cut   *)
(* may be called again, as close does.                                     *)
(***************************************************************************)
EXTENDS Naturals

CONSTANTS MaxChunks     \* chunks a peer sends in each direction

Directions == {"client_to_target", "target_to_client"}

VARIABLES
  stop,        \* the stop event
  sockets,     \* the pair the lock guards: none, open or closed
  accepted,    \* the accept thread: accept, connect, publish, done
  pump,        \* per direction: off, check, recv, send, done
  unread,      \* chunks a peer sent that no pump has read
  inject,      \* per direction, a caller of inject: no, send, done
  cut,         \* the caller of cut: no, requested, stopped, closing, observed
  taken,       \* what the cuts found in place of the pair
  observed,    \* cut_observed is in the record
  late         \* how bytes reached a peer after that: pumped, injected

vars == <<stop, sockets, accepted, pump, unread, inject, cut, taken, observed, late>>
threads == <<accepted, pump, unread, inject>>
cutter == <<cut, taken, observed>>

Init ==
  /\ stop = FALSE /\ sockets = "none" /\ accepted = "accept"
  /\ pump = [d \in Directions |-> "off"] /\ unread = [d \in Directions |-> 0]
  /\ inject = [d \in Directions |-> "no"]
  /\ cut = "no" /\ taken = {} /\ observed = FALSE /\ late = {}

Late(how) == late' = IF observed THEN late \cup {how} ELSE late

\* _accept: the loop looks at the stop event, then accepts and connects; what
\* follows the connection does not look at it again.
AcceptClient ==
  /\ accepted = "accept"
  /\ accepted' \in (IF stop THEN {"done"} ELSE {"connect", "done"})
  /\ UNCHANGED <<stop, sockets, pump, unread, inject, cutter, late>>

ConnectUpstream ==
  /\ accepted = "connect" /\ accepted' \in {"publish", "done"}
  /\ UNCHANGED <<stop, sockets, pump, unread, inject, cutter, late>>

Publish ==
  /\ accepted = "publish" /\ accepted' = "done"
  /\ sockets' = "open" /\ pump' = [d \in Directions |-> "check"]
  /\ UNCHANGED <<stop, unread, inject, cutter, late>>

PeerSends(d) ==
  /\ sockets = "open" /\ unread[d] < MaxChunks
  /\ unread' = [unread EXCEPT ![d] = @ + 1]
  /\ UNCHANGED <<stop, sockets, accepted, pump, inject, cutter, late>>

\* _pump: the stop event is read before every receive, not before the send.
Check(d) ==
  /\ pump[d] = "check"
  /\ pump' = [pump EXCEPT ![d] = IF stop THEN "done" ELSE "recv"]
  /\ UNCHANGED <<stop, sockets, accepted, unread, inject, cutter, late>>

Receive(d) ==
  /\ pump[d] = "recv"
  /\ \/ /\ sockets = "open" /\ unread[d] > 0
        /\ pump' = [pump EXCEPT ![d] = "send"] /\ unread' = [unread EXCEPT ![d] = @ - 1]
     \/ sockets = "closed" /\ pump' = [pump EXCEPT ![d] = "done"] /\ UNCHANGED unread
  /\ UNCHANGED <<stop, sockets, accepted, inject, cutter, late>>

\* Sending on a socket that cut has closed raises, and the chunk is dropped.
Send(d) ==
  /\ pump[d] = "send"
  /\ \/ sockets = "open" /\ pump' = [pump EXCEPT ![d] = "check"] /\ Late("pumped")
     \/ sockets = "closed" /\ pump' = [pump EXCEPT ![d] = "done"] /\ UNCHANGED late
  /\ UNCHANGED <<stop, sockets, accepted, unread, inject, cutter>>

\* inject: the destination under the lock (none raises), then the send; the stop
\* event is not looked at.
Inject(d) ==
  /\ \/ /\ inject[d] = "no"
        /\ inject' = [inject EXCEPT ![d] = IF sockets = "none" THEN "done" ELSE "send"]
        /\ UNCHANGED late
     \/ /\ inject[d] = "send" /\ inject' = [inject EXCEPT ![d] = "done"]
        /\ IF sockets = "open" THEN Late("injected") ELSE UNCHANGED late
  /\ UNCHANGED <<stop, sockets, accepted, pump, unread, cutter>>

\* A caller of cut, or of close, which cuts again.
CutRequested ==
  /\ cut \in {"no", "observed"} /\ cut' = "requested"
  /\ UNCHANGED <<stop, sockets, threads, taken, observed, late>>

Closed == IF "open" \in taken THEN "closed" ELSE sockets

\* The sockets are read before the stop event is set.
CutStep_SocketsFirst ==
  /\ \/ /\ cut = "requested" /\ cut' = "stopped" /\ taken' = taken \cup {sockets}
        /\ UNCHANGED <<stop, sockets, observed>>
     \/ cut = "stopped" /\ cut' = "closing" /\ sockets' = Closed /\ UNCHANGED <<stop, taken, observed>>
     \/ /\ cut = "closing" /\ cut' = "observed" /\ stop' = TRUE /\ observed' = TRUE
        /\ UNCHANGED <<sockets, taken>>
  /\ UNCHANGED <<threads, late>>

\* cut: the stop event, the sockets under the lock, their close, the record.
CutStep ==
  /\ \/ /\ cut = "requested" /\ cut' = "stopped" /\ stop' = TRUE
        /\ UNCHANGED <<sockets, taken, observed>>
     \/ /\ cut = "stopped" /\ cut' = "closing" /\ taken' = taken \cup {sockets}
        /\ UNCHANGED <<stop, sockets, observed>>
     \/ /\ cut = "closing" /\ cut' = "observed" /\ sockets' = Closed /\ observed' = TRUE
        /\ UNCHANGED <<stop, taken>>
  /\ UNCHANGED <<threads, late>>

Pump(d) == Check(d) \/ Receive(d) \/ Send(d)

Next == \/ AcceptClient \/ ConnectUpstream \/ Publish \/ CutRequested \/ CutStep
        \/ \E d \in Directions : PeerSends(d) \/ Pump(d) \/ Inject(d)

Spec == Init /\ [][Next]_vars

\* Once the cut is recorded as observed no pump forwards a chunk, even when the
\* connection is published while the cut is under way; and an injected payload,
\* which no stop event holds back, passes only on a connection that was not yet
\* published when a cut took its sockets.
NothingPassesTheCut ==
  late \subseteq (IF "none" \in taken THEN {"injected"} ELSE {})

=============================================================================
