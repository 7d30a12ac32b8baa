------------------------------- MODULE UdpRelay -------------------------------
(***************************************************************************)
(* The UDP side of evade-proxy (serve_udp, forward_udp): the listeners of  *)
(* both port pairs share one semaphore; every admitted query runs in a     *)
(* task of its own, on an upstream socket of its own, and holds its slot   *)
(* until the task ends.                                                    *)
(*                                                                         *)
(* A query is its identity: it arrives once, on one listener.  The         *)
(* upstream may answer late, refuse, or never answer.  Ephemeral ports are *)
(* reused as soon as a socket is closed, and nothing in the relay compares *)
(* the answer with the query.                                              *)
(***************************************************************************)
EXTENDS Integers, Sequences, FiniteSets

CONSTANTS
  Queries,
  Listener,    \* query -> the port pair it arrives on
  Ports,       \* ephemeral ports of the host
  MaxUdp       \* Limits.max_udp

VARIABLES
  permits,     \* Limits.udp.available_permits()
  pc,          \* where the task of a query is
  port,        \* port of its upstream socket, while open
  inbox,       \* datagrams waiting in that socket
  got,         \* the query whose answer it received
  upstream,    \* queries the upstream has and may still answer
  dropped,     \* Counters.dropped_udp
  failures     \* Counters.upstream_failures_udp

socketVars == <<port, inbox, got, upstream>>
vars == <<permits, pc, port, inbox, got, upstream, dropped, failures>>

NoPort  == "no port"
NoQuery == "no query"
Refusal == "connection refused"

ASSUME UdpRelayAssumption ==
  /\ MaxUdp \in Nat \ {0}
  /\ NoPort \notin Ports
  /\ NoQuery \notin Queries /\ Refusal \notin Queries

\* Task states in order: the datagram has not been read; forward_udp is about
\* to bind, to connect, to send, or is waiting; it returned an answer (reply)
\* or None (fail); the task is about to drop its slot, having sent a response
\* or not; it ended.  A query read while the pool was empty is dropped.
Held   == {"bind", "connect", "send", "wait", "reply", "fail", "answered", "failed"}
Ended  == {"doneAnswered", "doneFailed"}
States == {"new", "dropped"} \cup Held \cup Ended

Holders   == {q \in Queries : pc[q] \in Held}
OpenPorts == {port[q] : q \in Queries} \ {NoPort}

Init ==
  /\ permits = MaxUdp
  /\ pc = [q \in Queries |-> "new"]
  /\ port = [q \in Queries |-> NoPort]
  /\ inbox = [q \in Queries |-> <<>>]
  /\ got = [q \in Queries |-> NoQuery]
  /\ upstream = {}
  /\ dropped = 0
  /\ failures = 0

-------------------------------------------------------------------------------
\* The listener loop.

Accept(q) ==
  /\ pc[q] = "new" /\ permits > 0
  /\ permits' = permits - 1
  /\ pc' = [pc EXCEPT ![q] = "bind"]
  /\ UNCHANGED <<socketVars, dropped, failures>>

Drop_Early(q) ==
  /\ pc[q] = "new" /\ permits <= 1
  /\ pc' = [pc EXCEPT ![q] = "dropped"]
  /\ dropped' = dropped + 1
  /\ UNCHANGED <<permits, socketVars, failures>>

Drop(q) ==
  /\ pc[q] = "new" /\ permits = 0
  /\ pc' = [pc EXCEPT ![q] = "dropped"]
  /\ dropped' = dropped + 1
  /\ UNCHANGED <<permits, socketVars, failures>>

-------------------------------------------------------------------------------
\* forward_udp.

Bind_SharedPort(q) ==
  /\ pc[q] = "bind"
  /\ \E p \in Ports : port' = [port EXCEPT ![q] = p]
  /\ pc' = [pc EXCEPT ![q] = "connect"]
  /\ UNCHANGED <<permits, inbox, got, upstream, dropped, failures>>

Bind(q) ==
  /\ pc[q] = "bind"
  /\ \E p \in Ports \ OpenPorts : port' = [port EXCEPT ![q] = p]
  /\ pc' = [pc EXCEPT ![q] = "connect"]
  /\ UNCHANGED <<permits, inbox, got, upstream, dropped, failures>>

Connect(q) ==
  /\ pc[q] = "connect"
  /\ pc' = [pc EXCEPT ![q] = "send"]
  /\ UNCHANGED <<permits, socketVars, dropped, failures>>

Refused(q) == inbox[q] # <<>> /\ Head(inbox[q]) = Refusal

\* The datagram reaches the upstream, or is lost on the way.
SendUp(q) ==
  /\ pc[q] = "send"
  /\ ~Refused(q)
  /\ pc' = [pc EXCEPT ![q] = "wait"]
  /\ upstream' \in {upstream, upstream \cup {[query |-> q, port |-> port[q]]}}
  /\ UNCHANGED <<permits, port, inbox, got, dropped, failures>>

\* forward_udp returns: its socket is closed, and with it what was queued.
Return(q, next, answer) ==
  /\ pc' = [pc EXCEPT ![q] = next]
  /\ port' = [port EXCEPT ![q] = NoPort]
  /\ inbox' = [inbox EXCEPT ![q] = <<>>]
  /\ got' = [got EXCEPT ![q] = answer]
  /\ UNCHANGED <<permits, upstream, dropped, failures>>

\* No port or descriptor left, or the kernel refuses connect or send.
LocalError(q) == pc[q] \in {"bind", "connect", "send"} /\ Return(q, "fail", NoQuery)

\* The first datagram is the answer, whatever it says.
ReceiveAnswer(q) ==
  /\ pc[q] = "wait" /\ inbox[q] # <<>> /\ ~Refused(q)
  /\ Return(q, "reply", Head(inbox[q]))

ReceiveError(q) == pc[q] = "wait" /\ Refused(q) /\ Return(q, "fail", NoQuery)

\* The deadline may pass while a datagram is already in the socket.
Timeout_AfterDatagram(q) == pc[q] = "wait" /\ inbox[q] # <<>> /\ Return(q, "fail", NoQuery)

Timeout(q) == pc[q] = "wait" /\ Return(q, "fail", NoQuery)

-------------------------------------------------------------------------------
\* The rest of the task.

\* process() and send_to; a failed send_to is ignored.
Reply(q) ==
  /\ pc[q] = "reply"
  /\ pc' = [pc EXCEPT ![q] = "answered"]
  /\ UNCHANGED <<permits, socketVars, dropped, failures>>

Fail_Uncounted(q) ==
  /\ pc[q] = "fail"
  /\ pc' = [pc EXCEPT ![q] = "failed"]
  /\ UNCHANGED <<permits, socketVars, dropped, failures>>

Fail(q) ==
  /\ pc[q] = "fail"
  /\ pc' = [pc EXCEPT ![q] = "failed"]
  /\ failures' = failures + 1
  /\ UNCHANGED <<permits, socketVars, dropped>>

Release_Leaks(q) ==
  /\ pc[q] \in {"answered", "failed"}
  /\ pc' = [pc EXCEPT ![q] = IF @ = "answered" THEN "doneAnswered" ELSE "doneFailed"]
  /\ permits' = IF pc[q] = "answered" THEN permits + 1 ELSE permits
  /\ UNCHANGED <<socketVars, dropped, failures>>

\* The task ends and drops its slot; the client already has its response.
Release(q) ==
  /\ pc[q] \in {"answered", "failed"}
  /\ pc' = [pc EXCEPT ![q] = IF @ = "answered" THEN "doneAnswered" ELSE "doneFailed"]
  /\ permits' = permits + 1
  /\ UNCHANGED <<socketVars, dropped, failures>>

-------------------------------------------------------------------------------
\* The upstream and the host's network.

\* A datagram from the upstream goes to the socket that has the port now.  One
\* not yet connected takes it from any source, a connected one only from its
\* own upstream.
Receivers(d) ==
  {q \in Queries : /\ port[q] = d.port
                   /\ pc[q] = "connect" \/ Listener[q] = Listener[d.query]}

Answer(d) ==
  /\ upstream' = upstream \ {d}
  /\ inbox' = [q \in Queries |->
                 IF q \in Receivers(d) THEN Append(inbox[q], d.query) ELSE inbox[q]]
  /\ UNCHANGED <<permits, pc, port, got, dropped, failures>>

\* The upstream is down: the error goes to the connected socket and is seen
\* before any datagram.
Refuse(d) ==
  /\ upstream' = upstream \ {d}
  /\ inbox' = [q \in Queries |->
                 IF q \in Receivers(d) /\ pc[q] # "connect"
                 THEN <<Refusal>> \o inbox[q] ELSE inbox[q]]
  /\ UNCHANGED <<permits, pc, port, got, dropped, failures>>

TaskStep(q) ==
  \/ Bind(q) \/ Connect(q) \/ SendUp(q) \/ LocalError(q)
  \/ ReceiveAnswer(q) \/ ReceiveError(q) \/ Timeout(q)
  \/ Reply(q) \/ Fail(q) \/ Release(q)

Next ==
  \/ \E q \in Queries : Accept(q) \/ Drop(q) \/ TaskStep(q)
  \/ \E d \in upstream : Answer(d) \/ Refuse(d)

Spec == Init /\ [][Next]_vars

\* A task that can run is run, and its timer fires.  Nothing is assumed of the
\* upstream or of the clients.
Fairness == \A q \in Queries : WF_vars(TaskStep(q))

LiveSpec == Spec /\ Fairness

-------------------------------------------------------------------------------
\* Properties.

TypeOK ==
  /\ permits \in 0..MaxUdp
  /\ pc \in [Queries -> States]
  /\ port \in [Queries -> Ports \cup {NoPort}]
  /\ inbox \in [Queries -> Seq(Queries \cup {Refusal})]
  /\ got \in [Queries -> Queries \cup {NoQuery}]
  /\ upstream \subseteq [query : Queries, port : Ports]
  /\ dropped \in Nat /\ failures \in Nat

\* main.rs:426-428 (inflight_udp).  The permits missing from the semaphore are
\* the tasks that have not ended: no path leaks a slot or gives one back twice.
SlotsConserved ==
  /\ IsFiniteSet(Holders)
  /\ permits + Cardinality(Holders) = MaxUdp

\* serve_udp.  dropped_udp and upstream_failures_udp count each query once:
\* those turned away, and those whose forward_udp returned None.
CountersExact ==
  /\ dropped = Cardinality({q \in Queries : pc[q] = "dropped"})
  /\ failures = Cardinality({q \in Queries : pc[q] \in {"failed", "doneFailed"}})

Returned == {"reply", "fail", "answered", "failed"} \cup Ended

\* forward_udp.  No answer goes to two clients, and a client gets the answer to
\* another query only if that query's task had already closed its socket
\* without reading it (the port was reused by the task that did).
AnswersNotShared ==
  /\ \A q, r \in Queries : got[q] = got[r] /\ got[q] # NoQuery => q = r
  /\ \A q \in Queries :
       LET x == got[q]
       IN  x # NoQuery /\ x # q => pc[x] \in Returned /\ got[x] # x

\* main.rs:32-34.  The relay keeps the promise of Admission: at most MaxUdp
\* queries at once, and a query dropped only while that many are in hand.
StatusOf(s) ==
  IF s \in Held THEN "inflight" ELSE IF s \in Ended THEN "finished" ELSE s

Promise == INSTANCE Admission
             WITH Jobs <- Queries, Max <- MaxUdp,
                  status <- [q \in Queries |-> StatusOf(pc[q])]

KeepsAdmission == Promise!Spec

\* UPSTREAM_TIMEOUT.  Whatever the upstream does, an admitted query ends and
\* its slot comes back.
AdmittedEnds ==
  \A q \in Queries : pc[q] \in Held ~> pc[q] \in Ended
===============================================================================
