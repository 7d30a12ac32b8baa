------------------------------- MODULE TcpRelay -------------------------------
(***************************************************************************)
(* The TCP side of evade-proxy (serve_tcp, handle_tcp, exchange_tcp,       *)
(* tcp_roundtrip): a task per client connection holds a slot for as long   *)
(* as the connection lives, reads one query at a time and answers it over  *)
(* a single upstream connection, which it replaces once when a reused one  *)
(* turns out to be dead.                                                   *)
(*                                                                         *)
(* The queries of a connection are numbered in the order the client writes *)
(* them; an answer is the number of its query.  Every read and connect has *)
(* a timeout, which may fire at any moment; neither write has one.  The    *)
(* write upstream never waits (a query fits the socket's buffer, which is  *)
(* empty when the query is written); the write to the client may.          *)
(***************************************************************************)
EXTENDS Integers, Sequences, FiniteSets

CONSTANTS
  Conns,       \* client connections
  MaxTcp,      \* Limits.max_tcp
  MaxQueries,  \* bound: queries a client writes on one connection
  Room         \* answers the client's socket holds before it reads them

ASSUME TcpRelayAssumption ==
  /\ MaxTcp \in Nat \ {0} /\ Room \in Nat \ {0}
  /\ MaxQueries \in Nat

VARIABLES
  permits,     \* Limits.tcp.available_permits()
  pc,          \* where the task of a connection is
  query,       \* number of the query it last began to read
  got,         \* the answer it holds
  reused,      \* exchange_tcp's local of that name
  tries,       \* times the current query was written upstream
  link,        \* the upstream connection: state, unanswered and answered queries
  client,      \* the client's end: queries written, open, answers not yet read
  answers,     \* history: the answers written to the client
  dropped,     \* Counters.dropped_tcp
  failures     \* Counters.upstream_failures_tcp

taskVars == <<query, got, reused, tries>>
vars == <<permits, pc, taskVars, link, client, answers, dropped, failures>>

NoLink    == [state |-> "none", asked |-> <<>>, ready |-> <<>>]
FreshLink == [NoLink EXCEPT !.state = "open"]

\* idle: waiting for a length; body: for the rest of the query; then the steps
\* of exchange_tcp; deliver: about to process and write the answer; close and
\* fail: the task returns, in the second case because exchange_tcp did.
Exchanging == {"connect", "request", "await", "awaitBody"}
Held       == {"idle", "body", "deliver", "close", "fail"} \cup Exchanging

Holders == {c \in Conns : pc[c] \in Held}

Init ==
  /\ permits = MaxTcp
  /\ pc = [c \in Conns |-> "new"]
  /\ query = [c \in Conns |-> 0]
  /\ got = [c \in Conns |-> 0]
  /\ reused = [c \in Conns |-> FALSE]
  /\ tries = [c \in Conns |-> 0]
  /\ link = [c \in Conns |-> NoLink]
  /\ client = [c \in Conns |-> [sent |-> 0, open |-> TRUE, unread |-> 0]]
  /\ answers = [c \in Conns |-> <<>>]
  /\ dropped = 0
  /\ failures = 0

Goto(c, s) == pc' = [pc EXCEPT ![c] = s]

-------------------------------------------------------------------------------
\* serve_tcp.

Accept(c) ==
  /\ pc[c] = "new" /\ permits > 0
  /\ permits' = permits - 1
  /\ Goto(c, "idle")
  /\ UNCHANGED <<taskVars, link, client, answers, dropped, failures>>

\* Dropping the stream closes the connection.
Drop(c) ==
  /\ pc[c] = "new" /\ permits = 0
  /\ Goto(c, "dropped")
  /\ dropped' = dropped + 1
  /\ UNCHANGED <<permits, taskVars, link, client, answers, failures>>

-------------------------------------------------------------------------------
\* handle_tcp: reading from the client.

ReadLength(c) ==
  /\ pc[c] = "idle" /\ query[c] < client[c].sent
  /\ query' = [query EXCEPT ![c] = @ + 1]
  /\ Goto(c, "body")
  /\ UNCHANGED <<permits, got, reused, tries, link, client, answers, dropped, failures>>

\* TCP_IDLE passed (perhaps just before a query came), or the client closed.
GoAway(c) ==
  /\ pc[c] = "idle"
  /\ Goto(c, "close")
  /\ UNCHANGED <<permits, taskVars, link, client, answers, dropped, failures>>

\* exchange_tcp begins: the upstream connection left by the last query is used
\* again, dead or alive.
ReadBody(c) ==
  /\ pc[c] = "body"
  /\ reused' = [reused EXCEPT ![c] = link[c].state # "none"]
  /\ tries' = [tries EXCEPT ![c] = 0]
  /\ Goto(c, IF link[c].state = "none" THEN "connect" ELSE "request")
  /\ UNCHANGED <<permits, query, got, link, client, answers, dropped, failures>>

BodyTimeout(c) ==
  /\ pc[c] = "body"
  /\ Goto(c, "close")
  /\ UNCHANGED <<permits, taskVars, link, client, answers, dropped, failures>>

-------------------------------------------------------------------------------
\* exchange_tcp and tcp_roundtrip.

Connect(c) ==
  /\ pc[c] = "connect"
  /\ link' = [link EXCEPT ![c] = FreshLink]
  /\ Goto(c, "request")
  /\ UNCHANGED <<permits, taskVars, client, answers, dropped, failures>>

ConnectFails(c) ==
  /\ pc[c] = "connect"
  /\ Goto(c, "fail")
  /\ UNCHANGED <<permits, taskVars, link, client, answers, dropped, failures>>

\* Writing to a connection the upstream has closed may still succeed.
WriteRequest(c) ==
  /\ pc[c] = "request"
  /\ link' = [link EXCEPT ![c].asked =
                IF link[c].state = "open" THEN Append(@, query[c]) ELSE @]
  /\ tries' = [tries EXCEPT ![c] = @ + 1]
  /\ Goto(c, "await")
  /\ UNCHANGED <<permits, query, got, reused, client, answers, dropped, failures>>

AwaitLength(c) ==
  /\ pc[c] = "await" /\ link[c].ready # <<>>
  /\ Goto(c, "awaitBody")
  /\ UNCHANGED <<permits, taskVars, link, client, answers, dropped, failures>>

AwaitBody(c) ==
  /\ pc[c] = "awaitBody"
  /\ got' = [got EXCEPT ![c] = Head(link[c].ready)]
  /\ link' = [link EXCEPT ![c].ready = Tail(@)]
  /\ Goto(c, "deliver")
  /\ UNCHANGED <<permits, query, reused, tries, client, answers, dropped, failures>>

AfterError_AlwaysRetries(c) == "connect"
AfterError(c)               == IF reused[c] THEN "connect" ELSE "fail"

\* Any error drops the connection.  One that is not a timeout is retried, on a
\* fresh connection, if the dropped one was a reused one.
LinkError(c) ==
  /\ \/ pc[c] = "request"
     \/ pc[c] = "await" /\ link[c].ready = <<>>
     \/ pc[c] = "awaitBody"
  /\ link[c].state = "closed"
  /\ link' = [link EXCEPT ![c] = NoLink]
  /\ reused' = [reused EXCEPT ![c] = FALSE]
  /\ Goto(c, AfterError(c))
  /\ UNCHANGED <<permits, query, got, tries, client, answers, dropped, failures>>

AfterTimeout_NextQuery == "idle"
AfterTimeout           == "fail"

LinkTimeout(c) ==
  /\ pc[c] \in {"await", "awaitBody"}
  /\ link' = [link EXCEPT ![c] = NoLink]
  /\ Goto(c, AfterTimeout)
  /\ UNCHANGED <<permits, taskVars, client, answers, dropped, failures>>

-------------------------------------------------------------------------------
\* handle_tcp: answering.

\* process() and write_all, which waits while the client's socket is full.  A
\* first write to a client that has gone may still succeed.
Deliver(c) ==
  /\ pc[c] = "deliver"
  /\ client[c].open => client[c].unread < Room
  /\ client' = [client EXCEPT ![c].unread = IF client[c].open THEN @ + 1 ELSE @]
  /\ answers' = [answers EXCEPT ![c] = Append(@, got[c])]
  /\ Goto(c, "idle")
  /\ UNCHANGED <<permits, taskVars, link, dropped, failures>>

DeliverFails(c) ==
  /\ pc[c] = "deliver" /\ ~client[c].open
  /\ Goto(c, "close")
  /\ UNCHANGED <<permits, taskVars, link, client, answers, dropped, failures>>

Fail(c) ==
  /\ pc[c] = "fail"
  /\ failures' = failures + 1
  /\ Goto(c, "close")
  /\ UNCHANGED <<permits, taskVars, link, client, answers, dropped>>

Freed_OnlyClean(c) == IF link[c].state = "none" THEN 0 ELSE 1
Freed(c)           == 1

\* The task ends: both connections are closed and the slot dropped.
Release(c) ==
  /\ pc[c] = "close"
  /\ permits' = permits + Freed(c)
  /\ link' = [link EXCEPT ![c] = NoLink]
  /\ Goto(c, "done")
  /\ UNCHANGED <<taskVars, client, answers, dropped, failures>>

-------------------------------------------------------------------------------
\* The upstream and the clients.

\* The upstream answers what it was asked, in any order.
UpstreamAnswers(c) ==
  /\ link[c].state = "open"
  /\ \E i \in DOMAIN link[c].asked :
       link' = [link EXCEPT
         ![c].ready = Append(@, link[c].asked[i]),
         ![c].asked = SubSeq(@, 1, i - 1) \o SubSeq(@, i + 1, Len(@))]
  /\ UNCHANGED <<permits, pc, taskVars, client, answers, dropped, failures>>

\* It may close at any time; what it sent before can still be read.
UpstreamCloses(c) ==
  /\ link[c].state = "open"
  /\ link' = [link EXCEPT ![c].state = "closed", ![c].asked = <<>>]
  /\ UNCHANGED <<permits, pc, taskVars, client, answers, dropped, failures>>

\* Clients need not wait for an answer before the next query.
ClientSends(c) ==
  /\ pc[c] # "dropped" /\ client[c].open /\ client[c].sent < MaxQueries
  /\ client' = [client EXCEPT ![c].sent = @ + 1]
  /\ UNCHANGED <<permits, pc, taskVars, link, answers, dropped, failures>>

ClientReads(c) ==
  /\ client[c].open /\ client[c].unread > 0
  /\ client' = [client EXCEPT ![c].unread = @ - 1]
  /\ UNCHANGED <<permits, pc, taskVars, link, answers, dropped, failures>>

ClientCloses(c) ==
  /\ client[c].open
  /\ client' = [client EXCEPT ![c].open = FALSE, ![c].unread = 0]
  /\ UNCHANGED <<permits, pc, taskVars, link, answers, dropped, failures>>

TaskStep(c) ==
  \/ ReadLength(c) \/ GoAway(c) \/ ReadBody(c) \/ BodyTimeout(c)
  \/ Connect(c) \/ ConnectFails(c) \/ WriteRequest(c) \/ AwaitLength(c) \/ AwaitBody(c)
  \/ LinkError(c) \/ LinkTimeout(c) \/ Deliver(c) \/ DeliverFails(c) \/ Fail(c) \/ Release(c)

Next ==
  \E c \in Conns :
    \/ Accept(c) \/ Drop(c) \/ TaskStep(c)
    \/ UpstreamAnswers(c) \/ UpstreamCloses(c)
    \/ ClientSends(c) \/ ClientReads(c) \/ ClientCloses(c)

Spec == Init /\ [][Next]_vars

\* A task that can run is run and its timers fire; a client that keeps its
\* connection open reads what it is sent.  Nothing is assumed of the upstream.
Fairness == \A c \in Conns : WF_vars(TaskStep(c)) /\ WF_vars(ClientReads(c))

LiveSpec == Spec /\ Fairness

-------------------------------------------------------------------------------
\* Properties.

\* main.rs:972-973.  The client gets the answers to its queries, all of them and
\* in order, up to the one in hand: no answer left over from a failed exchange
\* is ever taken for the answer to a later query.
AnswersInOrder ==
  \A c \in Conns :
    /\ answers[c] = [i \in 1..Len(answers[c]) |-> i]
    /\ pc[c] = "idle" => Len(answers[c]) = query[c]
    /\ pc[c] \in Exchanging \cup {"body", "deliver"} => Len(answers[c]) = query[c] - 1
    /\ pc[c] = "deliver" => got[c] = query[c]

\* main.rs:1001-1004.  A query is written upstream at most twice, and an upstream
\* connection carries one query at a time.
UpstreamUse ==
  \A c \in Conns :
    /\ tries[c] <= 2
    /\ Len(link[c].asked) + Len(link[c].ready) <= 1
    /\ pc[c] \in {"idle", "connect"} => link[c].asked = <<>> /\ link[c].ready = <<>>

\* main.rs:32-34.  The relay keeps the promise of Admission, for connections.
StatusOf(s) ==
  IF s \in Held THEN "inflight" ELSE IF s = "done" THEN "finished" ELSE s

Promise == INSTANCE Admission
             WITH Jobs <- Conns, Max <- MaxTcp,
                  status <- [c \in Conns |-> StatusOf(pc[c])]

KeepsAdmission == Promise!Spec

\* UPSTREAM_TIMEOUT.  Whatever the upstream does, a query the task began to
\* read is answered or its connection closed.
QueryEnds == \A c \in Conns : pc[c] = "body" ~> pc[c] \in {"idle", "done"}

\* A client that goes away gives its slot back.
GoneClientEnds ==
  \A c \in Conns : pc[c] \in Held /\ ~client[c].open ~> pc[c] = "done"
===============================================================================
