---------------------------- MODULE UdpRelay_proofs ----------------------------
(***************************************************************************)
(* Proofs about UdpRelay, for any set of queries and ports and any number  *)
(* of slots.                                                               *)
(***************************************************************************)
EXTENDS UdpRelay, FiniteSetTheorems, TLAPS

\* The upstream socket of a task is open exactly from bind to the return of
\* forward_udp.  SendUp needs it to know that it has a port.
SocketOpen ==
  \A q \in Queries : port[q] # NoPort <=> pc[q] \in {"connect", "send", "wait"}

\* Slots are needed for types: only they bound permits from above.
IndInv == TypeOK /\ SlotsConserved /\ SocketOpen

-------------------------------------------------------------------------------
\* The set of tasks holding a slot, under a change of one task's state.

LEMMA HoldersGrow ==
  ASSUME NEW q \in Queries, IndInv, pc[q] \notin Held, NEW s \in Held,
         pc' = [pc EXCEPT ![q] = s]
  PROVE  /\ IsFiniteSet(Holders')
         /\ Cardinality(Holders') = Cardinality(Holders) + 1
<1>1. Holders' = Holders \cup {q}
  BY DEF Holders, IndInv, TypeOK
<1>2. q \notin Holders
  BY DEF Holders
<1> QED  BY <1>1, <1>2, FS_AddElement DEF IndInv, SlotsConserved

LEMMA HoldersShrink ==
  ASSUME NEW q \in Queries, IndInv, pc[q] \in Held, NEW s \in States \ Held,
         pc' = [pc EXCEPT ![q] = s]
  PROVE  /\ IsFiniteSet(Holders')
         /\ Cardinality(Holders') = Cardinality(Holders) - 1
         /\ Cardinality(Holders) >= 1
<1>1. Holders' = Holders \ {q}
  BY DEF Holders, IndInv, TypeOK
<1>2. q \in Holders
  BY DEF Holders
<1>3. /\ IsFiniteSet(Holders')
      /\ Cardinality(Holders') = Cardinality(Holders) - 1
  BY <1>1, <1>2, FS_RemoveElement DEF IndInv, SlotsConserved
<1>4. Cardinality(Holders) \in Nat /\ Cardinality(Holders') \in Nat
  BY <1>3, FS_CardinalityType DEF IndInv, SlotsConserved
<1> QED  BY <1>3, <1>4

LEMMA HoldersKept ==
  ASSUME NEW q \in Queries, IndInv, NEW s \in States, pc[q] \in Held <=> s \in Held,
         pc' = [pc EXCEPT ![q] = s]
  PROVE  Holders' = Holders
BY DEF Holders, IndInv, TypeOK

-------------------------------------------------------------------------------
\* Every step preserves IndInv, action by action.

LEMMA InitIndInv == Init => IndInv
<1> SUFFICES ASSUME Init PROVE IndInv
  OBVIOUS
<1> USE UdpRelayAssumption DEF Init
<1>1. TypeOK
  BY DEF TypeOK, States
<1>2. Holders = {}
  BY DEF Holders, Held
<1>3. SlotsConserved
  BY <1>2, FS_EmptySet DEF SlotsConserved
<1>4. SocketOpen
  BY DEF SocketOpen
<1> QED  BY <1>1, <1>3, <1>4 DEF IndInv

LEMMA AcceptIndInv ==
  ASSUME NEW q \in Queries, IndInv, Accept(q)  PROVE IndInv'
<1> USE UdpRelayAssumption DEF Accept, socketVars
<1>1. /\ IsFiniteSet(Holders')
      /\ Cardinality(Holders') = Cardinality(Holders) + 1
  BY HoldersGrow DEF Held
<1>2. TypeOK'
  BY DEF IndInv, TypeOK, States, Held
<1>3. SlotsConserved'
  BY <1>1, FS_CardinalityType DEF IndInv, SlotsConserved, TypeOK
<1>4. SocketOpen'
  BY DEF IndInv, SocketOpen, TypeOK
<1> QED  BY <1>2, <1>3, <1>4 DEF IndInv

LEMMA DropIndInv ==
  ASSUME NEW q \in Queries, IndInv, Drop(q)  PROVE IndInv'
<1> USE DEF Drop, socketVars
<1>1. Holders' = Holders
  BY HoldersKept DEF States, Held
<1>2. TypeOK'
  BY DEF IndInv, TypeOK, States
<1>3. SlotsConserved'
  BY <1>1 DEF IndInv, SlotsConserved
<1>4. SocketOpen'
  BY DEF IndInv, SocketOpen, TypeOK
<1> QED  BY <1>2, <1>3, <1>4 DEF IndInv

LEMMA BindIndInv ==
  ASSUME NEW q \in Queries, IndInv, Bind(q)  PROVE IndInv'
<1> USE UdpRelayAssumption DEF Bind
<1>1. Holders' = Holders
  BY HoldersKept DEF States, Held
<1>2. TypeOK'
  BY DEF IndInv, TypeOK, States, Held
<1>3. SlotsConserved'
  BY <1>1 DEF IndInv, SlotsConserved
<1>4. SocketOpen'
  BY DEF IndInv, SocketOpen, TypeOK
<1> QED  BY <1>2, <1>3, <1>4 DEF IndInv

LEMMA ConnectIndInv ==
  ASSUME NEW q \in Queries, IndInv, Connect(q)  PROVE IndInv'
<1> USE DEF Connect, socketVars
<1>1. Holders' = Holders
  BY HoldersKept DEF States, Held
<1>2. TypeOK'
  BY DEF IndInv, TypeOK, States, Held
<1>3. SlotsConserved'
  BY <1>1 DEF IndInv, SlotsConserved
<1>4. SocketOpen'
  BY DEF IndInv, SocketOpen, TypeOK
<1> QED  BY <1>2, <1>3, <1>4 DEF IndInv

LEMMA SendUpIndInv ==
  ASSUME NEW q \in Queries, IndInv, SendUp(q)  PROVE IndInv'
<1> USE DEF SendUp
<1>1. Holders' = Holders
  BY HoldersKept DEF States, Held
<1>2. port[q] \in Ports
  BY DEF IndInv, TypeOK, SocketOpen
<1>3. TypeOK'
  BY <1>2 DEF IndInv, TypeOK, States, Held
<1>4. SlotsConserved'
  BY <1>1 DEF IndInv, SlotsConserved
<1>5. SocketOpen'
  BY DEF IndInv, SocketOpen, TypeOK
<1> QED  BY <1>3, <1>4, <1>5 DEF IndInv

\* The four ways forward_udp returns share the closing of the socket.
LEMMA ReturnIndInv ==
  ASSUME NEW q \in Queries, IndInv, pc[q] \in {"bind", "connect", "send", "wait"},
         NEW next \in {"reply", "fail"}, NEW answer \in Queries \cup {NoQuery},
         Return(q, next, answer)
  PROVE  IndInv'
<1> USE DEF Return
<1>1. Holders' = Holders
  BY HoldersKept DEF States, Held
<1>2. TypeOK'
  BY DEF IndInv, TypeOK, States, Held
<1>3. SlotsConserved'
  BY <1>1 DEF IndInv, SlotsConserved
<1>4. SocketOpen'
  BY DEF IndInv, SocketOpen, TypeOK
<1> QED  BY <1>2, <1>3, <1>4 DEF IndInv

LEMMA ForwardEndsIndInv ==
  ASSUME NEW q \in Queries, IndInv,
         LocalError(q) \/ ReceiveAnswer(q) \/ ReceiveError(q) \/ Timeout(q)
  PROVE  IndInv'
<1>1. CASE LocalError(q)
  BY <1>1, ReturnIndInv DEF LocalError
<1>2. CASE ReceiveAnswer(q)
  <2>1. Head(inbox[q]) \in Queries
    BY <1>2 DEF ReceiveAnswer, Refused, IndInv, TypeOK
  <2> QED  BY <1>2, <2>1, ReturnIndInv DEF ReceiveAnswer
<1>3. CASE ReceiveError(q)
  BY <1>3, ReturnIndInv DEF ReceiveError
<1>4. CASE Timeout(q)
  BY <1>4, ReturnIndInv DEF Timeout
<1> QED  BY <1>1, <1>2, <1>3, <1>4

LEMMA ReplyIndInv ==
  ASSUME NEW q \in Queries, IndInv, Reply(q)  PROVE IndInv'
<1> USE DEF Reply, socketVars
<1>1. Holders' = Holders
  BY HoldersKept DEF States, Held
<1>2. TypeOK'
  BY DEF IndInv, TypeOK, States, Held
<1>3. SlotsConserved'
  BY <1>1 DEF IndInv, SlotsConserved
<1>4. SocketOpen'
  BY DEF IndInv, SocketOpen, TypeOK
<1> QED  BY <1>2, <1>3, <1>4 DEF IndInv

LEMMA FailIndInv ==
  ASSUME NEW q \in Queries, IndInv, Fail(q)  PROVE IndInv'
<1> USE DEF Fail, socketVars
<1>1. Holders' = Holders
  BY HoldersKept DEF States, Held
<1>2. TypeOK'
  BY DEF IndInv, TypeOK, States, Held
<1>3. SlotsConserved'
  BY <1>1 DEF IndInv, SlotsConserved
<1>4. SocketOpen'
  BY DEF IndInv, SocketOpen, TypeOK
<1> QED  BY <1>2, <1>3, <1>4 DEF IndInv

\* The slot given back was held, so permits stay within MaxUdp.
LEMMA ReleaseIndInv ==
  ASSUME NEW q \in Queries, IndInv, Release(q)  PROVE IndInv'
<1> USE UdpRelayAssumption DEF Release, socketVars
<1>1. /\ IsFiniteSet(Holders')
      /\ Cardinality(Holders') = Cardinality(Holders) - 1
      /\ Cardinality(Holders) >= 1
  <2> DEFINE s == IF pc[q] = "answered" THEN "doneAnswered" ELSE "doneFailed"
  <2>1. s \in States \ Held
    BY DEF States, Held, Ended
  <2>2. pc' = [pc EXCEPT ![q] = s] /\ pc[q] \in Held
    BY DEF Held
  <2> HIDE DEF s
  <2> QED  BY <2>1, <2>2, HoldersShrink
<1>2. Cardinality(Holders) \in Nat /\ permits \in Nat
  BY FS_CardinalityType DEF IndInv, SlotsConserved, TypeOK
<1>3. TypeOK'
  BY <1>1, <1>2 DEF IndInv, SlotsConserved, TypeOK, States, Ended
<1>4. SlotsConserved'
  BY <1>1, <1>2 DEF IndInv, SlotsConserved
<1>5. SocketOpen'
  BY DEF IndInv, SocketOpen, TypeOK
<1> QED  BY <1>3, <1>4, <1>5 DEF IndInv

\* The network touches sockets only.
LEMMA NetworkIndInv ==
  ASSUME NEW d \in upstream, IndInv, Answer(d) \/ Refuse(d)  PROVE IndInv'
<1>1. d.query \in Queries
  BY DEF IndInv, TypeOK
<1>2. Holders' = Holders
  BY DEF Answer, Refuse, Holders
<1>3. inbox' \in [Queries -> Seq(Queries \cup {Refusal})]
  <2>1. CASE Answer(d)
    <3>1. \A q \in Queries : Append(inbox[q], d.query) \in Seq(Queries \cup {Refusal})
      BY <1>1 DEF IndInv, TypeOK
    <3> QED  BY <2>1, <3>1 DEF Answer, IndInv, TypeOK
  <2>2. CASE Refuse(d)
    <3>1. \A q \in Queries : <<Refusal>> \o inbox[q] \in Seq(Queries \cup {Refusal})
      BY DEF IndInv, TypeOK
    <3> QED  BY <2>2, <3>1 DEF Refuse, IndInv, TypeOK
  <2> QED  BY <2>1, <2>2
<1>4. TypeOK'
  BY <1>3 DEF Answer, Refuse, IndInv, TypeOK
<1>5. SlotsConserved'
  BY <1>2 DEF Answer, Refuse, IndInv, SlotsConserved
<1>6. SocketOpen'
  BY DEF Answer, Refuse, IndInv, SocketOpen
<1> QED  BY <1>4, <1>5, <1>6 DEF IndInv

LEMMA StepIndInv == IndInv /\ [Next]_vars => IndInv'
<1> SUFFICES ASSUME IndInv, [Next]_vars PROVE IndInv'
  OBVIOUS
<1>1. ASSUME NEW q \in Queries, Accept(q) PROVE IndInv'
  BY <1>1, AcceptIndInv
<1>2. ASSUME NEW q \in Queries, Drop(q) PROVE IndInv'
  BY <1>2, DropIndInv
<1>3. ASSUME NEW q \in Queries, TaskStep(q) PROVE IndInv'
  BY <1>3, BindIndInv, ConnectIndInv, SendUpIndInv, ForwardEndsIndInv,
     ReplyIndInv, FailIndInv, ReleaseIndInv DEF TaskStep
<1>4. ASSUME NEW d \in upstream, Answer(d) \/ Refuse(d) PROVE IndInv'
  BY <1>4, NetworkIndInv
<1>5. CASE UNCHANGED vars
  BY <1>5 DEF vars, IndInv, TypeOK, SlotsConserved, SocketOpen, Holders
<1> QED  BY <1>1, <1>2, <1>3, <1>4, <1>5 DEF Next

THEOREM IndInvHolds == Spec => []IndInv
BY InitIndInv, StepIndInv, PTL DEF Spec

\* Type correctness of the relay's state (serve_udp and forward_udp).
THEOREM TypeCorrect == Spec => []TypeOK
BY IndInvHolds, PTL DEF IndInv

\* No path of a relay task leaks its semaphore slot or returns it twice, for
\* any number of queries and slots.
THEOREM SlotsNeverLeak == Spec => []SlotsConserved
BY IndInvHolds, PTL DEF IndInv

-------------------------------------------------------------------------------
\* The relay implements Admission.

\* The instance carries a copy of Cardinality of its own.
LEMMA SameCardinality ==
  ASSUME NEW S  PROVE Promise!Cardinality(S) = Cardinality(S)
BY DEF Promise!Cardinality, Promise!IsFiniteSet, Cardinality, IsFiniteSet

LEMMA InflightAreHolders ==
  ASSUME IndInv  PROVE Promise!Inflight = Holders
<1>1. \A s \in States : StatusOf(s) = "inflight" <=> s \in Held
  BY DEF States, StatusOf, Held, Ended
<1> QED  BY <1>1 DEF Promise!Inflight, Holders, IndInv, TypeOK

\* A task that moves between two held states leaves the abstract state alone.
LEMMA HeldStepStutters ==
  ASSUME IndInv, NEW q \in Queries, NEW s \in Held, pc[q] \in Held,
         pc' = [pc EXCEPT ![q] = s]
  PROVE  \A r \in Queries : StatusOf(pc'[r]) = StatusOf(pc[r])
BY DEF IndInv, TypeOK, StatusOf, Held

LEMMA StepImplements ==
  ASSUME IndInv, [Next]_vars
  PROVE  [Promise!Next]_[q \in Queries |-> StatusOf(pc[q])]
<1> DEFINE stutter == \A r \in Queries : StatusOf(pc'[r]) = StatusOf(pc[r])
<1> USE UdpRelayAssumption
<1>1. ASSUME NEW q \in Queries, Accept(q) PROVE Promise!Admit(q)
  <2>1. Cardinality(Holders) < MaxUdp
    BY <1>1, FS_CardinalityType DEF Accept, IndInv, TypeOK, SlotsConserved
  <2>2. StatusOf(pc[q]) = "new"
    BY <1>1 DEF Accept, StatusOf, Held, Ended
  <2>3. [r \in Queries |-> StatusOf(pc'[r])]
          = [[r \in Queries |-> StatusOf(pc[r])] EXCEPT ![q] = "inflight"]
    BY <1>1 DEF Accept, StatusOf, Held, IndInv, TypeOK
  <2> QED  BY <2>1, <2>2, <2>3, InflightAreHolders, SameCardinality DEF Promise!Admit
<1>2. ASSUME NEW q \in Queries, Drop(q) PROVE Promise!TurnAway(q)
  <2>1. Cardinality(Holders) = MaxUdp
    BY <1>2, FS_CardinalityType DEF Drop, IndInv, TypeOK, SlotsConserved
  <2>2. StatusOf(pc[q]) = "new"
    BY <1>2 DEF Drop, StatusOf, Held, Ended
  <2>3. [r \in Queries |-> StatusOf(pc'[r])]
          = [[r \in Queries |-> StatusOf(pc[r])] EXCEPT ![q] = "dropped"]
    BY <1>2 DEF Drop, StatusOf, Held, Ended, IndInv, TypeOK
  <2> QED  BY <2>1, <2>2, <2>3, InflightAreHolders, SameCardinality DEF Promise!TurnAway
<1>3. ASSUME NEW q \in Queries, Release(q) PROVE Promise!Finish(q)
  <2>1. StatusOf(pc[q]) = "inflight"
    BY <1>3 DEF Release, StatusOf, Held
  <2>2. [r \in Queries |-> StatusOf(pc'[r])]
          = [[r \in Queries |-> StatusOf(pc[r])] EXCEPT ![q] = "finished"]
    BY <1>3 DEF Release, StatusOf, Held, Ended, IndInv, TypeOK
  <2> QED  BY <2>1, <2>2 DEF Promise!Finish
<1>4. ASSUME NEW q \in Queries, Bind(q) \/ Connect(q) \/ SendUp(q) PROVE stutter
  BY <1>4, HeldStepStutters DEF Bind, Connect, SendUp, Held
<1>5. ASSUME NEW q \in Queries,
             LocalError(q) \/ ReceiveAnswer(q) \/ ReceiveError(q) \/ Timeout(q)
      PROVE  stutter
  BY <1>5, HeldStepStutters
     DEF LocalError, ReceiveAnswer, ReceiveError, Timeout, Return, Held
<1>6. ASSUME NEW q \in Queries, Reply(q) \/ Fail(q) PROVE stutter
  BY <1>6, HeldStepStutters DEF Reply, Fail, Held
<1>7. ASSUME NEW d \in upstream, Answer(d) \/ Refuse(d) PROVE stutter
  BY <1>7 DEF Answer, Refuse
<1>8. CASE UNCHANGED vars
  BY <1>8 DEF vars
<1>9. stutter => UNCHANGED [q \in Queries |-> StatusOf(pc[q])]
  OBVIOUS
<1> HIDE DEF stutter
<1> QED
  <2>1. ASSUME NEW q \in Queries, Accept(q) \/ Drop(q) \/ Release(q) PROVE Promise!Next
    BY <2>1, <1>1, <1>2, <1>3 DEF Promise!Next
  <2>2. ASSUME NEW q \in Queries, TaskStep(q), ~Release(q) PROVE stutter
    BY <2>2, <1>4, <1>5, <1>6 DEF TaskStep
  <2> QED  BY <2>1, <2>2, <1>7, <1>8, <1>9 DEF Next

\* main.rs:32-34, for any number of queries and slots: at most MaxUdp queries
\* are in hand, and a query is dropped only while that many are.
THEOREM RelayKeepsAdmission == Spec => KeepsAdmission
<1>1. Init => Promise!Init
  BY DEF Init, Promise!Init, StatusOf, Held, Ended
<1> QED  BY <1>1, StepImplements, IndInvHolds, PTL DEF Spec, KeepsAdmission, Promise!Spec

-------------------------------------------------------------------------------
\* Answers are not shared.  The answer of a query is a token that is in one
\* place at a time: with the upstream, in one socket, or read by one task.

PortsUnique ==
  \A q, r \in Queries : port[q] = port[r] /\ port[q] # NoPort => q = r

Queued(q, i, x) == i \in 1..Len(inbox[q]) /\ inbox[q][i] = x

\* With the upstream: sent once, and from the port the query has while it waits.
UpstreamInv ==
  \A d \in upstream :
    /\ pc[d.query] \in {"wait"} \cup Returned
    /\ pc[d.query] = "wait" => port[d.query] = d.port
    /\ \A e \in upstream : e.query = d.query => e = d
    /\ \A q \in Queries : got[q] # d.query /\ \A i \in Nat : ~Queued(q, i, d.query)

\* In a socket: only there, and only of a query that waits on that socket or
\* has closed its own.
InboxInv ==
  \A q, x \in Queries : \A i \in Nat : Queued(q, i, x) =>
    /\ IF x = q THEN pc[x] = "wait" ELSE pc[x] \in Returned
    /\ \A r \in Queries : got[r] # x /\ \A j \in Nat : Queued(r, j, x) => r = q /\ j = i

\* Read: by one task, which returned, as did the task of the query itself.
GotInv ==
  \A q \in Queries : got[q] # NoQuery =>
    /\ pc[q] \in Returned /\ pc[got[q]] \in Returned
    /\ \A r \in Queries : got[r] = got[q] => r = q

AnswerInv == PortsUnique /\ UpstreamInv /\ InboxInv /\ GotInv

LEMMA InitAnswerInv == Init => AnswerInv
BY UdpRelayAssumption
   DEF Init, AnswerInv, PortsUnique, UpstreamInv, InboxInv, GotInv, Queued

\* Steps that leave the sockets alone.
LEMMA TaskOnlyAnswerInv ==
  ASSUME NEW q \in Queries, NEW s \in States, IndInv, AnswerInv,
         pc' = [pc EXCEPT ![q] = s], UNCHANGED socketVars,
         \/ pc[q] \in Returned /\ s \in Returned
         \/ pc[q] \notin {"wait"} \cup Returned /\ s \notin {"wait"} \cup Returned
  PROVE  AnswerInv'
<1> USE DEF socketVars, IndInv, TypeOK
<1>1. PortsUnique'
  BY DEF AnswerInv, PortsUnique
<1>2. UpstreamInv'
  BY DEF AnswerInv, UpstreamInv, Queued, Returned, Ended
<1>3. InboxInv'
  BY DEF AnswerInv, InboxInv, Queued, Returned, Ended
<1>4. GotInv'
  BY DEF AnswerInv, GotInv
<1> QED  BY <1>1, <1>2, <1>3, <1>4 DEF AnswerInv

LEMMA BindAnswerInv ==
  ASSUME NEW q \in Queries, IndInv, AnswerInv, Bind(q)  PROVE AnswerInv'
<1> USE DEF Bind, IndInv, TypeOK
<1>1. PortsUnique'
  BY DEF AnswerInv, PortsUnique, OpenPorts
<1>2. UpstreamInv'
  BY DEF AnswerInv, UpstreamInv, Queued, Returned, Ended
<1>3. InboxInv'
  BY DEF AnswerInv, InboxInv, Queued, Returned, Ended
<1>4. GotInv'
  BY DEF AnswerInv, GotInv, Returned, Ended
<1> QED  BY <1>1, <1>2, <1>3, <1>4 DEF AnswerInv

\* The query had no token before: its task was neither waiting nor done.
LEMMA SendUpAnswerInv ==
  ASSUME NEW q \in Queries, IndInv, AnswerInv, SendUp(q)  PROVE AnswerInv'
<1> USE DEF SendUp, IndInv, TypeOK
<1>1. PortsUnique'
  BY DEF AnswerInv, PortsUnique
<1>2. \A d \in upstream : d.query # q
  BY DEF AnswerInv, UpstreamInv, Returned, Ended
<1>3. \A r \in Queries : got[r] # q /\ \A i \in Nat : ~Queued(r, i, q)
  <2>1. ASSUME NEW r \in Queries, got[r] = q PROVE FALSE
    BY <2>1, UdpRelayAssumption DEF AnswerInv, GotInv, Returned, Ended
  <2>2. ASSUME NEW r \in Queries, NEW i \in Nat, Queued(r, i, q) PROVE FALSE
    BY <2>2 DEF AnswerInv, InboxInv, Returned, Ended
  <2> QED  BY <2>1, <2>2
<1>4. UpstreamInv'
  BY <1>2, <1>3 DEF AnswerInv, UpstreamInv, Queued
<1>5. InboxInv'
  BY <1>3 DEF AnswerInv, InboxInv, Queued
<1>6. GotInv'
  BY <1>3 DEF AnswerInv, GotInv, Returned, Ended
<1> QED  BY <1>1, <1>4, <1>5, <1>6 DEF AnswerInv

\* Closing the socket throws its tokens away, all but the one that was read.
LEMMA ReturnAnswerInv ==
  ASSUME NEW q \in Queries, IndInv, AnswerInv,
         pc[q] \in {"bind", "connect", "send", "wait"}, NEW next \in {"reply", "fail"},
         NEW answer \in Queries \cup {NoQuery}, answer = NoQuery \/ Queued(q, 1, answer),
         Return(q, next, answer)
  PROVE  AnswerInv'
<1> USE UdpRelayAssumption DEF Return, IndInv, TypeOK
<1>1. PortsUnique'
  BY DEF AnswerInv, PortsUnique
<1>2. \A r \in Queries : pc'[r] # "wait" => pc'[r] = pc[r] \/ r = q
  OBVIOUS
<1>3. next \in Returned
  BY DEF Returned
<1>4. \A r, x \in Queries : \A i \in Nat : Queued(r, i, x)' => r # q /\ Queued(r, i, x)
  BY DEF Queued
<1>5. \A r \in Queries : r # q => got'[r] = got[r] /\ pc'[r] = pc[r] /\ port'[r] = port[r]
  OBVIOUS
<1>6. got'[q] = answer /\ pc'[q] = next
  OBVIOUS
<1>7. UpstreamInv'
  <2> SUFFICES ASSUME NEW d \in upstream
               PROVE  /\ pc'[d.query] \in {"wait"} \cup Returned
                      /\ pc'[d.query] = "wait" => port'[d.query] = d.port
                      /\ \A e \in upstream : e.query = d.query => e = d
                      /\ \A r \in Queries :
                           got'[r] # d.query /\ \A i \in Nat : ~Queued(r, i, d.query)'
    BY DEF UpstreamInv
  <2>1. d.query \in Queries
    OBVIOUS
  <2>2. answer # d.query
    BY <2>1 DEF AnswerInv, UpstreamInv
  <2> QED  BY <1>3, <1>4, <1>5, <1>6, <2>1, <2>2 DEF AnswerInv, UpstreamInv
<1>8. InboxInv'
  <2> SUFFICES ASSUME NEW r \in Queries, NEW x \in Queries, NEW i \in Nat, Queued(r, i, x)'
               PROVE  /\ IF x = r THEN pc'[x] = "wait" ELSE pc'[x] \in Returned
                      /\ \A u \in Queries :
                           got'[u] # x /\ \A j \in Nat : Queued(u, j, x)' => u = r /\ j = i
    BY DEF InboxInv
  <2>1. r # q /\ Queued(r, i, x)
    BY <1>4
  <2>2. IF x = r THEN pc[x] = "wait" ELSE pc[x] \in Returned
    BY <2>1 DEF AnswerInv, InboxInv
  <2>3. answer # x
    BY <2>1 DEF AnswerInv, InboxInv
  <2>4. \A u \in Queries : got[u] # x /\ \A j \in Nat : Queued(u, j, x) => u = r /\ j = i
    BY <2>1 DEF AnswerInv, InboxInv
  <2>5. IF x = r THEN pc'[x] = "wait" ELSE pc'[x] \in Returned
    BY <2>1, <2>2, <1>3, <1>5, <1>6
  <2>6. \A u \in Queries : got'[u] # x
    BY <2>3, <2>4, <1>5, <1>6
  <2>7. \A u \in Queries : \A j \in Nat : Queued(u, j, x)' => u = r /\ j = i
    BY <2>4, <1>4
  <2> QED  BY <2>5, <2>6, <2>7
<1>9. GotInv'
  <2> SUFFICES ASSUME NEW r \in Queries, got'[r] # NoQuery
               PROVE  /\ pc'[r] \in Returned /\ pc'[got'[r]] \in Returned
                      /\ \A u \in Queries : got'[u] = got'[r] => u = r
    BY DEF GotInv
  <2>1. CASE r = q
    <3>1. answer \in Queries /\ Queued(q, 1, answer)
      BY <2>1
    <3>2. answer # q => pc[answer] \in Returned
      BY <3>1 DEF AnswerInv, InboxInv
    <3>3. \A u \in Queries : got[u] # answer
      BY <3>1 DEF AnswerInv, InboxInv
    <3> QED  BY <2>1, <3>1, <3>2, <3>3, <1>3, <1>5, <1>6
  <2>2. CASE r # q
    <3>1. got[r] # NoQuery /\ got[r] \in Queries /\ got'[r] = got[r]
      BY <2>2, <1>5
    <3>2. /\ pc[r] \in Returned /\ pc[got[r]] \in Returned
          /\ \A u \in Queries : got[u] = got[r] => u = r
      BY <3>1 DEF AnswerInv, GotInv
    <3>3. answer # got[r]
      BY <3>1 DEF AnswerInv, InboxInv
    <3> QED  BY <2>2, <3>1, <3>2, <3>3, <1>3, <1>5, <1>6
  <2> QED  BY <2>1, <2>2
<1> QED  BY <1>1, <1>7, <1>8, <1>9 DEF AnswerInv

\* The token moves from the upstream to the one socket that has the port.
LEMMA AnswerAnswerInv ==
  ASSUME NEW d \in upstream, IndInv, AnswerInv, Answer(d)  PROVE AnswerInv'
<1> DEFINE x == d.query
<1> USE UdpRelayAssumption DEF IndInv, TypeOK, Answer
<1>1. x \in Queries /\ d.port \in Ports
  OBVIOUS
<1>2. /\ pc[x] \in {"wait"} \cup Returned
      /\ pc[x] = "wait" => port[x] = d.port
      /\ \A e \in upstream : e.query = x => e = d
      /\ \A q \in Queries : got[q] # x /\ \A i \in Nat : ~Queued(q, i, x)
  BY DEF AnswerInv, UpstreamInv
<1>3. \A q, r \in Receivers(d) : q = r
  BY <1>1 DEF Receivers, AnswerInv, PortsUnique
<1>4. \A q \in Receivers(d) : q = x \/ pc[x] \in Returned
  BY <1>1, <1>2 DEF Receivers, AnswerInv, PortsUnique
<1>5. \A q, y \in Queries : \A i \in Nat : Queued(q, i, y)' =>
        Queued(q, i, y) \/ (q \in Receivers(d) /\ y = x /\ i = Len(inbox[q]) + 1)
  <2> SUFFICES ASSUME NEW q \in Queries, NEW y \in Queries, NEW i \in Nat, Queued(q, i, y)',
                      q \in Receivers(d), i # Len(inbox[q]) + 1 \/ y # x
               PROVE  Queued(q, i, y)
    BY DEF Queued
  <2>1. inbox'[q] = Append(inbox[q], x) /\ inbox[q] \in Seq(Queries \cup {Refusal})
    OBVIOUS
  <2> HIDE DEF x, Answer, IndInv
  <2> QED  BY <2>1, <1>1 DEF Queued
<1>6. PortsUnique'
  BY DEF AnswerInv, PortsUnique
<1>7. UpstreamInv'
  BY <1>2, <1>5 DEF AnswerInv, UpstreamInv
<1>8. InboxInv'
  <2> SUFFICES ASSUME NEW q \in Queries, NEW y \in Queries, NEW i \in Nat, Queued(q, i, y)'
               PROVE  /\ IF y = q THEN pc[y] = "wait" ELSE pc[y] \in Returned
                      /\ \A r \in Queries :
                           got[r] # y /\ \A j \in Nat : Queued(r, j, y)' => r = q /\ j = i
    BY DEF InboxInv
  <2>1. CASE y = x
    <3>1. q \in Receivers(d) /\ i = Len(inbox[q]) + 1
      BY <2>1, <1>2, <1>5
    <3>2. IF y = q THEN pc[y] = "wait" ELSE pc[y] \in Returned
      <4>1. y = q => pc[y] = "wait"
        <5>1. SUFFICES ASSUME y = q PROVE pc[y] = "wait"
          OBVIOUS
        <5>2. port[x] # NoPort
          BY <1>1, <2>1, <3>1, <5>1 DEF Receivers
        <5>3. pc[x] \in {"connect", "send", "wait"}
          BY <1>1, <5>2 DEF SocketOpen
        <5> QED  BY <1>2, <2>1, <5>3 DEF Returned, Ended
      <4> QED  BY <2>1, <3>1, <1>4, <4>1
    <3>3. \A r \in Queries : \A j \in Nat : Queued(r, j, y)' => r = q /\ j = i
      BY <2>1, <3>1, <1>2, <1>3, <1>5
    <3> QED  BY <2>1, <3>2, <3>3, <1>2
  <2>2. CASE y # x
    <3>1. Queued(q, i, y)
      BY <2>2, <1>5
    <3>2. \A r \in Queries : \A j \in Nat : Queued(r, j, y)' => Queued(r, j, y)
      BY <2>2, <1>5
    <3> QED  BY <3>1, <3>2 DEF AnswerInv, InboxInv
  <2> QED  BY <2>1, <2>2
<1>9. GotInv'
  BY DEF AnswerInv, GotInv
<1> QED  BY <1>6, <1>7, <1>8, <1>9 DEF AnswerInv

\* A refusal at the head shifts the queue by one; the token of the refused
\* query is gone.
LEMMA RefuseAnswerInv ==
  ASSUME NEW d \in upstream, IndInv, AnswerInv, Refuse(d)  PROVE AnswerInv'
<1> DEFINE shift(q) == IF q \in Receivers(d) /\ pc[q] # "connect" THEN 1 ELSE 0
<1> USE UdpRelayAssumption DEF IndInv, TypeOK, Refuse
<1>1. \A q, y \in Queries : \A i \in Nat : Queued(q, i, y)' =>
        i - shift(q) \in Nat /\ Queued(q, i - shift(q), y)
  <2> SUFFICES ASSUME NEW q \in Queries, NEW y \in Queries, NEW i \in Nat, Queued(q, i, y)'
               PROVE  i - shift(q) \in Nat /\ Queued(q, i - shift(q), y)
    OBVIOUS
  <2>1. CASE shift(q) = 0
    BY <2>1 DEF Queued
  <2>2. CASE shift(q) = 1
    <3>1. inbox'[q] = <<Refusal>> \o inbox[q] /\ inbox[q] \in Seq(Queries \cup {Refusal})
      BY <2>2
    <3>2. i # 1
      BY <3>1 DEF Queued
    <3> HIDE DEF shift, Refuse, IndInv
    <3> QED  BY <2>2, <3>1, <3>2 DEF Queued
  <2> QED  BY <2>1, <2>2
<1>2. PortsUnique'
  BY DEF AnswerInv, PortsUnique
<1>3. UpstreamInv'
  <2> SUFFICES ASSUME NEW e \in upstream, NEW q \in Queries, NEW i \in Nat,
                      Queued(q, i, e.query)'
               PROVE  FALSE
    BY DEF AnswerInv, UpstreamInv
  <2> QED  BY <1>1 DEF AnswerInv, UpstreamInv
<1>4. InboxInv'
  <2> SUFFICES ASSUME NEW q \in Queries, NEW y \in Queries, NEW i \in Nat, Queued(q, i, y)'
               PROVE  /\ IF y = q THEN pc[y] = "wait" ELSE pc[y] \in Returned
                      /\ \A r \in Queries :
                           got[r] # y /\ \A j \in Nat : Queued(r, j, y)' => r = q /\ j = i
    BY DEF InboxInv
  <2>1. Queued(q, i - shift(q), y) /\ i - shift(q) \in Nat
    BY <1>1
  <2>2. /\ IF y = q THEN pc[y] = "wait" ELSE pc[y] \in Returned
        /\ \A r \in Queries : got[r] # y
        /\ \A r \in Queries : \A j \in Nat : Queued(r, j, y) => r = q /\ j = i - shift(q)
    BY <2>1 DEF AnswerInv, InboxInv
  <2>3. ASSUME NEW r \in Queries, NEW j \in Nat, Queued(r, j, y)' PROVE r = q /\ j = i
    <3>1. Queued(r, j - shift(r), y) /\ j - shift(r) \in Nat
      BY <1>1, <2>3
    <3>2. r = q /\ j - shift(r) = i - shift(q)
      BY <2>2, <3>1
    <3> QED  BY <3>2
  <2> QED  BY <2>2, <2>3
<1>5. GotInv'
  BY DEF AnswerInv, GotInv
<1> QED  BY <1>2, <1>3, <1>4, <1>5 DEF AnswerInv

LEMMA StepAnswerInv == IndInv /\ AnswerInv /\ [Next]_vars => AnswerInv'
<1> SUFFICES ASSUME IndInv, AnswerInv, [Next]_vars PROVE AnswerInv'
  OBVIOUS
<1>1. ASSUME NEW q \in Queries,
             Accept(q) \/ Drop(q) \/ Connect(q) \/ Reply(q) \/ Fail(q)
      PROVE  AnswerInv'
  BY <1>1, TaskOnlyAnswerInv
     DEF Accept, Drop, Connect, Reply, Fail, States, Held, Ended, Returned
<1>2. ASSUME NEW q \in Queries, Release(q) PROVE AnswerInv'
  <2> DEFINE s == IF pc[q] = "answered" THEN "doneAnswered" ELSE "doneFailed"
  <2>1. s \in States /\ s \in Returned /\ pc[q] \in Returned
    BY <1>2 DEF Release, States, Ended, Returned
  <2>2. pc' = [pc EXCEPT ![q] = s] /\ UNCHANGED socketVars
    BY <1>2 DEF Release
  <2> HIDE DEF s
  <2> QED  BY <2>1, <2>2, TaskOnlyAnswerInv
<1>3. ASSUME NEW q \in Queries,
             LocalError(q) \/ ReceiveAnswer(q) \/ ReceiveError(q) \/ Timeout(q)
      PROVE  AnswerInv'
  <2>1. CASE ReceiveAnswer(q)
    <3>1. /\ Head(inbox[q]) \in Queries
          /\ Queued(q, 1, Head(inbox[q]))
      BY <2>1 DEF ReceiveAnswer, Refused, IndInv, TypeOK, Queued
    <3> QED  BY <2>1, <3>1, ReturnAnswerInv DEF ReceiveAnswer
  <2>2. CASE LocalError(q) \/ ReceiveError(q) \/ Timeout(q)
    BY <2>2, ReturnAnswerInv DEF LocalError, ReceiveError, Timeout
  <2> QED  BY <1>3, <2>1, <2>2
<1>4. ASSUME NEW q \in Queries, TaskStep(q) PROVE AnswerInv'
  BY <1>4, <1>1, <1>2, <1>3, BindAnswerInv, SendUpAnswerInv DEF TaskStep
<1>5. CASE UNCHANGED vars
  BY <1>5 DEF vars, AnswerInv, PortsUnique, UpstreamInv, InboxInv, GotInv, Queued
<1> QED  BY <1>1, <1>4, <1>5, AnswerAnswerInv, RefuseAnswerInv DEF Next

LEMMA AnswerInvImplies == IndInv /\ AnswerInv => AnswersNotShared
BY DEF IndInv, TypeOK, AnswerInv, GotInv, AnswersNotShared

\* forward_udp, for any number of queries and ports: although nothing compares
\* an answer with its query, no answer reaches two clients, and a client gets
\* a foreign one only from a query whose task had given up its port.
THEOREM AnswersNeverShared == Spec => []AnswersNotShared
BY InitAnswerInv, StepAnswerInv, AnswerInvImplies, IndInvHolds, PTL DEF Spec

-------------------------------------------------------------------------------
\* The counters count.

WasDropped == {q \in Queries : pc[q] = "dropped"}
HasFailed  == {q \in Queries : pc[q] \in {"failed", "doneFailed"}}

CountersInv ==
  /\ IsFiniteSet(WasDropped) /\ dropped = Cardinality(WasDropped)
  /\ IsFiniteSet(HasFailed) /\ failures = Cardinality(HasFailed)

LEMMA StepCountersInv == IndInv /\ CountersInv /\ [Next]_vars => CountersInv'
<1> SUFFICES ASSUME IndInv, CountersInv, [Next]_vars PROVE CountersInv'
  OBVIOUS
<1> USE DEF IndInv, TypeOK, socketVars
<1>1. ASSUME NEW q \in Queries, Drop(q) PROVE CountersInv'
  <2>1. /\ WasDropped' = WasDropped \cup {q} /\ q \notin WasDropped
        /\ HasFailed' = HasFailed
    BY <1>1 DEF Drop, WasDropped, HasFailed
  <2> QED  BY <1>1, <2>1, FS_AddElement DEF Drop, CountersInv
<1>2. ASSUME NEW q \in Queries, Fail(q) PROVE CountersInv'
  <2>1. /\ HasFailed' = HasFailed \cup {q} /\ q \notin HasFailed
        /\ WasDropped' = WasDropped
    BY <1>2 DEF Fail, WasDropped, HasFailed
  <2> QED  BY <1>2, <2>1, FS_AddElement DEF Fail, CountersInv
<1>3. ASSUME WasDropped' = WasDropped, HasFailed' = HasFailed, UNCHANGED <<dropped, failures>>
      PROVE  CountersInv'
  BY <1>3 DEF CountersInv
<1>4. ASSUME NEW q \in Queries,
             Accept(q) \/ Bind(q) \/ Connect(q) \/ SendUp(q) \/ Reply(q) \/ Release(q)
      PROVE  CountersInv'
  <2>1. WasDropped' = WasDropped
    BY <1>4 DEF Accept, Bind, Connect, SendUp, Reply, Release, WasDropped
  <2>2. HasFailed' = HasFailed
    BY <1>4 DEF Accept, Bind, Connect, SendUp, Reply, Release, HasFailed
  <2> QED  BY <1>3, <1>4, <2>1, <2>2 DEF Accept, Bind, Connect, SendUp, Reply, Release
<1>5. ASSUME NEW q \in Queries,
             LocalError(q) \/ ReceiveAnswer(q) \/ ReceiveError(q) \/ Timeout(q)
      PROVE  CountersInv'
  <2>1. WasDropped' = WasDropped /\ HasFailed' = HasFailed
    BY <1>5 DEF LocalError, ReceiveAnswer, ReceiveError, Timeout, Return, WasDropped, HasFailed
  <2> QED  BY <1>3, <1>5, <2>1 DEF LocalError, ReceiveAnswer, ReceiveError, Timeout, Return
<1>6. ASSUME NEW d \in upstream, Answer(d) \/ Refuse(d) PROVE CountersInv'
  BY <1>3, <1>6 DEF Answer, Refuse, WasDropped, HasFailed
<1>7. CASE UNCHANGED vars
  BY <1>3, <1>7 DEF vars, WasDropped, HasFailed
<1> QED  BY <1>1, <1>2, <1>4, <1>5, <1>6, <1>7 DEF Next, TaskStep

\* serve_udp, for any number of queries: dropped_udp and upstream_failures_udp
\* count exactly the queries turned away and those forward_udp gave up on.
THEOREM CountersCount == Spec => []CountersExact
<1>1. Init => CountersInv
  <2> SUFFICES ASSUME Init PROVE CountersInv
    OBVIOUS
  <2>1. WasDropped = {} /\ HasFailed = {}
    BY DEF Init, WasDropped, HasFailed
  <2> QED  BY <2>1, FS_EmptySet DEF Init, CountersInv
<1>2. CountersInv => CountersExact
  BY DEF CountersInv, CountersExact, WasDropped, HasFailed
<1> QED  BY <1>1, <1>2, StepCountersInv, IndInvHolds, PTL DEF Spec
===============================================================================
