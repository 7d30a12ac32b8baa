---------------------------- MODULE TcpRelay_proofs ----------------------------
(***************************************************************************)
(* Proofs about TcpRelay, for any set of connections, any number of slots  *)
(* and any number of queries on a connection.                              *)
(***************************************************************************)
EXTENDS TcpRelay, FiniteSetTheorems, TLAPS

States == {"new", "dropped", "done"} \cup Held

\* The permits missing from the semaphore are the connections whose task has
\* not ended (inflight_tcp, main.rs:430-432).
SlotInv ==
  /\ pc \in [Conns -> States]
  /\ permits \in Nat
  /\ IsFiniteSet(Holders)
  /\ permits + Cardinality(Holders) = MaxTcp

-------------------------------------------------------------------------------
\* The connections holding a slot, under a change of one task's state.

LEMMA HoldersGrow ==
  ASSUME NEW c \in Conns, SlotInv, pc[c] \notin Held, NEW s \in Held, Goto(c, s)
  PROVE  IsFiniteSet(Holders') /\ Cardinality(Holders') = Cardinality(Holders) + 1
<1>1. Holders' = Holders \cup {c} /\ c \notin Holders
  BY DEF Holders, SlotInv, Goto
<1> QED  BY <1>1, FS_AddElement DEF SlotInv

LEMMA HoldersShrink ==
  ASSUME NEW c \in Conns, SlotInv, pc[c] \in Held, NEW s \in States \ Held, Goto(c, s)
  PROVE  IsFiniteSet(Holders') /\ Cardinality(Holders') = Cardinality(Holders) - 1
<1>1. Holders' = Holders \ {c} /\ c \in Holders
  BY DEF Holders, SlotInv, Goto
<1> QED  BY <1>1, FS_RemoveElement DEF SlotInv

LEMMA HeldStep ==
  ASSUME NEW c \in Conns, SlotInv, pc[c] \in Held, NEW s \in Held, Goto(c, s), UNCHANGED permits
  PROVE  SlotInv' /\ \A d \in Conns : StatusOf(pc'[d]) = StatusOf(pc[d])
<1>1. Holders' = Holders /\ pc' \in [Conns -> States]
  BY DEF Holders, SlotInv, Goto, States
<1> QED  BY <1>1 DEF SlotInv, Goto, StatusOf

\* All the steps of a task but its last, and those of the upstream and clients.
InTask(c) ==
  \/ ReadLength(c) \/ GoAway(c) \/ ReadBody(c) \/ BodyTimeout(c)
  \/ Connect(c) \/ ConnectFails(c) \/ WriteRequest(c) \/ AwaitLength(c) \/ AwaitBody(c)
  \/ LinkError(c) \/ LinkTimeout(c) \/ Deliver(c) \/ DeliverFails(c) \/ Fail(c)

Outside(c) ==
  UpstreamAnswers(c) \/ UpstreamCloses(c) \/ ClientSends(c) \/ ClientReads(c) \/ ClientCloses(c)

LEMMA InTaskHolds ==
  ASSUME NEW c \in Conns, InTask(c)
  PROVE  /\ pc[c] \in Held /\ UNCHANGED permits
         /\ \E s \in Held : Goto(c, s)
<1> USE DEF Held, Exchanging
<1>1. CASE ReadLength(c) \/ GoAway(c) \/ ReadBody(c) \/ BodyTimeout(c)
  BY <1>1 DEF ReadLength, GoAway, ReadBody, BodyTimeout
<1>2. CASE Connect(c) \/ ConnectFails(c) \/ WriteRequest(c) \/ AwaitLength(c) \/ AwaitBody(c)
  BY <1>2 DEF Connect, ConnectFails, WriteRequest, AwaitLength, AwaitBody
<1>3. CASE LinkError(c) \/ LinkTimeout(c)
  BY <1>3 DEF LinkError, LinkTimeout, AfterError, AfterTimeout
<1>4. CASE Deliver(c) \/ DeliverFails(c) \/ Fail(c)
  BY <1>4 DEF Deliver, DeliverFails, Fail
<1> QED  BY <1>1, <1>2, <1>3, <1>4 DEF InTask

LEMMA OutsideKeepsTasks ==
  ASSUME NEW c \in Conns, Outside(c)  PROVE UNCHANGED <<pc, permits>>
BY DEF Outside, UpstreamAnswers, UpstreamCloses, ClientSends, ClientReads, ClientCloses

-------------------------------------------------------------------------------
\* No slot leaks, step by step.

LEMMA InitSlotInv == Init => SlotInv
<1> SUFFICES ASSUME Init PROVE SlotInv
  OBVIOUS
<1>1. Holders = {}
  BY DEF Init, Holders, Held, Exchanging
<1> QED  BY <1>1, FS_EmptySet, TcpRelayAssumption DEF Init, SlotInv, States

LEMMA NextSlotInv == SlotInv /\ [Next]_vars => SlotInv'
<1> SUFFICES ASSUME SlotInv, [Next]_vars PROVE SlotInv'
  OBVIOUS
<1> USE TcpRelayAssumption
<1>0. Cardinality(Holders) \in Nat
  BY FS_CardinalityType DEF SlotInv
<1>1. ASSUME NEW c \in Conns, Accept(c) PROVE SlotInv'
  <2>1. IsFiniteSet(Holders') /\ Cardinality(Holders') = Cardinality(Holders) + 1
    BY <1>1, HoldersGrow DEF Accept, Held, Exchanging
  <2> QED  BY <1>0, <1>1, <2>1 DEF Accept, Goto, SlotInv, States, Held
<1>2. ASSUME NEW c \in Conns, Drop(c) PROVE SlotInv'
  <2>1. Holders' = Holders
    BY <1>2 DEF Drop, Goto, Holders, Held, Exchanging, SlotInv
  <2> QED  BY <1>2, <2>1 DEF Drop, Goto, SlotInv, States
<1>3. ASSUME NEW c \in Conns, InTask(c) PROVE SlotInv'
  BY <1>3, InTaskHolds, HeldStep
<1>4. ASSUME NEW c \in Conns, Release(c) PROVE SlotInv'
  <2>1. IsFiniteSet(Holders') /\ Cardinality(Holders') = Cardinality(Holders) - 1
    BY <1>4, HoldersShrink DEF Release, States, Held, Exchanging
  <2> QED  BY <1>0, <1>4, <2>1 DEF Release, Freed, Goto, SlotInv, States
<1>5. ASSUME NEW c \in Conns, Outside(c) PROVE SlotInv'
  BY <1>5, OutsideKeepsTasks DEF SlotInv, Holders
<1>6. CASE UNCHANGED vars
  BY <1>6 DEF vars, SlotInv, Holders
<1> QED  BY <1>1, <1>2, <1>3, <1>4, <1>5, <1>6 DEF Next, TaskStep, InTask, Outside

LEMMA SlotInvHolds == Spec => []SlotInv
BY InitSlotInv, NextSlotInv, PTL DEF Spec

-------------------------------------------------------------------------------
\* The relay implements Admission.

\* The instance carries a copy of Cardinality of its own.
LEMMA SameCardinality ==
  ASSUME NEW S  PROVE Promise!Cardinality(S) = Cardinality(S)
BY DEF Promise!Cardinality, Promise!IsFiniteSet, Cardinality, IsFiniteSet

LEMMA InflightAreHolders ==
  ASSUME SlotInv  PROVE Promise!Inflight = Holders
<1>1. \A s \in States : StatusOf(s) = "inflight" <=> s \in Held
  BY DEF States, StatusOf, Held, Exchanging
<1> QED  BY <1>1 DEF Promise!Inflight, Holders, SlotInv

LEMMA StepImplements ==
  ASSUME SlotInv, [Next]_vars
  PROVE  [Promise!Next]_[c \in Conns |-> StatusOf(pc[c])]
<1> DEFINE stutter == \A d \in Conns : StatusOf(pc'[d]) = StatusOf(pc[d])
<1>0. Cardinality(Holders) \in Nat /\ MaxTcp \in Nat
  BY FS_CardinalityType, TcpRelayAssumption DEF SlotInv
<1>1. ASSUME NEW c \in Conns, Accept(c) PROVE Promise!Admit(c)
  <2>1. Cardinality(Holders) < MaxTcp
    BY <1>0, <1>1 DEF Accept, SlotInv
  <2>2. StatusOf(pc[c]) = "new"
    BY <1>1 DEF Accept, StatusOf, Held, Exchanging
  <2>3. [d \in Conns |-> StatusOf(pc'[d])]
          = [[d \in Conns |-> StatusOf(pc[d])] EXCEPT ![c] = "inflight"]
    BY <1>1 DEF Accept, Goto, StatusOf, Held, SlotInv
  <2> QED  BY <2>1, <2>2, <2>3, InflightAreHolders, SameCardinality DEF Promise!Admit
<1>2. ASSUME NEW c \in Conns, Drop(c) PROVE Promise!TurnAway(c)
  <2>1. Cardinality(Holders) = MaxTcp
    BY <1>0, <1>2 DEF Drop, SlotInv
  <2>2. StatusOf(pc[c]) = "new"
    BY <1>2 DEF Drop, StatusOf, Held, Exchanging
  <2>3. [d \in Conns |-> StatusOf(pc'[d])]
          = [[d \in Conns |-> StatusOf(pc[d])] EXCEPT ![c] = "dropped"]
    BY <1>2 DEF Drop, Goto, StatusOf, Held, Exchanging, SlotInv
  <2> QED  BY <2>1, <2>2, <2>3, InflightAreHolders, SameCardinality DEF Promise!TurnAway
<1>3. ASSUME NEW c \in Conns, Release(c) PROVE Promise!Finish(c)
  <2>1. StatusOf(pc[c]) = "inflight"
    BY <1>3 DEF Release, StatusOf, Held
  <2>2. [d \in Conns |-> StatusOf(pc'[d])]
          = [[d \in Conns |-> StatusOf(pc[d])] EXCEPT ![c] = "finished"]
    BY <1>3 DEF Release, Goto, StatusOf, Held, Exchanging, SlotInv
  <2> QED  BY <2>1, <2>2 DEF Promise!Finish
<1>4. ASSUME NEW c \in Conns, InTask(c) PROVE stutter
  BY <1>4, InTaskHolds, HeldStep
<1>5. ASSUME NEW c \in Conns, Outside(c) PROVE stutter
  BY <1>5, OutsideKeepsTasks
<1>6. CASE UNCHANGED vars
  BY <1>6 DEF vars
<1>7. stutter => UNCHANGED [c \in Conns |-> StatusOf(pc[c])]
  OBVIOUS
<1> HIDE DEF stutter
<1>8. ASSUME NEW c \in Conns, Accept(c) \/ Drop(c) \/ Release(c) PROVE Promise!Next
  BY <1>8, <1>1, <1>2, <1>3 DEF Promise!Next
<1> QED  BY <1>4, <1>5, <1>6, <1>7, <1>8 DEF Next, TaskStep, InTask, Outside

\* main.rs:32-34, for any number of connections and slots: at most MaxTcp
\* connections are served at once, one is turned away only while that many are,
\* and a connection that ends, in whatever way, gives its slot back once.
THEOREM TcpKeepsAdmission == Spec => KeepsAdmission
<1>1. Init => Promise!Init
  BY DEF Init, Promise!Init, StatusOf, Held, Exchanging
<1> QED  BY <1>1, StepImplements, SlotInvHolds, PTL DEF Spec, KeepsAdmission, Promise!Spec
-------------------------------------------------------------------------------
\* Each connection by itself: what its client was told, what its upstream
\* connection carries, and how often its query was written.

Links == [state : {"none", "open", "closed"}, asked : Seq(Nat), ready : Seq(Nat)]

Shape ==
  /\ pc \in [Conns -> States]
  /\ query \in [Conns -> Nat] /\ got \in [Conns -> Nat] /\ tries \in [Conns -> Nat]
  /\ reused \in [Conns -> BOOLEAN]
  /\ link \in [Conns -> Links]
  /\ answers \in [Conns -> Seq(Nat)]

\* The answers are those of the queries before the one in hand.
Told(c) ==
  /\ answers[c] = [i \in 1..Len(answers[c]) |-> i]
  /\ pc[c] = "new" => query[c] = 0
  /\ pc[c] \in {"new", "idle"} => Len(answers[c]) = query[c]
  /\ pc[c] \in Exchanging \cup {"body", "deliver"} => Len(answers[c]) = query[c] - 1
  /\ pc[c] = "deliver" => got[c] = query[c]

\* Only while its answer is awaited is there a query on the upstream connection,
\* and it is the one in hand.
Carried(c) ==
  /\ link[c].asked = <<>> \/ (link[c].asked = <<query[c]>> /\ link[c].ready = <<>>)
  /\ link[c].ready = <<>> \/ link[c].ready = <<query[c]>>
  /\ pc[c] \notin {"await", "awaitBody"} => link[c].asked = <<>> /\ link[c].ready = <<>>
  /\ pc[c] = "awaitBody" => link[c].ready # <<>>

\* A second attempt is made on a fresh connection only, and a third one never.
Tried(c) ==
  /\ tries[c] <= 2
  /\ pc[c] = "connect" => ~reused[c] /\ tries[c] <= 1
  /\ pc[c] = "request" => tries[c] <= 1 /\ (reused[c] => tries[c] = 0)
  /\ pc[c] \in {"await", "awaitBody"} => (reused[c] => tries[c] = 1)

InOrder(c) == Told(c) /\ Carried(c) /\ Tried(c)

QueryInv == Shape /\ \A c \in Conns : InOrder(c)

\* For the links that hold nothing.
LEMMA EmptySeq == <<>> \in Seq(Nat)
OBVIOUS

\* QueryInv is inductive: it holds at the start and every step keeps it.
LEMMA InitQueryInv == Init => QueryInv
<1> SUFFICES ASSUME Init PROVE QueryInv
  OBVIOUS
<1>1. NoLink \in Links
  BY DEF NoLink, Links
<1>2. Shape
  BY <1>1 DEF Init, Shape, States
<1>3. ASSUME NEW c \in Conns PROVE InOrder(c)
  <2>1. Len(answers[c]) = 0 /\ answers[c] = [i \in 1..Len(answers[c]) |-> i]
    BY DEF Init
  <2> QED  BY <2>1 DEF Init, InOrder, Told, Carried, Tried, Exchanging, NoLink
<1> QED  BY <1>2, <1>3 DEF QueryInv

\* A step of one connection leaves the others as they are.
Step(c) == Accept(c) \/ Drop(c) \/ InTask(c) \/ Release(c) \/ Outside(c)

Same(d) ==
  /\ pc'[d] = pc[d] /\ query'[d] = query[d] /\ got'[d] = got[d] /\ tries'[d] = tries[d]
  /\ reused'[d] = reused[d] /\ link'[d] = link[d] /\ answers'[d] = answers[d]

LEMMA OthersSame ==
  ASSUME Shape, NEW c \in Conns, NEW d \in Conns \ {c}, Step(c)
  PROVE  Same(d)
<1> USE DEF Goto, taskVars, Shape, Same
<1>1. CASE Accept(c) \/ Drop(c) \/ Release(c)
  BY <1>1 DEF Accept, Drop, Release
<1>2. CASE ReadLength(c) \/ GoAway(c) \/ ReadBody(c) \/ BodyTimeout(c)
  BY <1>2 DEF ReadLength, GoAway, ReadBody, BodyTimeout
<1>3. CASE Connect(c) \/ ConnectFails(c) \/ WriteRequest(c) \/ AwaitLength(c) \/ AwaitBody(c)
  BY <1>3 DEF Connect, ConnectFails, WriteRequest, AwaitLength, AwaitBody
<1>4. CASE LinkError(c) \/ LinkTimeout(c)
  BY <1>4 DEF LinkError, LinkTimeout
<1>5. CASE Deliver(c) \/ DeliverFails(c) \/ Fail(c)
  BY <1>5 DEF Deliver, DeliverFails, Fail
<1>6. CASE Outside(c)
  BY <1>6 DEF Outside, UpstreamAnswers, UpstreamCloses, ClientSends, ClientReads, ClientCloses
<1> QED  BY <1>1, <1>2, <1>3, <1>4, <1>5, <1>6 DEF Step, InTask

\* InOrder of a connection depends on nothing of the others.
LEMMA SameInOrder ==
  ASSUME NEW d \in Conns, InOrder(d), Same(d)  PROVE InOrder(d)'
BY DEF InOrder, Told, Carried, Tried, Same

-------------------------------------------------------------------------------
\* The connection that makes the step.

LEMMA AdmitKeeps ==
  ASSUME QueryInv, NEW c \in Conns, Accept(c) \/ Drop(c)  PROVE Shape' /\ InOrder(c)'
<1> USE DEF QueryInv, Shape, Accept, Drop, Goto, taskVars
<1>1. Shape'
  BY DEF States, Held
<1>2. Told(c)' /\ Carried(c)' /\ Tried(c)'
  BY DEF InOrder, Told, Carried, Tried, Exchanging
<1> QED  BY <1>1, <1>2 DEF InOrder

LEMMA ReadKeeps ==
  ASSUME QueryInv, NEW c \in Conns,
         ReadLength(c) \/ GoAway(c) \/ ReadBody(c) \/ BodyTimeout(c)
  PROVE  Shape' /\ InOrder(c)'
<1> USE DEF QueryInv, Shape, Goto, taskVars
<1>1. CASE ReadLength(c)
  <2>1. Shape'
    BY <1>1 DEF ReadLength, States, Held
  <2>2. /\ pc[c] = "idle" /\ pc'[c] = "body" /\ query'[c] = query[c] + 1
        /\ UNCHANGED <<answers, tries, link>>
    BY <1>1 DEF ReadLength
  <2>3. Told(c)'
    BY <2>2 DEF InOrder, Told, Exchanging
  <2>4. Carried(c)' /\ Tried(c)'
    BY <2>2 DEF InOrder, Carried, Tried
  <2> QED  BY <2>1, <2>3, <2>4 DEF InOrder
<1>2. CASE GoAway(c) \/ BodyTimeout(c)
  <2>1. Shape'
    BY <1>2 DEF GoAway, BodyTimeout, States, Held
  <2>2. Told(c)' /\ Carried(c)' /\ Tried(c)'
    BY <1>2 DEF GoAway, BodyTimeout, InOrder, Told, Carried, Tried, Exchanging
  <2> QED  BY <2>1, <2>2 DEF InOrder
<1>3. CASE ReadBody(c)
  <2>1. Shape'
    BY <1>3 DEF ReadBody, States, Held, Exchanging
  <2>2. /\ pc[c] = "body" /\ tries'[c] = 0 /\ UNCHANGED <<answers, query, link>>
        /\ \/ pc'[c] = "connect" /\ reused'[c] = FALSE
           \/ pc'[c] = "request"
    BY <1>3 DEF ReadBody
  <2>3. Told(c)'
    BY <2>2 DEF InOrder, Told, Exchanging
  <2>4. Carried(c)'
    BY <2>2 DEF InOrder, Carried
  <2>5. Tried(c)'
    BY <2>2 DEF Tried
  <2> QED  BY <2>1, <2>3, <2>4, <2>5 DEF InOrder
<1> QED  BY <1>1, <1>2, <1>3

\* A record of an upstream connection with some of its fields replaced.
LEMMA LinkFields ==
  ASSUME NEW l \in Links, NEW q \in Seq(Nat)
  PROVE  /\ [l EXCEPT !.asked = q] \in Links
         /\ [l EXCEPT !.asked = q].asked = q /\ [l EXCEPT !.asked = q].ready = l.ready
         /\ [l EXCEPT !.ready = q] \in Links
         /\ [l EXCEPT !.ready = q].asked = l.asked /\ [l EXCEPT !.ready = q].ready = q
BY DEF Links

LEMMA ExchangeKeeps ==
  ASSUME QueryInv, NEW c \in Conns,
         Connect(c) \/ ConnectFails(c) \/ WriteRequest(c) \/ AwaitLength(c) \/ AwaitBody(c)
  PROVE  Shape' /\ InOrder(c)'
<1> USE DEF QueryInv, Shape, Goto, taskVars
<1>1. CASE Connect(c)
  <2>0. FreshLink.asked = <<>> /\ FreshLink.ready = <<>> /\ FreshLink \in Links
    BY EmptySeq DEF FreshLink, NoLink, Links
  <2>1. Shape'
    BY <1>1, <2>0 DEF Connect, States, Held, Exchanging
  <2>2. Told(c)' /\ Carried(c)' /\ Tried(c)'
    BY <1>1, <2>0 DEF Connect, InOrder, Told, Carried, Tried, Exchanging
  <2> QED  BY <2>1, <2>2 DEF InOrder
<1>2. CASE ConnectFails(c)
  <2>1. Shape'
    BY <1>2 DEF ConnectFails, States, Held
  <2>2. Told(c)' /\ Carried(c)' /\ Tried(c)'
    BY <1>2 DEF ConnectFails, InOrder, Told, Carried, Tried, Exchanging
  <2> QED  BY <2>1, <2>2 DEF InOrder
<1>3. CASE WriteRequest(c)
  <2>1. link[c].asked = <<>> /\ link[c].ready = <<>>
    BY <1>3 DEF WriteRequest, InOrder, Carried
  <2> DEFINE new == IF link[c].state = "open" THEN Append(link[c].asked, query[c])
                                              ELSE link[c].asked
  <2>2. new \in {<<>>, <<query[c]>>} /\ new \in Seq(Nat)
    BY <2>1
  <2>a. link' = [link EXCEPT ![c] = [link[c] EXCEPT !.asked = new]]
    BY <1>3 DEF WriteRequest
  <2> HIDE DEF new
  <2>b. [link[c] EXCEPT !.asked = new] \in Links
    BY <2>2, LinkFields
  <2>c. /\ pc' = [pc EXCEPT ![c] = "await"] /\ tries' = [tries EXCEPT ![c] = @ + 1]
        /\ UNCHANGED <<query, got, reused, answers>>
    BY <1>3 DEF WriteRequest
  <2>d. link' \in [Conns -> Links] /\ pc' \in [Conns -> States]
    BY <2>a, <2>b, <2>c DEF States, Held, Exchanging
  <2>e. tries' \in [Conns -> Nat]
    BY <2>c
  <2>3. Shape'
    BY <2>c, <2>d, <2>e
  <2>4. link'[c].asked \in {<<>>, <<query[c]>>} /\ link'[c].ready = <<>>
    BY <2>1, <2>2, <2>a, LinkFields
  <2>5. Told(c)' /\ Tried(c)'
    BY <1>3 DEF WriteRequest, InOrder, Told, Tried, Exchanging
  <2>6. Carried(c)'
    BY <1>3, <2>4 DEF WriteRequest, Carried
  <2> QED  BY <2>3, <2>5, <2>6 DEF InOrder
<1>4. CASE AwaitLength(c)
  <2>1. Shape'
    BY <1>4 DEF AwaitLength, States, Held, Exchanging
  <2>2. Told(c)' /\ Carried(c)' /\ Tried(c)'
    BY <1>4 DEF AwaitLength, InOrder, Told, Carried, Tried, Exchanging
  <2> QED  BY <2>1, <2>2 DEF InOrder
<1>5. CASE AwaitBody(c)
  <2>1. link[c].asked = <<>> /\ link[c].ready = <<query[c]>>
    BY <1>5 DEF AwaitBody, InOrder, Carried
  <2>2. Head(link[c].ready) = query[c] /\ Tail(link[c].ready) = <<>>
    BY <2>1
  <2>a. link' = [link EXCEPT ![c] = [link[c] EXCEPT !.ready = <<>>]]
    BY <1>5, <2>2 DEF AwaitBody
  <2>b. [link[c] EXCEPT !.ready = <<>>] \in Links
    BY EmptySeq, LinkFields
  <2>3. Shape'
    BY <1>5, <2>2, <2>a, <2>b DEF AwaitBody, States, Held
  <2>4. link'[c].asked = <<>> /\ link'[c].ready = <<>>
    BY <2>1, <2>a, LinkFields
  <2>5. Told(c)' /\ Tried(c)'
    BY <1>5, <2>2 DEF AwaitBody, InOrder, Told, Tried, Exchanging
  <2>6. Carried(c)'
    BY <1>5, <2>4 DEF AwaitBody, Carried
  <2> QED  BY <2>3, <2>5, <2>6 DEF InOrder
<1> QED  BY <1>1, <1>2, <1>3, <1>4, <1>5

LEMMA DropLinkKeeps ==
  ASSUME QueryInv, NEW c \in Conns, LinkError(c) \/ LinkTimeout(c)
  PROVE  Shape' /\ InOrder(c)'
<1> USE DEF QueryInv, Shape, Goto, taskVars
<1>1. NoLink \in Links
  BY DEF NoLink, Links
<1>2. CASE LinkError(c)
  <2>1. Shape'
    BY <1>1, <1>2 DEF LinkError, AfterError, States, Held, Exchanging
  <2>2. Told(c)' /\ Carried(c)' /\ Tried(c)'
    BY <1>2 DEF LinkError, AfterError, InOrder, Told, Carried, Tried, Exchanging, NoLink
  <2> QED  BY <2>1, <2>2 DEF InOrder
<1>3. CASE LinkTimeout(c)
  <2>1. Shape'
    BY <1>1, <1>3 DEF LinkTimeout, AfterTimeout, States, Held
  <2>2. Told(c)' /\ Carried(c)' /\ Tried(c)'
    BY <1>3 DEF LinkTimeout, AfterTimeout, InOrder, Told, Carried, Tried, Exchanging, NoLink
  <2> QED  BY <2>1, <2>2 DEF InOrder
<1> QED  BY <1>2, <1>3

\* Appending the next number to 1, ..., n.
LEMMA NextNumber ==
  ASSUME NEW s \in Seq(Nat), NEW n \in Nat, s = [i \in 1..Len(s) |-> i], n = Len(s) + 1
  PROVE  /\ Append(s, n) = [i \in 1..n |-> i]
         /\ Len(Append(s, n)) = n /\ Append(s, n) \in Seq(Nat)
OBVIOUS

LEMMA AnswerKeeps ==
  ASSUME QueryInv, NEW c \in Conns,
         Deliver(c) \/ DeliverFails(c) \/ Fail(c) \/ Release(c)
  PROVE  Shape' /\ InOrder(c)'
<1> USE DEF QueryInv, Shape, Goto, taskVars
<1>1. CASE Deliver(c)
  <2>1. got[c] = query[c] /\ Len(answers[c]) = query[c] - 1
    BY <1>1 DEF Deliver, InOrder, Told
  <2>2. /\ Append(answers[c], got[c]) = [i \in 1..query[c] |-> i]
        /\ Len(Append(answers[c], got[c])) = query[c]
        /\ Append(answers[c], got[c]) \in Seq(Nat)
    BY <2>1, NextNumber DEF InOrder, Told
  <2>3. Shape'
    BY <1>1, <2>2 DEF Deliver, States, Held
  <2>4. answers'[c] = Append(answers[c], got[c]) /\ query'[c] = query[c] /\ pc'[c] = "idle"
    BY <1>1 DEF Deliver
  <2>5. Told(c)'
    BY <2>2, <2>4 DEF Told, Exchanging
  <2>6. Carried(c)' /\ Tried(c)'
    BY <1>1 DEF Deliver, InOrder, Carried, Tried
  <2> QED  BY <2>3, <2>5, <2>6 DEF InOrder
<1>2. CASE DeliverFails(c) \/ Fail(c)
  <2>1. Shape'
    BY <1>2 DEF DeliverFails, Fail, States, Held
  <2>2. Told(c)' /\ Carried(c)' /\ Tried(c)'
    BY <1>2 DEF DeliverFails, Fail, InOrder, Told, Carried, Tried, Exchanging
  <2> QED  BY <2>1, <2>2 DEF InOrder
<1>3. CASE Release(c)
  <2>1. NoLink \in Links
    BY DEF NoLink, Links
  <2>2. Shape'
    BY <1>3, <2>1 DEF Release, States
  <2>3. Told(c)' /\ Carried(c)' /\ Tried(c)'
    BY <1>3 DEF Release, InOrder, Told, Carried, Tried, Exchanging, NoLink
  <2> QED  BY <2>2, <2>3 DEF InOrder
<1> QED  BY <1>1, <1>2, <1>3

LEMMA OutsideKeeps ==
  ASSUME QueryInv, NEW c \in Conns, Outside(c)  PROVE Shape' /\ InOrder(c)'
<1> USE DEF QueryInv, Shape
<1>1. CASE UpstreamAnswers(c)
  <2>1. PICK i \in DOMAIN link[c].asked :
          link' = [link EXCEPT
            ![c].ready = Append(@, link[c].asked[i]),
            ![c].asked = SubSeq(@, 1, i - 1) \o SubSeq(@, i + 1, Len(@))]
    BY <1>1 DEF UpstreamAnswers
  <2>2. link[c].asked = <<query[c]>> /\ link[c].ready = <<>> /\ i = 1
    BY DEF InOrder, Carried
  <2>3. /\ SubSeq(<<query[c]>>, 1, 0) \o SubSeq(<<query[c]>>, 2, Len(<<query[c]>>)) = <<>>
        /\ Append(<<>>, query[c]) = <<query[c]>> /\ <<query[c]>> \in Seq(Nat)
    OBVIOUS
  <2> DEFINE l == [link[c] EXCEPT !.ready = <<query[c]>>]
  <2>4. link' = [link EXCEPT ![c] = [l EXCEPT !.asked = <<>>]]
    <3>1. Append(link[c].ready, link[c].asked[i]) = <<query[c]>>
      BY <2>2, <2>3
    <3>2. SubSeq(link[c].asked, 1, i - 1) \o SubSeq(link[c].asked, i + 1, Len(link[c].asked)) = <<>>
      BY <2>2, <2>3
    <3> QED  BY <2>1, <3>1, <3>2
  <2>a. l \in Links /\ l.ready = <<query[c]>>
    BY <2>3, LinkFields
  <2> HIDE DEF l
  <2>b. [l EXCEPT !.asked = <<>>] \in Links
    BY <2>a, EmptySeq, LinkFields
  <2>5. UNCHANGED <<pc, query, got, tries, reused, answers>>
    BY <1>1 DEF UpstreamAnswers, taskVars
  <2>6. Shape'
    BY <2>4, <2>5, <2>b
  <2>7. link'[c].asked = <<>> /\ link'[c].ready = <<query[c]>>
    BY <2>4, <2>a, LinkFields
  <2>8. Told(c)' /\ Tried(c)'
    BY <2>5 DEF InOrder, Told, Tried
  <2>9. Carried(c)'
    BY <2>2, <2>5, <2>7 DEF InOrder, Carried
  <2> QED  BY <2>6, <2>8, <2>9 DEF InOrder
<1>2. CASE UpstreamCloses(c)
  <2>1. UNCHANGED <<pc, query, got, tries, reused, answers>>
    BY <1>2 DEF UpstreamCloses, taskVars
  <2> DEFINE l == [link[c] EXCEPT !.state = "closed"]
  <2>2. link' = [link EXCEPT ![c] = [l EXCEPT !.asked = <<>>]]
    BY <1>2 DEF UpstreamCloses
  <2>a. l \in Links /\ l.ready = link[c].ready
    BY DEF Links
  <2> HIDE DEF l
  <2>b. [l EXCEPT !.asked = <<>>] \in Links
    BY <2>a, EmptySeq, LinkFields
  <2>c. link'[c].asked = <<>> /\ link'[c].ready = link[c].ready
    BY <2>2, <2>a, LinkFields
  <2>3. Shape'
    BY <2>1, <2>2, <2>b
  <2>4. Told(c)' /\ Tried(c)'
    BY <2>1 DEF InOrder, Told, Tried
  <2>5. Carried(c)'
    BY <2>1, <2>c DEF InOrder, Carried
  <2> QED  BY <2>3, <2>4, <2>5 DEF InOrder
<1>3. CASE ClientSends(c) \/ ClientReads(c) \/ ClientCloses(c)
  <2>1. UNCHANGED <<pc, query, got, tries, reused, link, answers>>
    BY <1>3 DEF ClientSends, ClientReads, ClientCloses, taskVars
  <2> QED  BY <2>1 DEF InOrder, Told, Carried, Tried
<1> QED  BY <1>1, <1>2, <1>3 DEF Outside

\* Every step is one connection's, and leaves the others as they are.
LEMMA NextQueryInv == QueryInv /\ [Next]_vars => QueryInv'
<1> SUFFICES ASSUME QueryInv, [Next]_vars PROVE QueryInv'
  OBVIOUS
<1>1. ASSUME NEW c \in Conns, Step(c) PROVE QueryInv'
  <2>1. Shape' /\ InOrder(c)'
    BY <1>1, AdmitKeeps, ReadKeeps, ExchangeKeeps, DropLinkKeeps, AnswerKeeps, OutsideKeeps
       DEF Step, InTask
  <2>2. ASSUME NEW d \in Conns \ {c} PROVE InOrder(d)'
    BY <1>1, OthersSame, SameInOrder DEF QueryInv
  <2> QED  BY <2>1, <2>2 DEF QueryInv
<1>2. CASE UNCHANGED vars
  BY <1>2 DEF vars, taskVars, QueryInv, Shape, InOrder, Told, Carried, Tried
<1> QED  BY <1>1, <1>2 DEF Next, TaskStep, Step, InTask, Outside

LEMMA QueryInvHolds == Spec => []QueryInv
BY InitQueryInv, NextQueryInv, PTL DEF Spec

\* main.rs:972-973, for any number of connections and of queries pipelined on
\* one: the client is told the answers to its queries, each once and in order.
THEOREM TcpAnswersInOrder == Spec => []AnswersInOrder
<1>1. QueryInv => AnswersInOrder
  BY DEF QueryInv, InOrder, Told, AnswersInOrder
<1> QED  BY <1>1, QueryInvHolds, PTL

\* main.rs:1001-1004, for the same: at most one retry, and never a second query
\* on an upstream connection that still owes an answer.
THEOREM TcpUpstreamUse == Spec => []UpstreamUse
<1>1. ASSUME QueryInv PROVE UpstreamUse
  <2> SUFFICES ASSUME NEW c \in Conns
               PROVE  /\ tries[c] <= 2
                      /\ Len(link[c].asked) + Len(link[c].ready) <= 1
                      /\ pc[c] \in {"idle", "connect"} => link[c].asked = <<>> /\ link[c].ready = <<>>
    BY DEF UpstreamUse
  <2>1. Len(<<>>) = 0 /\ Len(<<query[c]>>) = 1
    OBVIOUS
  <2>2. \/ link[c].asked = <<>> /\ link[c].ready \in {<<>>, <<query[c]>>}
        \/ link[c].asked = <<query[c]>> /\ link[c].ready = <<>>
    BY <1>1 DEF QueryInv, InOrder, Carried
  <2>3. /\ Len(link[c].asked) \in {0, 1} /\ Len(link[c].ready) \in {0, 1}
        /\ Len(link[c].asked) = 0 \/ Len(link[c].ready) = 0
    BY <2>1, <2>2, Zenon
  <2>4. ASSUME NEW a \in {0, 1}, NEW b \in {0, 1}, a = 0 \/ b = 0 PROVE a + b <= 1
    BY <2>4
  <2>5. Len(link[c].asked) + Len(link[c].ready) <= 1
    BY <2>3, <2>4, Zenon
  <2> QED  BY <1>1, <2>5 DEF QueryInv, InOrder, Carried, Tried
<1> QED  BY <1>1, QueryInvHolds, PTL
===============================================================================
