------------------------ MODULE IngestGatewayProofs ------------------------
(***************************************************************************)
(* The gateway implements Spool, for any number of handlers and any        *)
(* batches: no interleaving, failed publish, late write or crash makes an  *)
(* agent give up a batch the backbone does not own whole.                  *)
(*                                                                         *)
(* Spool!Forget asks that every record is on the topic under the agent's   *)
(* estate.  The handler only knows that it has counted every record, so    *)
(* what is inductive is that the records counted are on the topic          *)
(* (CountedIsOnTopic) under a tenant that is the estate (StampIsEstate).   *)
(***************************************************************************)
EXTENDS IngestGateway, TLAPS

\* What a handler past its check will stamp records with is where the registry
\* placed the agent, and so is what the roster may say next.
StampIsEstate ==
  /\ \A a \in Agents : roster[a] \in {Estate[a], NoTenant}
  /\ \A h \in Requests : request[h].stage # "idle" =>
       /\ request[h].batch \in Batches
       /\ request[h].tenant = Estate[AgentOf[request[h].batch]]

Counting == Stages \ {"idle", "returning"}

\* The records a handler has counted as taken are on the topic.
CountedIsOnTopic ==
  \A h \in Requests : request[h].stage \in Counting =>
    /\ request[h].written <= Len(RecordsOf[request[h].batch])
    /\ \A i \in 1 .. request[h].written :
         Stamped(request[h].batch, i, request[h].tenant) \in topic

Inv ==
  /\ request \in [Requests -> Request]
  /\ DOMAIN roster = Agents
  /\ late \subseteq Record
  /\ StampIsEstate
  /\ CountedIsOnTopic

LEMMA IdleIsRequest == Idle \in Request /\ Idle.stage = "idle"
  BY DEF Idle, Request, Stages

LEMMA Initially == Init => Inv
  BY IdleIsRequest DEF Init, Inv, Stages, StampIsEstate, CountedIsOnTopic, Counting, Record

(***************************************************************************)
(* A handler's step keeps the invariant when what the handler becomes      *)
(* meets its two parts: the other handlers do not notice, because the      *)
(* topic only grows.                                                       *)
(***************************************************************************)
LEMMA Stepping ==
  ASSUME Inv, NEW h \in Requests, NEW new \in Request, Step(h, new),
         topic \subseteq topic', late' \subseteq Record, roster' = roster,
         new.stage # "idle" => /\ new.batch \in Batches
                               /\ new.tenant = Estate[AgentOf[new.batch]],
         new.stage \in Counting =>
           /\ new.written <= Len(RecordsOf[new.batch])
           /\ \A i \in 1 .. new.written : Stamped(new.batch, i, new.tenant) \in topic'
  PROVE  Inv'
<1>1. /\ request' \in [Requests -> Request]
      /\ request'[h] = new
      /\ \A k \in Requests : k # h => request'[k] = request[k]
  BY DEF Inv, Step
<1>2. StampIsEstate'
  BY <1>1 DEF Inv, StampIsEstate
<1>3. CountedIsOnTopic'
  <2> SUFFICES ASSUME NEW k \in Requests, request'[k].stage \in Counting
               PROVE  /\ request'[k].written <= Len(RecordsOf[request'[k].batch])
                      /\ \A i \in 1 .. request'[k].written :
                           Stamped(request'[k].batch, i, request'[k].tenant) \in topic'
    BY DEF CountedIsOnTopic, Stamped
  <2>1. CASE k = h
    BY <2>1, <1>1
  <2>2. CASE k # h
    BY <2>2, <1>1 DEF Inv, CountedIsOnTopic
  <2> QED BY <2>1, <2>2
<1> QED BY <1>1, <1>2, <1>3 DEF Inv

\* A handler that has passed its check has a batch of known length and sizes.
LEMMA PastCheck ==
  ASSUME Inv, NEW h \in Requests, request[h].stage # "idle"
  PROVE  /\ request[h].batch \in Batches
         /\ AgentOf[request[h].batch] \in Agents
         /\ request[h].tenant = Estate[AgentOf[request[h].batch]]
         /\ Len(RecordsOf[request[h].batch]) \in Nat
         /\ Body[request[h].batch] \in Nat
         /\ Holding(request[h].batch) \in Nat
         /\ Reserving(request[h].batch) \in Nat
  BY CapacityAssumption, BatchAssumption DEF Inv, StampIsEstate, Agents, Holding, Reserving

\* What a publish leaves behind is a record of its batch.
LEMMA UnwrittenIsRecord ==
  ASSUME Inv, NEW h \in Requests
  PROVE  Unwritten(h) \subseteq Record
<1>1. CASE request[h].stage # "publishing"
  BY <1>1 DEF Unwritten
<1>2. CASE request[h].stage = "publishing"
  <2>1. /\ request[h].batch \in Batches /\ request[h].written \in Nat
        /\ request[h].tenant = Estate[AgentOf[request[h].batch]]
        /\ Len(RecordsOf[request[h].batch]) \in Nat
    BY <1>2, PastCheck DEF Inv, Request
  <2> QED BY <1>2, <2>1 DEF Unwritten, Record
<1> QED BY <1>1, <1>2

-----------------------------------------------------------------------------
\* Becoming idle, or returning, asks nothing more of the handler.
LEMMA Ending ==
  ASSUME Inv, NEW h \in Requests, NEW new \in Request, Step(h, new),
         topic \subseteq topic', late' \subseteq Record, roster' = roster,
         new.stage = "idle" \/ (/\ new.stage = "returning"
                                /\ new.batch = request[h].batch
                                /\ new.tenant = request[h].tenant
                                /\ request[h].stage # "idle")
  PROVE  Inv'
<1>1. new.stage \notin Counting
  BY DEF Counting
<1>2. new.stage # "idle" => new.batch \in Batches /\ new.tenant = Estate[AgentOf[new.batch]]
  BY PastCheck
<1> QED BY <1>1, <1>2, Stepping

\* Moving on with what has been counted so far keeps it counted.
LEMMA MovingOn ==
  ASSUME Inv, NEW h \in Requests, NEW new \in Request, Step(h, new),
         topic' = topic, late' = late, roster' = roster,
         request[h].stage \in Counting,
         new.batch = request[h].batch, new.tenant = request[h].tenant,
         new.written = request[h].written
  PROVE  Inv'
<1>1. request[h].stage # "idle"
  BY DEF Counting
<1>2. /\ request[h].written <= Len(RecordsOf[request[h].batch])
      /\ \A i \in 1 .. request[h].written :
           Stamped(request[h].batch, i, request[h].tenant) \in topic
  BY DEF Inv, CountedIsOnTopic
<1>3. late' \subseteq Record /\ topic \subseteq topic'
  BY DEF Inv
<1> QED BY <1>1, <1>2, <1>3, PastCheck, Stepping

\* A handler that returns keeps its batch and its tenant.
LEMMA ReturningIsRequest ==
  ASSUME NEW h \in Requests, request[h] \in Request
  PROVE  /\ Returning(h) \in Request /\ Returning(h).stage = "returning"
         /\ Returning(h).batch = request[h].batch
         /\ Returning(h).tenant = request[h].tenant
  BY DEF Returning, Request, Stages

LEMMA AllocatedIsRequest ==
  ASSUME NEW r \in Request, NEW n \in Nat
  PROVE  LET new == [r EXCEPT !.allocated = n]
         IN /\ new \in Request /\ new.stage = r.stage
            /\ new.batch = r.batch /\ new.tenant = r.tenant
  BY DEF Request

LEMMA ServeKeeps ==
  ASSUME Inv, NEW h \in Requests, Serve(h)
  PROVE  Inv'
<1> DEFINE r == request[h]
<1>0. /\ r \in Request
      /\ r = [stage |-> r.stage, batch |-> r.batch, tenant |-> r.tenant,
              reserved |-> r.reserved, allocated |-> r.allocated, written |-> r.written]
      /\ late \subseteq Record
  BY DEF Inv, Request
<1>1. CASE Hold(h)
  <2>1. r.stage = "checked" /\ r.stage \in Counting /\ r.stage # "idle"
    BY <1>1 DEF Hold, Counting, Stages
  <2>2. CASE Step(h, Idle)
    BY <2>2, <1>0, <1>1, IdleIsRequest, Ending DEF Hold, rosterVars, backboneVars
  <2>3. CASE Step(h, [r EXCEPT !.stage = "reading", !.reserved = Reserving(r.batch)])
    <3> DEFINE new == [r EXCEPT !.stage = "reading", !.reserved = Reserving(r.batch)]
    <3>1. /\ new \in Request /\ new.batch = r.batch /\ new.tenant = r.tenant
          /\ new.written = r.written
      BY Zenon, <1>0, <2>1, PastCheck DEF Request, Stages
    <3>2. Step(h, new)
      BY <2>3
    <3> HIDE DEF new
    <3> QED BY <3>1, <3>2, <2>1, <1>1, MovingOn DEF Hold, rosterVars, backboneVars
  <2> QED BY <1>1, <2>2, <2>3 DEF Hold
<1>2. CASE ReadBody(h)
  <2>1. r.stage = "reading" /\ r.stage \in Counting /\ r.stage # "idle"
    BY <1>2 DEF ReadBody, Counting, Stages
  <2>2. CASE Step(h, [r EXCEPT !.stage = "read", !.allocated = Body[r.batch]])
    <3> DEFINE new == [r EXCEPT !.stage = "read", !.allocated = Body[r.batch]]
    <3>1. /\ new \in Request /\ new.batch = r.batch /\ new.tenant = r.tenant
          /\ new.written = r.written
      BY Zenon, <1>0, <2>1, PastCheck DEF Request, Stages
    <3>2. Step(h, new)
      BY <2>2
    <3> HIDE DEF new
    <3> QED BY <3>1, <3>2, <2>1, <1>2, MovingOn DEF ReadBody, rosterVars, backboneVars
  <2>3. CASE \/ Step(h, [Returning(h) EXCEPT !.allocated = MaxBody])
             \/ Step(h, Returning(h))
    <3>1. PICK new \in Request : /\ Step(h, new) /\ new.stage = "returning"
                                 /\ new.batch = r.batch /\ new.tenant = r.tenant
      <4>1. CASE Step(h, Returning(h))
        BY <4>1, <1>0, ReturningIsRequest
      <4>2. CASE Step(h, [Returning(h) EXCEPT !.allocated = MaxBody])
        <5> DEFINE new == [Returning(h) EXCEPT !.allocated = MaxBody]
        <5>1. /\ new \in Request /\ new.stage = "returning"
              /\ new.batch = r.batch /\ new.tenant = r.tenant
          BY <1>0, ReturningIsRequest, AllocatedIsRequest, CapacityAssumption
        <5>2. Step(h, new)
          BY <4>2
        <5> HIDE DEF new
        <5> QED BY <5>1, <5>2
      <4> QED BY <2>3, <4>1, <4>2
    <3> QED BY <3>1, <2>1, <1>0, <1>2, Ending DEF ReadBody, rosterVars, backboneVars
  <2> QED BY <1>2, <2>2, <2>3 DEF ReadBody
<1>3. CASE Weigh(h)
  <2>1. r.stage = "read" /\ r.stage \in Counting /\ r.stage # "idle"
    BY <1>3 DEF Weigh, Counting, Stages
  <2>2. CASE Step(h, [r EXCEPT !.stage = "held", !.reserved = Holding(r.batch)])
    <3> DEFINE new == [r EXCEPT !.stage = "held", !.reserved = Holding(r.batch)]
    <3>1. /\ new \in Request /\ new.batch = r.batch /\ new.tenant = r.tenant
          /\ new.written = r.written
      BY Zenon, <1>0, <2>1, PastCheck DEF Request, Stages
    <3>2. Step(h, new)
      BY <2>2
    <3> HIDE DEF new
    <3> QED BY <3>1, <3>2, <2>1, <1>3, MovingOn DEF Weigh, rosterVars, backboneVars
  <2>3. CASE Step(h, Returning(h))
    <3>1. PICK new \in Request : /\ Step(h, new) /\ new.stage = "returning"
                                 /\ new.batch = r.batch /\ new.tenant = r.tenant
      BY <2>3, <1>0, ReturningIsRequest
    <3> QED BY <3>1, <2>1, <1>0, <1>3, Ending DEF Weigh, rosterVars, backboneVars
  <2> QED BY <1>3, <2>2, <2>3 DEF Weigh
<1>4. CASE Admit(h)
  <2>1. r.stage = "held" /\ r.stage \in Counting /\ r.stage # "idle"
    BY <1>4 DEF Admit, Counting, Stages
  <2>2. CASE Step(h, [r EXCEPT !.stage = "publishing", !.allocated = Holding(r.batch)])
    <3> DEFINE new == [r EXCEPT !.stage = "publishing", !.allocated = Holding(r.batch)]
    <3>1. /\ new \in Request /\ new.batch = r.batch /\ new.tenant = r.tenant
          /\ new.written = r.written
      BY Zenon, <1>0, <2>1, PastCheck DEF Request, Stages
    <3>2. Step(h, new)
      BY <2>2
    <3> HIDE DEF new
    <3> QED BY <3>1, <3>2, <2>1, <1>4, MovingOn DEF Admit, rosterVars, backboneVars
  <2>3. CASE Step(h, [Returning(h) EXCEPT !.allocated = Holding(r.batch)])
    <3>1. PICK new \in Request : /\ Step(h, new) /\ new.stage = "returning"
                                 /\ new.batch = r.batch /\ new.tenant = r.tenant
      <4> DEFINE new == [Returning(h) EXCEPT !.allocated = Holding(r.batch)]
      <4>1. Holding(r.batch) \in Nat
        BY <2>1, PastCheck
      <4>2. /\ new \in Request /\ new.stage = "returning"
            /\ new.batch = r.batch /\ new.tenant = r.tenant
        BY <4>1, <1>0, ReturningIsRequest, AllocatedIsRequest
      <4>3. Step(h, new)
        BY <2>3
      <4> HIDE DEF new
      <4> QED BY <4>2, <4>3
    <3> QED BY <3>1, <2>1, <1>0, <1>4, Ending DEF Admit, rosterVars, backboneVars
  <2> QED BY <1>4, <2>2, <2>3 DEF Admit
<1>5. CASE BackboneTakes(h)
  <2>1. r.stage = "publishing" /\ r.stage \in Counting /\ r.stage # "idle"
    BY <1>5 DEF BackboneTakes, Counting, Stages
  <2> DEFINE new == [r EXCEPT !.written = r.written + 1]
  <2>2. /\ new \in Request /\ new.batch = r.batch /\ new.tenant = r.tenant
        /\ new.written = r.written + 1 /\ r.written \in Nat
    BY <1>0 DEF Request
  <2>3. /\ Step(h, new)
        /\ topic' = topic \cup {Stamped(r.batch, r.written + 1, r.tenant)}
        /\ late' = late /\ roster' = roster
        /\ r.written < Len(RecordsOf[r.batch])
    BY <1>5 DEF BackboneTakes, rosterVars
  <2> HIDE DEF new
  <2>4. \A i \in 1 .. r.written : Stamped(r.batch, i, r.tenant) \in topic
    BY <2>1 DEF Inv, CountedIsOnTopic
  <2>5. \A i \in 1 .. r.written + 1 : Stamped(r.batch, i, r.tenant) \in topic'
    <3> TAKE i \in 1 .. r.written + 1
    <3>1. CASE i = r.written + 1
      BY <3>1, <2>3
    <3>2. CASE i \in 1 .. r.written
      BY <3>2, <2>3, <2>4
    <3> QED BY <2>2, <3>1, <3>2
  <2>6. new.written <= Len(RecordsOf[new.batch])
    BY <2>1, <2>2, <2>3, PastCheck
  <2> QED BY <1>0, <2>1, <2>2, <2>3, <2>5, <2>6, PastCheck, Stepping
<1>6. CASE Acknowledge(h) \/ PublishFails(h)
  <2>1. r.stage = "publishing" /\ r.stage # "idle" /\ Step(h, Returning(h))
    BY <1>6 DEF Acknowledge, PublishFails
  <2>2. topic' = topic /\ roster' = roster /\ late' \subseteq Record
    BY <1>0, <1>6, UnwrittenIsRecord DEF Acknowledge, PublishFails, rosterVars, backboneVars
  <2>3. PICK new \in Request : /\ Step(h, new) /\ new.stage = "returning"
                               /\ new.batch = r.batch /\ new.tenant = r.tenant
    BY <2>1, <1>0, ReturningIsRequest
  <2> QED BY <2>1, <2>2, <2>3, Ending
<1>7. CASE Release(h)
  BY <1>0, <1>7, IdleIsRequest, Ending DEF Release, rosterVars, backboneVars
<1> QED BY <1>1, <1>2, <1>3, <1>4, <1>5, <1>6, <1>7 DEF Serve

LEMMA CheckKeeps ==
  ASSUME Inv, NEW h \in Requests, NEW b \in Batches, Check(h, b)
  PROVE  Inv'
<1> DEFINE new == [Idle EXCEPT !.stage = "checked", !.batch = b, !.tenant = roster[AgentOf[b]]]
<1>1. AgentOf[b] \in Agents /\ Len(RecordsOf[b]) \in Nat
  BY BatchAssumption DEF Agents
<1>2. roster[AgentOf[b]] = Estate[AgentOf[b]]
  BY <1>1 DEF Check, Inv, StampIsEstate
<1>3. /\ new \in Request /\ new.batch = b /\ new.tenant = Estate[AgentOf[b]]
      /\ new.written = 0
  BY Zenon, <1>1, <1>2 DEF Idle, Request, Stages
<1>4. Step(h, new) /\ topic' = topic /\ late' = late /\ roster' = roster
  BY DEF Check, rosterVars, backboneVars
<1> HIDE DEF new
<1>5. late' \subseteq Record /\ topic \subseteq topic'
  BY <1>4 DEF Inv
<1> QED BY <1>1, <1>3, <1>4, <1>5, Stepping

\* When no handler moves, what the topic gains and the roster learns is all
\* that there is to check.
LEMMA Beside ==
  ASSUME Inv, request' = request, topic \subseteq topic', late' \subseteq Record,
         DOMAIN roster' = Agents, \A a \in Agents : roster'[a] \in {Estate[a], NoTenant}
  PROVE  Inv'
<1>1. StampIsEstate'
  BY DEF Inv, StampIsEstate
<1>2. CountedIsOnTopic'
  BY DEF Inv, CountedIsOnTopic
<1> QED BY <1>1, <1>2 DEF Inv

LEMMA CrashKeeps ==
  ASSUME Inv, Crash
  PROVE  Inv'
<1>1. request' \in [Requests -> Request] /\ \A h \in Requests : request'[h].stage = "idle"
  BY IdleIsRequest DEF Crash
<1>2. late' \subseteq Record
  BY UnwrittenIsRecord DEF Crash, Inv
<1>3. DOMAIN roster' = Agents /\ \A a \in Agents : roster'[a] = NoTenant
  BY DEF Crash
<1>4. StampIsEstate'
  BY <1>1, <1>3 DEF StampIsEstate
<1>5. CountedIsOnTopic'
  BY <1>1 DEF CountedIsOnTopic, Counting
<1> QED BY <1>1, <1>2, <1>3, <1>4, <1>5 DEF Inv

LEMMA NextKeeps == Inv /\ [Next]_vars => Inv'
<1> SUFFICES ASSUME Inv, [Next]_vars PROVE Inv'
  OBVIOUS
<1>0. /\ late \subseteq Record /\ DOMAIN roster = Agents
      /\ \A a \in Agents : roster[a] \in {Estate[a], NoTenant}
  BY DEF Inv, StampIsEstate
<1>1. ASSUME NEW h \in Requests, Serve(h) PROVE Inv'
  BY <1>1, ServeKeeps
<1>2. ASSUME NEW h \in Requests, NEW b \in Batches, Check(h, b) PROVE Inv'
  BY <1>2, CheckKeeps
<1>3. CASE LateWrite
  BY <1>0, <1>3, Beside DEF LateWrite, rosterVars
<1>4. ASSUME NEW a \in Agents, Learn(a) PROVE Inv'
  <2>1. /\ DOMAIN roster' = Agents
        /\ \A k \in Agents : roster'[k] \in {Estate[k], NoTenant}
    BY <1>0, <1>4 DEF Learn
  <2> QED BY <1>0, <1>4, <2>1, Beside DEF Learn, backboneVars
<1>5. CASE CurrencyChanges \/ UNCHANGED vars
  BY <1>0, <1>5, Beside DEF CurrencyChanges, vars, rosterVars, backboneVars
<1>6. CASE Crash
  BY <1>6, CrashKeeps
<1> QED BY <1>1, <1>2, <1>3, <1>4, <1>5, <1>6 DEF Next

-----------------------------------------------------------------------------
LEMMA StampedIsRecord ==
  ASSUME NEW b \in Batches, NEW i \in 1 .. Len(RecordsOf[b])
  PROVE  Stamped(b, i, Estate[AgentOf[b]]) \in Record
  BY DEF Record

\* Putting a record of some batch on the topic is a step of the promise.
LEMMA WritingIsPromised ==
  ASSUME NEW r \in Record, topic' = topic \cup {r}, spool' = spool
  PROVE  Promise!Next
<1>1. PICK b \in Batches : \E i \in 1 .. Len(RecordsOf[b]) : r = Stamped(b, i, Estate[AgentOf[b]])
  BY DEF Record
<1>2. PICK i \in 1 .. Len(RecordsOf[b]) : r = Stamped(b, i, Estate[AgentOf[b]])
  BY <1>1
<1>3. r = Promise!Stamped(b, i, Estate[AgentOf[b]])
  BY <1>2 DEF Stamped, Promise!Stamped
<1> QED BY <1>2, <1>3 DEF Promise!Next, Promise!Write

\* A step of the gateway is a step of the promise or leaves topic and spool as
\* they are.
LEMMA StepIsPromised == Inv /\ [Next]_vars => [Promise!Next]_<<topic, spool>>
<1> SUFFICES ASSUME Inv, [Next]_vars PROVE [Promise!Next]_<<topic, spool>>
  OBVIOUS
<1>1. ASSUME NEW h \in Requests, BackboneTakes(h) PROVE Promise!Next
  <2> DEFINE r == request[h]
  <2>1. /\ r.batch \in Batches /\ r.tenant = Estate[AgentOf[r.batch]]
        /\ r.written \in Nat /\ Len(RecordsOf[r.batch]) \in Nat
        /\ r.written < Len(RecordsOf[r.batch])
    <3>1. r.stage # "idle" /\ r.written < Len(RecordsOf[r.batch])
      BY <1>1 DEF BackboneTakes
    <3>2. r.batch \in Batches /\ r.tenant = Estate[AgentOf[r.batch]]
      BY <3>1, PastCheck
    <3>3. r \in Request
      BY DEF Inv
    <3>4. r.written \in Nat
      BY <3>3 DEF Request
    <3>5. Len(RecordsOf[r.batch]) \in Nat
      BY <3>2, BatchAssumption
    <3> QED BY <3>1, <3>2, <3>4, <3>5
  <2>2. Stamped(r.batch, r.written + 1, r.tenant) \in Record
    <3>1. r.written + 1 \in 1 .. Len(RecordsOf[r.batch])
      BY <2>1
    <3> QED BY <2>1, <3>1, StampedIsRecord
  <2> QED BY <1>1, <2>2, WritingIsPromised DEF BackboneTakes
<1>2. ASSUME NEW h \in Requests, Acknowledge(h) PROVE [Promise!Next]_<<topic, spool>>
  <2> DEFINE b == request[h].batch
  <2>1. request[h].stage = "publishing" /\ request[h].stage \in Counting
    BY <1>2 DEF Acknowledge, Counting, Stages
  <2>2. b \in Batches /\ request[h].tenant = Estate[AgentOf[b]]
    BY <2>1, PastCheck
  <2>3. \A i \in 1 .. Len(RecordsOf[b]) : Stamped(b, i, Estate[AgentOf[b]]) \in topic
    BY <1>2, <2>1, <2>2 DEF Acknowledge, Inv, CountedIsOnTopic
  <2>4. Promise!Durable(b)
    BY <2>3 DEF Promise!Durable, Promise!Stamped, Stamped
  <2>5. topic' = topic /\ (spool' = spool \/ spool' = spool \ {b})
    BY <1>2 DEF Acknowledge, backboneVars
  <2> QED BY <2>2, <2>4, <2>5 DEF Promise!Next, Promise!Forget
<1>3. ASSUME NEW h \in Requests, Serve(h), ~ BackboneTakes(h), ~ Acknowledge(h)
      PROVE  UNCHANGED <<topic, spool>>
  BY <1>3 DEF Serve, Hold, ReadBody, Weigh, Admit, PublishFails, Release, backboneVars
<1>4. CASE LateWrite
  <2>1. PICK r \in late : topic' \in {topic, topic \cup {r}} /\ spool' = spool
    BY <1>4 DEF LateWrite
  <2>2. r \in Record
    BY <2>1 DEF Inv
  <2> QED BY <2>1, <2>2, WritingIsPromised
<1>5. ASSUME NEW h \in Requests, NEW b \in Batches, Check(h, b) PROVE UNCHANGED <<topic, spool>>
  BY <1>5 DEF Check, backboneVars
<1>6. ASSUME NEW a \in Agents, Learn(a) PROVE UNCHANGED <<topic, spool>>
  BY <1>6 DEF Learn, backboneVars
<1>7. CASE CurrencyChanges \/ Crash \/ UNCHANGED vars
  BY <1>7 DEF CurrencyChanges, Crash, vars, backboneVars
<1> QED BY <1>1, <1>2, <1>3, <1>4, <1>5, <1>6, <1>7 DEF Next

(***************************************************************************)
(* The gateway implements what an agent's spool is promised: an agent      *)
(* gives up its copy only of a batch that is whole on the topic, under the *)
(* agent's own estate (ingest/http.go, refuseAdmission and ServeHTTP).     *)
(***************************************************************************)
THEOREM CopyIsKept == Spec => AgentsKeepTheirCopy
<1>1. Init => Promise!Init
  BY DEF Init, Promise!Init
<1> QED
  BY <1>1, Initially, NextKeeps, StepIsPromised, PTL DEF Spec, AgentsKeepTheirCopy, Promise!Spec
=============================================================================
