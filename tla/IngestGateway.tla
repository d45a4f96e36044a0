--------------------------- MODULE IngestGateway ---------------------------
(***************************************************************************)
(* One ingest gateway serving batches at once: each request is checked     *)
(* against the roster, reserves memory, reads its body, weighs it, resizes *)
(* its reservation, decodes and stamps the batch, publishes it and answers.*)
(* Every route (events, inventory, status, assessments) runs this handler  *)
(* and all of them share one capacity.                                     *)
(*                                                                         *)
(* A refusal before the reservation changes nothing and is a step not      *)
(* taken.  Sizes are whole units.  The rate limiter's answer, the media    *)
(* type and the wording of a refusal are left out.  What the roster and    *)
(* its currency go through is AgentAdmission; here they just change.       *)
(***************************************************************************)
EXTENDS Naturals, Sequences, FiniteSets, FiniteSetsExt

CONSTANTS
  Requests,     \* handlers the server may run at once
  Batches,
  AgentOf,      \* the agent whose certificate a batch arrives under
  RecordsOf,    \* what a batch carries, in order
  Estate,       \* the tenant the registry placed each agent in
  Body,         \* the length of a batch's body
  Declared,     \* the batches sent with a Content-Length
  Weight,       \* what decoding a batch holds beside its body
  Malformed,    \* the batches whose body is no batch at all
  Invalid,      \* the batches Admit refuses: empty, too many, a bad record
  MaxBody,      \* maxBodyBytes
  Bytes,        \* Capacity.bytes
  MaxInflight   \* Capacity.requests

Agents == {AgentOf[b] : b \in Batches}

NoTenant == "no tenant"
NoBatch == "no batch"

\* newHandler and NewCapacity refuse to start otherwise.
ASSUME CapacityAssumption ==
  /\ MaxBody \in Nat \ {0}
  /\ Bytes \in Nat
  /\ Bytes >= MaxBody
  /\ MaxInflight \in Nat \ {0}

ASSUME BatchAssumption ==
  /\ NoBatch \notin Batches
  /\ \A b \in Batches : /\ Len(RecordsOf[b]) \in Nat
                        /\ Body[b] \in Nat \ {0}
                        /\ Weight[b] \in Nat
                        /\ Estate[AgentOf[b]] # NoTenant
  /\ Declared \subseteq Batches

VARIABLES
  held, inflight,  \* Capacity
  request,         \* per handler: where it is and what it holds
  roster,          \* the tenant the gateway's roster holds for an agent
  current,         \* the roster is confirmed: Stale answers no
  topic,           \* the records the backbone owns
  late,            \* records of a publish that was given up, still on their way
  spool            \* the batches whose agent still keeps a copy

capacityVars == <<held, inflight>>
rosterVars == <<roster, current>>
backboneVars == <<topic, late>>
vars == <<capacityVars, request, rosterVars, backboneVars, spool>>

Stages == {"idle", "checked", "reading", "read", "held", "publishing", "returning"}

\* No request, and what a handler that has ended leaves behind.
Idle == [stage |-> "idle", batch |-> NoBatch, tenant |-> NoTenant,
         reserved |-> 0, allocated |-> 0, written |-> 0]

Stamped(b, i, tenant) ==
  [record |-> RecordsOf[b][i], agent |-> AgentOf[b], tenant |-> tenant]

\* The records of h's batch the backbone has not taken yet.
Unwritten(h) ==
  LET r == request[h]
  IN IF r.stage = "publishing"
     THEN {Stamped(r.batch, i, r.tenant) : i \in r.written + 1 .. Len(RecordsOf[r.batch])}
     ELSE {}

Init ==
  /\ held = 0 /\ inflight = 0
  /\ request = [h \in Requests |-> Idle]
  /\ roster = [a \in Agents |-> NoTenant]
  /\ current = FALSE
  /\ topic = {} /\ late = {}
  /\ spool = Batches

-----------------------------------------------------------------------------
(***************************************************************************)
(* The handler                                                             *)
(***************************************************************************)
Step(h, r) == request' = [request EXCEPT ![h] = r]

\* The answer is written and the deferred Release has not run yet.
Returning(h) == [request[h] EXCEPT !.stage = "returning"]

\* A batch arrives and is checked: the tenant read here is the one the batch is
\* stamped with, however long reading and publishing take.
Check(h, b) ==
  /\ request[h].stage = "idle"
  /\ b \in spool
  /\ current
  /\ roster[AgentOf[b]] # NoTenant
  /\ Step(h, [Idle EXCEPT !.stage = "checked", !.batch = b, !.tenant = roster[AgentOf[b]]])
  /\ UNCHANGED <<capacityVars, rosterVars, backboneVars, spool>>

\* Regression: the declared length is taken as it is, and a body sent without
\* one declares nothing.
ReservingDeclared(b) == IF b \in Declared THEN Body[b] ELSE 0

Reserving(b) == IF b \in Declared /\ Body[b] <= MaxBody THEN Body[b] ELSE MaxBody

\* Regression: the ceiling on requests is compared one too late.
FitsOneMore(bytes) == inflight <= MaxInflight /\ held + bytes <= Bytes

Fits(bytes) == inflight < MaxInflight /\ held + bytes <= Bytes

Hold(h) ==
  LET bytes == Reserving(request[h].batch)
  IN /\ request[h].stage = "checked"
     /\ \/ /\ Fits(bytes)
           /\ held' = held + bytes
           /\ inflight' = inflight + 1
           /\ Step(h, [request[h] EXCEPT !.stage = "reading", !.reserved = bytes])
        \/ /\ ~ Fits(bytes)
           /\ Step(h, Idle)
           /\ UNCHANGED capacityVars
     /\ UNCHANGED <<rosterVars, backboneVars, spool>>

\* The body is read into memory whole, or up to the ceiling, or breaks off.
ReadBody(h) ==
  /\ request[h].stage = "reading"
  /\ \/ /\ Body[request[h].batch] <= MaxBody
        /\ Step(h, [request[h] EXCEPT !.stage = "read", !.allocated = Body[request[h].batch]])
     \/ /\ Body[request[h].batch] > MaxBody
        /\ Step(h, [Returning(h) EXCEPT !.allocated = MaxBody])
     \/ Step(h, Returning(h))
  /\ UNCHANGED <<capacityVars, rosterVars, backboneVars, spool>>

\* Regression: a reservation is resized and the capacity is not told.
ResizedUntold(h, bytes) == held

\* Capacity.held once h's reservation is resized.
Resized(h, bytes) == held - request[h].reserved + bytes

Holding(b) == Body[b] + Weight[b]

\* Regression: a request that does not fit waits for the others.
WeighAndWait(h) ==
  LET b == request[h].batch
  IN /\ request[h].stage = "read"
     /\ \/ /\ b \notin Malformed
           /\ Resized(h, Holding(b)) <= Bytes
           /\ held' = Resized(h, Holding(b))
           /\ Step(h, [request[h] EXCEPT !.stage = "held", !.reserved = Holding(b)])
        \/ /\ b \in Malformed \/ Holding(b) > Bytes
           /\ Step(h, Returning(h))
           /\ UNCHANGED held
     /\ UNCHANGED <<inflight, rosterVars, backboneVars, spool>>

\* What the batch holds once decoded is reserved before it is decoded.
Weigh(h) ==
  LET b == request[h].batch
      refused == b \in Malformed \/ Holding(b) > Bytes \/ Resized(h, Holding(b)) > Bytes
  IN /\ request[h].stage = "read"
     /\ \/ /\ ~ refused
           /\ held' = Resized(h, Holding(b))
           /\ Step(h, [request[h] EXCEPT !.stage = "held", !.reserved = Holding(b)])
        \/ /\ refused
           /\ Step(h, Returning(h))
           /\ UNCHANGED held
     /\ UNCHANGED <<inflight, rosterVars, backboneVars, spool>>

\* Decodes the batch and checks it whole before any of it is published.
Admit(h) ==
  LET b == request[h].batch
  IN /\ request[h].stage = "held"
     /\ \/ /\ b \notin Invalid
           /\ Step(h, [request[h] EXCEPT !.stage = "publishing", !.allocated = Holding(b)])
        \/ /\ b \in Invalid
           /\ Step(h, [Returning(h) EXCEPT !.allocated = Holding(b)])
     /\ UNCHANGED <<capacityVars, rosterVars, backboneVars, spool>>

-----------------------------------------------------------------------------
(***************************************************************************)
(* Publishing.  One agent's records share a key, so they go to a partition *)
(* in the batch's order, and any prefix of them may be what the backbone   *)
(* took when the publish fails or its time runs out.                       *)
(***************************************************************************)
BackboneTakes(h) ==
  LET r == request[h]
  IN /\ r.stage = "publishing"
     /\ r.written < Len(RecordsOf[r.batch])
     /\ topic' = topic \cup {Stamped(r.batch, r.written + 1, r.tenant)}
     /\ Step(h, [r EXCEPT !.written = r.written + 1])
     /\ UNCHANGED <<capacityVars, rosterVars, late, spool>>

\* Regression: the answer of the first record stands for all of them.
AcknowledgeFirst(h) ==
  /\ request[h].stage = "publishing"
  /\ request[h].written > 0
  /\ Step(h, Returning(h))
  /\ spool' = spool \ {request[h].batch}
  /\ UNCHANGED <<capacityVars, rosterVars, backboneVars>>

\* The acknowledgement may be lost on its way: the agent then keeps its copy.
Acknowledge(h) ==
  /\ request[h].stage = "publishing"
  /\ request[h].written = Len(RecordsOf[request[h].batch])
  /\ Step(h, Returning(h))
  /\ spool' \in {spool, spool \ {request[h].batch}}
  /\ UNCHANGED <<capacityVars, rosterVars, backboneVars>>

\* A record fails or publishTimeout passes, even after everything was taken.
PublishFails(h) ==
  /\ request[h].stage = "publishing"
  /\ Step(h, Returning(h))
  /\ late' = late \cup Unwritten(h)
  /\ UNCHANGED <<capacityVars, rosterVars, topic, spool>>

Release(h) ==
  /\ request[h].stage = "returning"
  /\ held' = held - request[h].reserved
  /\ inflight' = inflight - 1
  /\ Step(h, Idle)
  /\ UNCHANGED <<rosterVars, backboneVars, spool>>

\* A produce request the client gave up on reaches the broker, or never does.
LateWrite ==
  \E r \in late :
    /\ late' = late \ {r}
    /\ topic' \in {topic, topic \cup {r}}
    /\ UNCHANGED <<capacityVars, request, rosterVars, spool>>

-----------------------------------------------------------------------------
\* What the roster says of an agent changes while requests are being served.
Learn(a) ==
  /\ roster' = [roster EXCEPT ![a] = IF @ = NoTenant THEN Estate[a] ELSE NoTenant]
  /\ UNCHANGED <<capacityVars, request, current, backboneVars, spool>>

CurrencyChanges ==
  /\ current' = ~ current
  /\ UNCHANGED <<capacityVars, request, roster, backboneVars, spool>>

\* The process stops anywhere and another starts: memory is gone, and what was
\* being published may still arrive.
Crash ==
  /\ held' = 0 /\ inflight' = 0
  /\ request' = [h \in Requests |-> Idle]
  /\ roster' = [a \in Agents |-> NoTenant]
  /\ current' = FALSE
  /\ late' = late \cup UNION {Unwritten(h) : h \in Requests}
  /\ UNCHANGED <<topic, spool>>

Serve(h) ==
  \/ Hold(h) \/ ReadBody(h) \/ Weigh(h) \/ Admit(h)
  \/ BackboneTakes(h) \/ Acknowledge(h) \/ PublishFails(h)
  \/ Release(h)

Next ==
  \/ \E h \in Requests : Serve(h) \/ \E b \in Batches : Check(h, b)
  \/ LateWrite
  \/ \E a \in Agents : Learn(a)
  \/ CurrencyChanges
  \/ Crash

\* A handler never stops by itself: reading is bounded by the server's
\* ReadTimeout and publishing by publishTimeout.
Fairness == \A h \in Requests : WF_vars(Serve(h))

Spec == Init /\ [][Next]_vars /\ Fairness

-----------------------------------------------------------------------------
Record == UNION {{Stamped(b, i, Estate[AgentOf[b]]) : i \in 1 .. Len(RecordsOf[b])} : b \in Batches}

Request ==
  [stage : Stages, batch : Batches \cup {NoBatch},
   tenant : {Estate[a] : a \in Agents} \cup {NoTenant},
   reserved : Nat, allocated : Nat, written : Nat]

\* Each variable has its type; the capacity never counts more than its bounds.
TypeOK ==
  /\ held \in 0 .. Bytes
  /\ inflight \in 0 .. MaxInflight
  /\ request \in [Requests -> Request]
  /\ \A a \in Agents : roster[a] \in {Estate[a], NoTenant}
  /\ current \in BOOLEAN
  /\ topic \subseteq Record
  /\ late \subseteq Record
  /\ spool \subseteq Batches

Serving == {h \in Requests : request[h].stage \notin {"idle", "checked"}}

\* Capacity counts exactly what the requests being served have reserved: through
\* every refusal, resize and release, in whatever order requests end, nothing
\* leaks and nothing is given back twice (Capacity.held, inflight).
HeldIsReserved ==
  /\ held = MapThenSumSet(LAMBDA h : request[h].reserved, Serving)
  /\ inflight = Cardinality(Serving)

\* What the process has allocated for bodies and decoded batches is within the
\* bytes it was bounded to, whatever length a body declared and whatever the
\* batches weigh: memory is reserved before it is allocated.
MemoryIsBounded ==
  MapThenSumSet(LAMBDA h : request[h].allocated, Requests) <= Bytes

Promise == INSTANCE Spool

\* An agent's copy is given up only for a batch the backbone owns whole, in the
\* agent's own estate, whatever fails, races or arrives late: "A batch the
\* backbone did not accept is never acknowledged" (ingest/http.go).
AgentsKeepTheirCopy == Promise!Spec

\* Every request the gateway takes in ends: requests that share the capacity
\* never wait for each other's reservations, and no publish waits for ever.
EveryRequestEnds ==
  \A h \in Requests : request[h].stage # "idle" ~> request[h].stage = "idle"
=============================================================================
