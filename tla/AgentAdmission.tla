--------------------------- MODULE AgentAdmission ---------------------------
(***************************************************************************)
(* How a decision about an agent reaches the gateways that enforce it.     *)
(*                                                                         *)
(*   - The control plane's workers (request handlers, and the announcer's  *)
(*     sweep) move a row of the registry in one transaction and afterwards *)
(*     carry what was decided: publish it to the agent log, then record in *)
(*     the row that it was published.                                      *)
(*   - The agent log is one partition, compacted by agent.  Some of its    *)
(*     records no gateway of this build can read.                          *)
(*   - A gateway reads the log from its start into a roster, confirms that *)
(*     nothing the log held is undelivered, serves, and refuses every      *)
(*     batch when the last confirmation is older than StaleAfter.          *)
(*                                                                         *)
(* Offsets count from 1, so an end offset is the length of the log and     *)
(* delivered is the last offset delivered.  Time is whole units and starts *)
(* at 1: the code's confirmed = 0 is "never".                              *)
(***************************************************************************)
EXTENDS Roster, Sequences, FiniteSets

CONSTANTS
  Agents,        \* identifiers an agent may be registered under
  Tenants,       \* estates an agent may be registered into
  Workers,       \* handlers and sweeps that run at once, over every control plane
  Gateways,
  StaleAfter,    \* how long a confirmation admits for, Currency.staleAfter
  Batch,         \* how many outstanding decisions one sweep reads
  Compacting,    \* whether the broker compacts the log during the behaviour
  MaxRevision,   \* bound: decisions about one agent
  MaxWrites,     \* bound: records ever written to the log
  MaxUnreadable, \* bound: those of them that cannot be read
  MaxTime,       \* bound: the clock
  MaxFailures,   \* bound: carries that fail, and control planes that crash
  MaxRestarts    \* bound: gateways that stop

ASSUME ConstantsAssumption ==
  /\ None \notin Agents
  /\ NoTenant \notin Tenants
  /\ Tenants # {}
  /\ StaleAfter \in Nat
  /\ Batch \in Nat \ {0}
  /\ Compacting \in BOOLEAN
  /\ MaxRevision \in Nat \ {0}
  /\ MaxWrites \in Nat
  /\ MaxUnreadable \in Nat
  /\ MaxTime \in Nat \ {0}
  /\ MaxFailures \in Nat
  /\ MaxRestarts \in Nat

VARIABLES
  registry,   \* the agents table
  carrying,   \* per worker: the records it has read or decided and not carried
  told,       \* per worker: it has published the first of them
  log,        \* every record ever written to the agent log
  kept,       \* the offsets compaction has left
  gateway,    \* per gateway: its phase, roster and read position
  check,      \* per gateway: the confirmation it is in the middle of
  now,
  failures,
  restarts

controlVars == <<registry, carrying, told>>
logVars     == <<log, kept>>
gatewayVars == <<gateway, check>>
vars == <<controlVars, logVars, gatewayVars, now, failures, restarts>>

-----------------------------------------------------------------------------
(***************************************************************************)
(* The registry's rows.  revision 0 is an identifier nobody registered.    *)
(***************************************************************************)
\* The certificate an agent is bound to; which one it is does not matter here.
Certificate == "certificate"

Row == [state : States, revision : Nat, identity : {None, Certificate},
        tenant : Tenants \cup {NoTenant}, published : Nat, changedAt : Nat]

Unregistered ==
  [state |-> "pending", revision |-> 0, identity |-> None,
   tenant |-> NoTenant, published |-> 0, changedAt |-> 0]

Registered(a) == registry[a].revision > 0

\* agent.Admission: what the data plane is told about a row.
Admission(a, row) ==
  [agent |-> a, tenant |-> row.tenant, state |-> row.state, revision |-> row.revision]

Admissions ==
  [agent : Agents, tenant : Tenants, state : States, revision : Nat \ {0}]

\* Regression: only a decision about an agent never announced is outstanding.
NeverAnnounced(a) == registry[a].published = 0 /\ registry[a].revision > 0

\* What the announcer reads: decided, and not recorded as published.
IsOutstanding(a) == registry[a].published < registry[a].revision

(***************************************************************************)
(* The batches a sweep may read: outstanding agents, oldest change first,  *)
(* and all of them unless the batch is full.                               *)
(***************************************************************************)
OutstandingBatches ==
  { batch \in UNION { [1..n -> Agents] : n \in 1..Batch } :
      LET chosen == { batch[i] : i \in DOMAIN batch } IN
      /\ \A a \in chosen : IsOutstanding(a)
      /\ \A i, j \in DOMAIN batch : i < j =>
           /\ batch[i] # batch[j]
           /\ registry[batch[i]].changedAt <= registry[batch[j]].changedAt
      /\ \A a \in chosen, b \in Agents \ chosen : IsOutstanding(b) =>
           /\ Len(batch) = Batch
           /\ registry[a].changedAt <= registry[b].changedAt }
-----------------------------------------------------------------------------
Idle(w) == carrying[w] = <<>>

\* The worker is done with a carry, or gives up everything it still held.
Dropped(w) ==
  /\ carrying' = [carrying EXCEPT ![w] = <<>>]
  /\ told' = [told EXCEPT ![w] = FALSE]

\* registerAgent: the row and the first line of its trail, then announce.
Register(w, a, t) ==
  /\ Idle(w)
  /\ ~Registered(a)
  /\ registry' = [registry EXCEPT ![a] =
                    [@ EXCEPT !.revision = 1, !.tenant = t, !.changedAt = now]]
  /\ carrying' = [carrying EXCEPT ![w] = <<Admission(a, registry'[a])>>]
  /\ UNCHANGED <<told, logVars, gatewayVars, now, failures, restarts>>

\* postgres.Agents.move: read, decide and write with the row held.
Move(a, move) ==
  /\ Registered(a)
  /\ registry[a].revision < MaxRevision
  /\ Accepted(registry[a], move, NotAsked)
  /\ registry' = [registry EXCEPT ![a] =
                    [Moved(registry[a], move) EXCEPT !.changedAt = now]]

\* moveAgent: an operator's transition or binding, then announce.
MoveAgent(w, a, move) ==
  /\ Idle(w)
  /\ Move(a, move)
  /\ carrying' = [carrying EXCEPT ![w] = <<Admission(a, registry'[a])>>]
  /\ UNCHANGED <<told, logVars, gatewayVars, now, failures, restarts>>

TransitionAgent(w, a, to) == MoveAgent(w, a, Transition(to, TRUE, 0))

BindAgentIdentity(w, a) == MoveAgent(w, a, BindIdentity(Certificate, 0))

\* issueCertificate and renewCertificate bind and leave announcing to a sweep.
MoveUnannounced(a, move) ==
  /\ Move(a, move)
  /\ UNCHANGED <<carrying, told, logVars, gatewayVars, now, failures, restarts>>

IssueCertificate(a) == MoveUnannounced(a, BindIdentity(Certificate, 0))

RenewCertificate(a) == MoveUnannounced(a, Renewal(Certificate, Certificate, None))

\* Regression: a sweep waits until its batch is full.
SweepFull(w) ==
  /\ Idle(w)
  /\ \E batch \in OutstandingBatches :
       /\ Len(batch) = Batch
       /\ carrying' = [carrying EXCEPT ![w] =
                      [i \in 1..Len(batch) |-> Admission(batch[i], registry[batch[i]])]]
  /\ UNCHANGED <<registry, told, logVars, gatewayVars, now, failures, restarts>>

\* Announcer.Sweep reads its batch once and carries what it read.
Sweep(w) ==
  /\ Idle(w)
  /\ \E batch \in OutstandingBatches :
       carrying' = [carrying EXCEPT ![w] =
                      [i \in 1..Len(batch) |-> Admission(batch[i], registry[batch[i]])]]
  /\ UNCHANGED <<registry, told, logVars, gatewayVars, now, failures, restarts>>

Offsets == 1..Len(log)

Write(record) ==
  /\ Len(log) < MaxWrites
  /\ log' = Append(log, [agent |-> record.agent, tenant |-> record.tenant,
                         state |-> record.state, revision |-> record.revision,
                         at |-> now])
  /\ kept' = kept \cup {Len(log) + 1}

(***************************************************************************)
(* A record filed under an agent's key, or under none, that roster.read    *)
(* returns an error for: it does not decode, its payload names another     *)
(* agent, or its state or its tenant is none this build knows.             *)
(***************************************************************************)
Unreadable(key) == [agent |-> key, tenant |-> NoTenant, state |-> None, revision |-> 0]

Readable(record) == record.state # None

\* carry, first half: the backbone acknowledged the record.
Publish(w) ==
  /\ ~Idle(w)
  /\ ~told[w]
  /\ Write(Head(carrying[w]))
  /\ told' = [told EXCEPT ![w] = TRUE]
  /\ UNCHANGED <<registry, carrying, gatewayVars, now, failures, restarts>>

\* Regression: the row is marked published up to whatever it has become.
RecordAnnouncedLatest(w) ==
  /\ ~Idle(w)
  /\ told[w]
  /\ LET a == Head(carrying[w]).agent IN
     registry' = [registry EXCEPT ![a].published = registry[a].revision]
  /\ carrying' = [carrying EXCEPT ![w] = Tail(@)]
  /\ told' = [told EXCEPT ![w] = FALSE]
  /\ UNCHANGED <<logVars, gatewayVars, now, failures, restarts>>

\* Agents.Announced only ever raises what the row records.
Announced(row, revision) ==
  [row EXCEPT !.published = IF @ < revision THEN revision ELSE @]

\* Regression: a sweep records its whole batch once the first of it is published.
RecordAnnouncedBatch(w) ==
  /\ ~Idle(w)
  /\ told[w]
  /\ registry' = [a \in Agents |->
       LET carried == {k \in 1..Len(carrying[w]) : carrying[w][k].agent = a} IN
       IF carried = {} THEN registry[a]
       ELSE Announced(registry[a], carrying[w][CHOOSE k \in carried : TRUE].revision)]
  /\ Dropped(w)
  /\ UNCHANGED <<logVars, gatewayVars, now, failures, restarts>>

\* carry, second half.
RecordAnnounced(w) ==
  /\ ~Idle(w)
  /\ told[w]
  /\ LET record == Head(carrying[w]) IN
     registry' = [registry EXCEPT ![record.agent] = Announced(@, record.revision)]
  /\ carrying' = [carrying EXCEPT ![w] = Tail(@)]
  /\ told' = [told EXCEPT ![w] = FALSE]
  /\ UNCHANGED <<logVars, gatewayVars, now, failures, restarts>>

\* A publish refused, an Announced that failed, or the process stopping: the
\* handler logs it, the sweep stops, and either way nothing more is carried.
GiveUp(w) ==
  /\ ~Idle(w)
  /\ failures < MaxFailures
  /\ failures' = failures + 1
  /\ Dropped(w)
  /\ UNCHANGED <<registry, logVars, gatewayVars, now, restarts>>

\* A publish the backbone took and whose answer never came back.
PublishUnanswered(w) ==
  /\ ~Idle(w)
  /\ ~told[w]
  /\ failures < MaxFailures
  /\ failures' = failures + 1
  /\ Write(Head(carrying[w]))
  /\ Dropped(w)
  /\ UNCHANGED <<registry, gatewayVars, now, restarts>>

\* Another writer, a newer control plane or damage puts such a record there.
WriteUnreadable(key) ==
  /\ Cardinality({i \in Offsets : ~Readable(log[i])}) < MaxUnreadable
  /\ Write(Unreadable(key))
  /\ UNCHANGED <<controlVars, gatewayVars, now, failures, restarts>>

\* The broker drops a record that a later one of the same agent stands over.
Compact(i) ==
  /\ Compacting
  /\ i \in kept
  /\ \E j \in kept : j > i /\ log[j].agent = log[i].agent
  /\ kept' = kept \ {i}
  /\ UNCHANGED <<controlVars, log, gatewayVars, now, failures, restarts>>
-----------------------------------------------------------------------------
(***************************************************************************)
(* A gateway.  position is the last record applied to the roster and       *)
(* delivered what StateLog.advance has counted: a poll's records are all   *)
(* applied before any of them counts as delivered.                         *)
(***************************************************************************)
Phases == {"down", "replaying", "confirming", "serving"}

Down == [phase |-> "down", known |-> [a \in Agents |-> Unknown],
         position |-> 0, delivered |-> 0, target |-> 0, confirmed |-> 0]

NoCheck == [step |-> "none", asked |-> 0, end |-> 0]

Running(g) == gateway[g].phase # "down"

\* Replay lists the end of the log first; a partition that could not answer is
\* listed with no offset, which Replay reads as a log with nothing in it.
Start(g) ==
  /\ gateway[g].phase = "down"
  /\ \E end \in {0, Len(log)} :
       gateway' = [gateway EXCEPT ![g] = [Down EXCEPT !.phase = "replaying", !.target = end]]
  /\ UNCHANGED <<controlVars, logVars, check, now, failures, restarts>>

\* The record a reader at this position is handed next.
NextOffset(position, i) ==
  /\ i \in kept
  /\ i > position
  /\ \A j \in kept : j > position => i <= j

\* Regression: a record that cannot be read is stepped over.
ReadOrSteppedOver(held, record) == IF Readable(record) THEN Apply(held, record) ELSE held

\* roster.applying, for the agent the record is filed under: the record is read
\* into its entry, or the agent is refused.
ReadOrRefused(held, record) ==
  IF Readable(record) THEN Apply(held, record) ELSE Refuse(held)

\* The record at offset i, applied to the roster.
Handed(held, i, record) ==
  [held EXCEPT
     !.position = i,
     !.known = [@ EXCEPT ![record.agent] = ReadOrRefused(held.known[record.agent], record)]]

\* Replay polls until what it listed is delivered, Follow until it is stopped.
Polling(g) ==
  \/ gateway[g].phase = "replaying" /\ gateway[g].delivered < gateway[g].target
  \/ gateway[g].phase = "serving"

\* Regression: nothing follows the log once it has been replayed.
DeliverOnce(g, i) ==
  /\ Polling(g)
  /\ gateway[g].phase = "replaying"
  /\ NextOffset(gateway[g].position, i)
  /\ log[i].agent # None
  /\ gateway' = [gateway EXCEPT ![g] = Handed(gateway[g], i, log[i])]
  /\ UNCHANGED <<controlVars, logVars, check, now, failures, restarts>>

\* applying reads one record of a poll into the roster.
Deliver(g, i) ==
  /\ Polling(g)
  /\ NextOffset(gateway[g].position, i)
  /\ log[i].agent # None
  /\ gateway' = [gateway EXCEPT ![g] = Handed(gateway[g], i, log[i])]
  /\ UNCHANGED <<controlVars, logVars, check, now, failures, restarts>>

\* A record that names no agent ends the replay or the following of the log,
\* and the process with it.
DeliverNameless(g, i) ==
  /\ Polling(g)
  /\ NextOffset(gateway[g].position, i)
  /\ log[i].agent = None
  /\ gateway' = [gateway EXCEPT ![g] = Down]
  /\ check' = [check EXCEPT ![g] = NoCheck]
  /\ UNCHANGED <<controlVars, logVars, now, failures, restarts>>

\* StateLog.advance, once the poll's records have all been applied.
Advance(g) ==
  /\ gateway[g].phase \in {"replaying", "serving"}
  /\ gateway[g].delivered < gateway[g].position
  /\ gateway' = [gateway EXCEPT ![g] = [@ EXCEPT !.delivered = gateway[g].position]]
  /\ UNCHANGED <<controlVars, logVars, check, now, failures, restarts>>

\* The replay has reached the end it listed; main goes on to confirm once.
Replayed(g) ==
  /\ gateway[g].phase = "replaying"
  /\ gateway[g].delivered = gateway[g].position
  /\ gateway[g].delivered >= gateway[g].target
  /\ gateway' = [gateway EXCEPT ![g] = [@ EXCEPT !.phase = "confirming"]]
  /\ UNCHANGED <<controlVars, logVars, check, now, failures, restarts>>

\* Currency.Confirm notes when it asked before it asks.
Ask(g) ==
  /\ gateway[g].phase \in {"confirming", "serving"}
  /\ check[g].step = "none"
  /\ check' = [check EXCEPT ![g] = [step |-> "asked", asked |-> now, end |-> 0]]
  /\ UNCHANGED <<controlVars, logVars, gateway, now, failures, restarts>>

\* Regression: the last offset is taken for the end.
ListLast(g) ==
  /\ check[g].step = "asked"
  /\ check' = [check EXCEPT ![g] = [@ EXCEPT !.step = "listed", !.end = Len(log) - 1]]
  /\ UNCHANGED <<controlVars, logVars, gateway, now, failures, restarts>>

\* StateLog.Behind lists the end of the log before it reads what was delivered.
ListEnd(g) ==
  /\ check[g].step = "asked"
  /\ check' = [check EXCEPT ![g] = [@ EXCEPT !.step = "listed", !.end = Len(log)]]
  /\ UNCHANGED <<controlVars, logVars, gateway, now, failures, restarts>>

\* main confirms once before it serves, whatever the answer was.
Checked(held, confirmed) ==
  [held EXCEPT !.phase = IF @ = "confirming" THEN "serving" ELSE @,
               !.confirmed = confirmed]

\* Regression: a confirmation is dated when its answer came.
ConfirmWhenAnswered(g) ==
  /\ check[g].step = "listed"
  /\ check' = [check EXCEPT ![g] = NoCheck]
  /\ gateway' = [gateway EXCEPT ![g] =
                   Checked(gateway[g], IF check[g].end <= gateway[g].delivered
                                       THEN now ELSE gateway[g].confirmed)]
  /\ UNCHANGED <<controlVars, logVars, now, failures, restarts>>

\* Nothing was behind: the roster was current when the gateway asked.
Confirm(g) ==
  /\ check[g].step = "listed"
  /\ check' = [check EXCEPT ![g] = NoCheck]
  /\ gateway' = [gateway EXCEPT ![g] =
                   Checked(gateway[g], IF check[g].end <= gateway[g].delivered
                                       THEN check[g].asked ELSE gateway[g].confirmed)]
  /\ UNCHANGED <<controlVars, logVars, now, failures, restarts>>

\* The backbone could not be asked, or did not answer within the interval.
Unreachable(g) ==
  /\ check[g].step \in {"asked", "listed"}
  /\ failures < MaxFailures
  /\ failures' = failures + 1
  /\ check' = [check EXCEPT ![g] = NoCheck]
  /\ gateway' = [gateway EXCEPT ![g] = Checked(gateway[g], gateway[g].confirmed)]
  /\ UNCHANGED <<controlVars, logVars, now, restarts>>

\* The process stops, cleanly or not: everything it held was in memory.
Stop(g) ==
  /\ Running(g)
  /\ restarts < MaxRestarts
  /\ restarts' = restarts + 1
  /\ gateway' = [gateway EXCEPT ![g] = Down]
  /\ check' = [check EXCEPT ![g] = NoCheck]
  /\ UNCHANGED <<controlVars, logVars, now, failures>>

\* Regression: only a gateway that never confirmed is stale.
StaleUntilConfirmed(g) == gateway[g].confirmed = 0

\* Currency.Stale, which every stream's handler asks before the roster.
Stale(g) ==
  \/ gateway[g].confirmed = 0
  \/ now - gateway[g].confirmed > StaleAfter

\* ServeHTTP goes past the roster for this agent, and into this tenant.
Admitting(g, a) ==
  /\ gateway[g].phase = "serving"
  /\ ~Stale(g)
  /\ gateway[g].known[a].admits

Tick ==
  /\ now < MaxTime
  /\ now' = now + 1
  /\ UNCHANGED <<controlVars, logVars, gatewayVars, failures, restarts>>
-----------------------------------------------------------------------------
Init ==
  /\ registry = [a \in Agents |-> Unregistered]
  /\ carrying = [w \in Workers |-> <<>>]
  /\ told = [w \in Workers |-> FALSE]
  /\ log = <<>>
  /\ kept = {}
  /\ gateway = [g \in Gateways |-> Down]
  /\ check = [g \in Gateways |-> NoCheck]
  /\ now = 1
  /\ failures = 0
  /\ restarts = 0

Decide(w, a) ==
  \/ \E t \in Tenants : Register(w, a, t)
  \/ \E to \in States : TransitionAgent(w, a, to)
  \/ BindAgentIdentity(w, a)

Carry(w) ==
  \/ Sweep(w)
  \/ Publish(w)
  \/ RecordAnnounced(w)
  \/ GiveUp(w)
  \/ PublishUnanswered(w)

Gate(g) ==
  \/ Start(g)
  \/ \E i \in kept : Deliver(g, i) \/ DeliverNameless(g, i)
  \/ Advance(g)
  \/ Replayed(g)
  \/ Ask(g)
  \/ ListEnd(g)
  \/ Confirm(g)
  \/ Unreachable(g)
  \/ Stop(g)

Next ==
  \/ \E w \in Workers, a \in Agents : Decide(w, a)
  \/ \E a \in Agents : IssueCertificate(a) \/ RenewCertificate(a)
  \/ \E w \in Workers : Carry(w)
  \/ \E key \in Agents \cup {None} : WriteUnreadable(key)
  \/ \E i \in kept : Compact(i)
  \/ \E g \in Gateways : Gate(g)
  \/ Tick

Spec == Init /\ [][Next]_vars

(***************************************************************************)
(* The fairness the processes' loops give: the announcer ticks for ever,   *)
(* a carry and a confirmation finish, a reader polls, and a gateway that   *)
(* stopped is started again by whatever runs it.  Nothing makes an         *)
(* operator decide, time pass, a process fail, the broker compact or a     *)
(* record that cannot be read appear.                                      *)
(***************************************************************************)
CarryProgress(w) == Sweep(w) \/ Publish(w) \/ RecordAnnounced(w)

ReadProgress(g) ==
  \/ Start(g)
  \/ \E i \in kept : Deliver(g, i) \/ DeliverNameless(g, i)
  \/ Advance(g)
  \/ Replayed(g)

CheckProgress(g) == Ask(g) \/ ListEnd(g) \/ Confirm(g)

Fairness ==
  /\ \A w \in Workers : WF_vars(CarryProgress(w))
  /\ \A g \in Gateways : WF_vars(ReadProgress(g)) /\ WF_vars(CheckProgress(g))

FairSpec == Spec /\ Fairness
-----------------------------------------------------------------------------
(***************************************************************************)
(* Properties.                                                             *)
(***************************************************************************)
Decisions == [agent : Agents, tenant : Tenants, state : States,
              revision : Nat \ {0}, at : Nat]

Records ==
  Decisions \cup [agent : Agents \cup {None}, tenant : {NoTenant}, state : {None},
                  revision : {0}, at : Nat]

Held == [seen : BOOLEAN, admits : BOOLEAN,
         tenant : Tenants \cup {NoTenant}, revision : Nat]

GatewayState == [phase : Phases, known : [Agents -> Held], position : Nat,
                 delivered : Nat, target : Nat, confirmed : Nat]

CheckState == [step : {"none", "asked", "listed"}, asked : Nat, end : Nat]

\* The type of every variable.
TypeOK ==
  /\ registry \in [Agents -> Row]
  /\ carrying \in [Workers -> Seq(Admissions)]
  /\ told \in [Workers -> BOOLEAN]
  /\ log \in Seq(Records)
  /\ kept \subseteq 1..Len(log)
  /\ gateway \in [Gateways -> GatewayState]
  /\ check \in [Gateways -> CheckState]
  /\ now \in Nat \ {0}
  /\ failures \in Nat
  /\ restarts \in Nat

Agrees(record) ==
  LET row == registry[record.agent] IN
  /\ record.revision <= row.revision
  /\ record.tenant = row.tenant
  /\ record.revision = row.revision => record.state = row.state

\* What is on its way to the log, or in it and readable, was decided by the
\* registry, and the registry never decides one revision twice: a record of the
\* row's own revision says what the row says, and none is ahead of it.
LogFollowsRegistry ==
  /\ \A i \in Offsets : Readable(log[i]) => Agrees(log[i])
  /\ \A w \in Workers : \A k \in 1..Len(carrying[w]) : Agrees(carrying[w][k])

\* Two readable records of one revision are the same decision, so no gateway can
\* be handed both halves of a conflict by one registry: Roster.Apply meets a
\* conflict only at the revision an unreadable record had refused the agent at.
OneDecisionPerRevision ==
  \A i, j \in Offsets :
    /\ Readable(log[i]) /\ Readable(log[j])
    /\ log[i].agent = log[j].agent
    /\ log[i].revision = log[j].revision
    => log[i].state = log[j].state

\* A decision is never forgotten between the registry and the log, whatever
\* fails in between: either the announcer will still find it outstanding, or
\* the log was told exactly it (control/admissions.go, carry).
DecisionIsWrittenOrOutstanding ==
  \A a \in Agents : Registered(a) /\ ~IsOutstanding(a) =>
    \E i \in Offsets : log[i].agent = a /\ log[i].revision = registry[a].revision

\* A gateway holds, for every agent, a decision at least as new as every
\* readable record still in the log that it has been handed: Roster.Apply steps
\* over older ones, and Roster.Refuse keeps the revision.
RosterHoldsNewest ==
  \A g \in Gateways : \A i \in kept :
    i <= gateway[g].position /\ Readable(log[i]) =>
      gateway[g].known[log[i].agent].revision >= log[i].revision

\* The record at i decided exactly what the gateway holds about a.
Decided(g, a, i) ==
  LET held == gateway[g].known[a] IN
  /\ log[i].agent = a
  /\ Readable(log[i])
  /\ log[i].revision = held.revision
  /\ held.admits = Admits(log[i].state)
  /\ held.tenant = log[i].tenant

\* What the gateway has been handed about a, or would have been but for
\* compaction; and what of it could not be read.
HandedOf(g, a) == {i \in Offsets : i <= gateway[g].position /\ log[i].agent = a}

UnreadOf(g, a) == {i \in HandedOf(g, a) : ~Readable(log[i])}

\* And nothing about an agent is made up.  An agent is admitted, and into a
\* tenant, only as a record the gateway was handed decided; one it was handed
\* later than every unreadable record of that agent, and of a later revision than
\* all it had been handed before that one: neither an older decision nor a repeat
\* of the one it was refused at lifts a refusal.  An agent is refused because a
\* record decided that, or because one could not be read
\* (cmd/ingest-gateway/roster.go applying; agent/roster.go Apply, Refuse).
RosterHoldsADecision ==
  \A g \in Gateways, a \in Agents :
    LET held == gateway[g].known[a] IN
    /\ held.admits =>
         /\ \E i \in HandedOf(g, a) :
              Decided(g, a, i) /\ \A j \in UnreadOf(g, a) \cap kept : j < i
         /\ \A j \in UnreadOf(g, a) \cap kept, k \in HandedOf(g, a) \cap kept :
              k < j => log[k].revision < held.revision
    /\ held.seen /\ ~held.admits =>
         UnreadOf(g, a) # {} \/ \E i \in HandedOf(g, a) : Decided(g, a, i)

\* A confirmation is true of the moment it is dated: everything written before
\* the gateway asked has been applied (ingest/currency.go, Confirm; the order
\* in which StateLog.Behind reads the end and what was delivered).
CurrencyIsSound ==
  \A g \in Gateways, i \in Offsets :
    log[i].at < gateway[g].confirmed => i <= gateway[g].delivered

\* ADR 46's deadline, for a record the log still holds: once it has been there
\* for longer than StaleAfter, a serving gateway either refuses every batch, or
\* holds that decision or a newer one about the agent; and if nobody could read
\* it, does not admit the agent on anything it was handed before it.
EnforcedWithinBound ==
  \A g \in Gateways, i \in kept :
    gateway[g].phase = "serving" /\ ~Stale(g) /\ now - log[i].at > StaleAfter =>
      /\ log[i].agent \in Agents
      /\ IF Readable(log[i])
         THEN gateway[g].known[log[i].agent].revision >= log[i].revision
         ELSE gateway[g].known[log[i].agent].admits =>
                \E j \in Offsets : i < j /\ Decided(g, log[i].agent, j)

\* While a gateway runs, what it holds about an agent never goes back to an
\* earlier decision, whatever order the log was written in.
RosterNeverStepsBack ==
  [][\A g \in Gateways : Running(g) /\ gateway'[g].phase # "down" =>
       \A a \in Agents : gateway'[g].known[a].revision >= gateway[g].known[a].revision]_vars

\* ADR 46, as it is written: an agent whose revocation reached the log more
\* than StaleAfter ago is admitted by no serving gateway.
RevokedStaysRefused ==
  \A g \in Gateways, i \in Offsets :
    Final(log[i].state) /\ now - log[i].at > StaleAfter =>
      ~Admitting(g, log[i].agent)

\* Every decision the registry holds is in the end recorded as published.
EverythingIsAnnounced ==
  \A a \in Agents : []<>(registry[a].published = registry[a].revision)

\* Once decisions stop, every gateway that serves holds the last of them.
GatewaysConverge ==
  \A g \in Gateways, a \in Agents :
    <>[](gateway[g].phase = "serving" =>
           gateway[g].known[a].revision = registry[a].revision)
=============================================================================
