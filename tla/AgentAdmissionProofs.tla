------------------------ MODULE AgentAdmissionProofs ------------------------
(***************************************************************************)
(* What TLAPS proves of AgentAdmission, for any number of agents, workers  *)
(* and gateways and any value of the bounds: here the types, and what      *)
(* every later proof needs of the operators.                               *)
(***************************************************************************)
EXTENDS AgentAdmission, TLAPS

\* A registered row names one of the tenants, so what is told of it does too.
TenantIsChosen ==
  \A a \in Agents : Registered(a) => registry[a].tenant \in Tenants

\* An agent a gateway has no entry for is held at revision 0, as in a Go map.
UnseenIsZero ==
  \A g \in Gateways, a \in Agents :
    ~gateway[g].known[a].seen => gateway[g].known[a].revision = 0

TypeInv == TypeOK /\ TenantIsChosen /\ UnseenIsZero

\* The moves the handlers ask for, and all that typing needs of them.
AMove(move) ==
  /\ move.to \in States \cup {None}
  /\ move.identity \in {None, Certificate}

\* A row that takes a move is still a row, one revision on, of the same tenant.
LEMMA MovedRow ==
  ASSUME NEW row \in Row, NEW move, AMove(move), NEW t \in Nat
  PROVE  LET moved == [Moved(row, move) EXCEPT !.changedAt = t] IN
         /\ moved \in Row
         /\ moved.revision = row.revision + 1
         /\ moved.tenant = row.tenant
         /\ moved.published = row.published
<1>1. StateAfter(row, move) \in States
  BY DEF StateAfter, Changing, Binding, AMove, Row, States
<1>2. (IF Binding(move) THEN move.identity ELSE row.identity) \in {None, Certificate}
  BY DEF AMove, Row
<1>3. row.revision + 1 \in Nat
  BY DEF Row
<1> QED
  BY Zenon, <1>1, <1>2, <1>3 DEF Row, Moved

\* Each of the handlers' moves is one of those.
LEMMA HandlersMoves ==
  /\ \A to \in States : AMove(Transition(to, TRUE, 0))
  /\ AMove(BindIdentity(Certificate, 0))
  /\ AMove(Renewal(Certificate, Certificate, None))
  BY DEF AMove, Transition, BindIdentity, Renewal, States

\* A registered row's admission is a record a worker may carry.
LEMMA AdmissionType ==
  ASSUME NEW a \in Agents, NEW row \in Row, row.revision > 0, row.tenant \in Tenants
  PROVE  Admission(a, row) \in Admissions
  BY DEF Admission, Admissions, Row

\* A record of the log decides something about an agent, or cannot be read.
LEMMA RecordKinds ==
  ASSUME NEW record \in Records
  PROVE  /\ Readable(record) => record \in Decisions
         /\ record.agent # None => record.agent \in Agents
         /\ ~Readable(record) => record.revision = 0
         /\ record.revision \in Nat
         /\ record.at \in Nat
<1>1. CASE record \in Decisions
  BY <1>1 DEF Decisions, Readable, States, None
<1>2. CASE record \in [agent : Agents \cup {None}, tenant : {NoTenant}, state : {None},
                       revision : {0}, at : Nat]
  BY <1>2 DEF Readable
<1> QED
  BY <1>1, <1>2 DEF Records

\* What one record does to what a gateway holds keeps its type.
LEMMA ApplyType ==
  ASSUME NEW held \in Held, NEW record \in Decisions
  PROVE  Apply(held, record) \in Held
<1>1. CASE SteppedOver(held, record)
  BY <1>1 DEF Apply
<1>2. CASE ~SteppedOver(held, record) /\ Conflicts(held, record)
  <2>1. Refuse([held EXCEPT !.tenant = NoTenant]) \in Held
    BY Zenon DEF Refuse, Held
  <2> QED
    BY <1>2, <2>1 DEF Apply
<1>3. CASE ~SteppedOver(held, record) /\ ~Conflicts(held, record)
  <2>1. Admits(record.state) \in BOOLEAN
    BY DEF Admits
  <2>2. [seen |-> TRUE, admits |-> Admits(record.state),
         tenant |-> record.tenant, revision |-> record.revision] \in Held
    BY <2>1 DEF Held, Decisions
  <2> QED
    BY <1>3, <2>2 DEF Apply
<1> QED
  BY <1>1, <1>2, <1>3

\* What a gateway holds never becomes older, and is never older than the record.
LEMMA ApplyRaises ==
  ASSUME NEW held \in Held, ~held.seen => held.revision = 0, NEW record \in Decisions
  PROVE  /\ Apply(held, record).revision >= held.revision
         /\ Apply(held, record).revision >= record.revision
         /\ Apply(held, record).seen
  BY DEF Apply, Held, Decisions, SteppedOver, Conflicts, Refuse, Admits

\* The same of a record that may be one nobody can read.
LEMMA ReadRaises ==
  ASSUME NEW held \in Held, ~held.seen => held.revision = 0, NEW record \in Records
  PROVE  /\ ReadOrRefused(held, record) \in Held
         /\ ReadOrRefused(held, record).revision >= held.revision
         /\ ReadOrRefused(held, record).revision >= record.revision
         /\ ReadOrRefused(held, record).seen
<1>1. CASE Readable(record)
  BY <1>1, RecordKinds, ApplyType, ApplyRaises DEF ReadOrRefused
<1>2. CASE ~Readable(record)
  <2>1. /\ Refuse(held) \in Held /\ Refuse(held).seen
        /\ Refuse(held).revision = held.revision /\ held.revision \in Nat
    BY Zenon DEF Refuse, Held
  <2>2. record.revision = 0
    BY <1>2, RecordKinds
  <2> QED
    BY <1>2, <2>1, <2>2 DEF ReadOrRefused
<1> QED
  BY <1>1, <1>2

-----------------------------------------------------------------------------
(***************************************************************************)
(* The type invariant.                                                     *)
(***************************************************************************)
LEMMA InitTypeInv == Init => TypeInv
<1> SUFFICES ASSUME Init PROVE TypeInv
  OBVIOUS
<1>1. Unregistered \in Row
  BY DEF Unregistered, Row, States
<1>2. Unknown \in Held /\ ~Unknown.seen /\ Unknown.revision = 0
  BY DEF Unknown, Held
<1>3. TypeOK
  BY <1>1, <1>2 DEF Init, TypeOK, Down, NoCheck, Phases, GatewayState, CheckState
<1>4. TenantIsChosen
  BY DEF Init, TenantIsChosen, Registered, Unregistered
<1>5. UnseenIsZero
  BY <1>2 DEF Init, UnseenIsZero, Down
<1> QED
  BY <1>3, <1>4, <1>5 DEF TypeInv

\* A move of a row keeps the table typed, and every registered row's tenant.
LEMMA MoveType ==
  ASSUME TypeInv, NEW a \in Agents, NEW move, AMove(move), Move(a, move)
  PROVE  /\ registry' \in [Agents -> Row]
         /\ TenantIsChosen'
         /\ Admission(a, registry'[a]) \in Admissions
<1> DEFINE moved == [Moved(registry[a], move) EXCEPT !.changedAt = now]
<1>1. registry[a] \in Row /\ now \in Nat
  BY DEF TypeInv, TypeOK
<1>2. /\ moved \in Row
      /\ moved.revision = registry[a].revision + 1
      /\ moved.tenant = registry[a].tenant
  BY <1>1, MovedRow
<1>3. registry' = [registry EXCEPT ![a] = moved] /\ Registered(a)
  BY DEF Move
<1> HIDE DEF moved
<1>4. registry[a].tenant \in Tenants /\ registry[a].revision \in Nat
  BY <1>1, <1>3 DEF TypeInv, TenantIsChosen, Row
<1>5. registry' \in [Agents -> Row] /\ registry'[a] = moved
  BY <1>2, <1>3 DEF TypeInv, TypeOK
<1>6. TenantIsChosen'
  BY <1>2, <1>3, <1>4 DEF TypeInv, TypeOK, TenantIsChosen, Registered
<1>7. Admission(a, registry'[a]) \in Admissions
  BY <1>2, <1>4, <1>5, AdmissionType
<1> QED
  BY <1>5, <1>6, <1>7

\* What is ever written to the log: what a worker carries, or what nobody reads.
Writable == Admissions \cup {Unreadable(key) : key \in Agents \cup {None}}

\* The record a worker is about to publish is one of them.
LEMMA HeadIsWritable ==
  ASSUME TypeInv, NEW w \in Workers, ~Idle(w)
  PROVE  Head(carrying[w]) \in Writable
<1>1. carrying[w] \in Seq(Admissions) /\ carrying[w] # <<>>
  BY DEF TypeInv, TypeOK, Idle
<1> QED
  BY <1>1 DEF Writable

\* Once written, it keeps the log typed.
LEMMA WriteType ==
  ASSUME TypeInv, NEW r \in Writable, Write(r)
  PROVE  /\ log' \in Seq(Records)
         /\ kept' \subseteq 1..Len(log')
         /\ Len(log') = Len(log) + 1
<1> DEFINE entry == [agent |-> r.agent, tenant |-> r.tenant, state |-> r.state,
                     revision |-> r.revision, at |-> now]
<1>1. now \in Nat
  BY DEF TypeInv, TypeOK
<1>2. ASSUME r \in Admissions PROVE entry \in Decisions
  BY <1>1, <1>2 DEF Admissions, Decisions
<1>3. entry \in Records
  <2>1. ASSUME NEW key \in Agents \cup {None}, r = Unreadable(key) PROVE entry \in Records
    BY <1>1, <2>1 DEF Unreadable, Records
  <2> QED
    BY <1>2, <2>1 DEF Writable, Records
<1>4. log' = Append(log, entry) /\ kept' = kept \cup {Len(log) + 1}
  BY DEF Write
<1> HIDE DEF entry
<1>5. log \in Seq(Records) /\ kept \subseteq 1..Len(log) /\ Len(log) \in Nat
  BY DEF TypeInv, TypeOK
<1>6. log' \in Seq(Records) /\ Len(log') = Len(log) + 1
  BY <1>3, <1>4, <1>5
<1>7. kept' \subseteq 1..Len(log')
  <2> SUFFICES ASSUME NEW i \in kept' PROVE i \in 1..Len(log')
    OBVIOUS
  <2>1. i \in 1..Len(log) \/ i = Len(log) + 1
    BY <1>4, <1>5
  <2> QED
    BY <1>5, <1>6, <2>1
<1> QED
  BY <1>6, <1>7

\* A gateway that has just started, or stopped, holds nothing.
LEMMA StartedType ==
  /\ Down \in GatewayState
  /\ \A end \in Nat : [Down EXCEPT !.phase = "replaying", !.target = end] \in GatewayState
  /\ \A a \in Agents : ~Down.known[a].seen => Down.known[a].revision = 0
  /\ \A end \in Nat : [Down EXCEPT !.phase = "replaying", !.target = end].known = Down.known
<1>1. Unknown \in Held /\ ~Unknown.seen /\ Unknown.revision = 0
  BY DEF Unknown, Held
<1> QED
  BY Zenon, <1>1 DEF Down, GatewayState, Phases

\* One record read into a gateway's roster.
LEMMA DeliveredType ==
  ASSUME NEW held \in GatewayState, NEW i \in Nat, NEW record \in Records,
         record.agent # None,
         \A a \in Agents : ~held.known[a].seen => held.known[a].revision = 0
  PROVE  /\ Handed(held, i, record) \in GatewayState
         /\ \A a \in Agents : ~Handed(held, i, record).known[a].seen =>
                              Handed(held, i, record).known[a].revision = 0
<1> DEFINE known == [held.known EXCEPT ![record.agent] =
                       ReadOrRefused(held.known[record.agent], record)]
<1>1. record.agent \in Agents /\ held.known \in [Agents -> Held]
  BY RecordKinds DEF GatewayState
<1>2. /\ ReadOrRefused(held.known[record.agent], record) \in Held
      /\ ReadOrRefused(held.known[record.agent], record).seen
  BY <1>1, ReadRaises
<1>3. /\ known \in [Agents -> Held]
      /\ \A a \in Agents : ~known[a].seen => known[a].revision = 0
  BY <1>1, <1>2
<1>4. Handed(held, i, record) = [held EXCEPT !.position = i, !.known = known]
  BY DEF Handed
<1> HIDE DEF known
<1>5. /\ Handed(held, i, record) \in GatewayState
      /\ Handed(held, i, record).known = known
  BY Zenon, <1>3, <1>4 DEF GatewayState
<1> QED
  BY <1>3, <1>5

\* A step that changes one gateway and leaves the control plane and log alone.
LEMMA GatewayChangeType ==
  ASSUME TypeInv, NEW g \in Gateways, NEW new \in GatewayState,
         gateway' = [gateway EXCEPT ![g] = new],
         \A a \in Agents : ~new.known[a].seen => new.known[a].revision = 0,
         check' \in [Gateways -> CheckState],
         UNCHANGED <<registry, carrying, told, log, kept, now>>,
         failures' \in Nat, restarts' \in Nat
  PROVE  TypeInv'
  BY Zenon DEF TypeInv, TypeOK, TenantIsChosen, UnseenIsZero, Registered

\* Every step keeps the types.
LEMMA NextTypeInv == TypeInv /\ [Next]_vars => TypeInv'
<1> SUFFICES ASSUME TypeInv, [Next]_vars PROVE TypeInv'
  OBVIOUS
<1> USE DEF TypeInv, gatewayVars, logVars, controlVars
<1>1. CASE UNCHANGED vars
  BY <1>1 DEF vars, TypeOK, TenantIsChosen, UnseenIsZero, Registered
<1>2. ASSUME NEW w \in Workers, NEW a \in Agents, NEW t \in Tenants, Register(w, a, t)
      PROVE  TypeInv'
  <2> DEFINE row == [registry[a] EXCEPT !.revision = 1, !.tenant = t, !.changedAt = now]
  <2>1. registry' = [registry EXCEPT ![a] = row]
    BY <1>2 DEF Register
  <2>2. registry[a] \in Row /\ now \in Nat
    BY DEF TypeOK
  <2>3. row \in Row /\ row.revision = 1 /\ row.tenant = t
    BY Zenon, <2>2 DEF Row
  <2> HIDE DEF row
  <2>4. registry' \in [Agents -> Row] /\ registry'[a] = row
    BY <2>1, <2>3 DEF TypeOK
  <2>5. Admission(a, registry'[a]) \in Admissions
    BY <2>3, <2>4, AdmissionType
  <2>6. carrying' \in [Workers -> Seq(Admissions)]
    BY <1>2, <2>5 DEF Register, TypeOK
  <2>7. TypeOK'
    BY <1>2, <2>4, <2>6 DEF Register, TypeOK
  <2>8. TenantIsChosen'
    BY <2>1, <2>3 DEF TenantIsChosen, Registered, TypeOK
  <2>9. UnseenIsZero'
    BY <1>2 DEF Register, UnseenIsZero
  <2> QED
    BY <2>7, <2>8, <2>9
<1>3. ASSUME NEW w \in Workers, NEW a \in Agents, NEW move, AMove(move), MoveAgent(w, a, move)
      PROVE  TypeInv'
  <2>1. /\ registry' \in [Agents -> Row]
        /\ TenantIsChosen'
        /\ Admission(a, registry'[a]) \in Admissions
    BY <1>3, MoveType DEF MoveAgent
  <2>2. carrying' \in [Workers -> Seq(Admissions)]
    BY <1>3, <2>1 DEF MoveAgent, TypeOK
  <2>3. TypeOK' /\ UnseenIsZero'
    BY <1>3, <2>1, <2>2 DEF MoveAgent, TypeOK, UnseenIsZero
  <2> QED
    BY <2>1, <2>3
<1>4. ASSUME NEW a \in Agents, NEW move, AMove(move), MoveUnannounced(a, move)
      PROVE  TypeInv'
  <2>1. registry' \in [Agents -> Row] /\ TenantIsChosen'
    BY <1>4, MoveType DEF MoveUnannounced
  <2>2. TypeOK' /\ UnseenIsZero'
    BY <1>4, <2>1 DEF MoveUnannounced, TypeOK, UnseenIsZero
  <2> QED
    BY <2>1, <2>2
<1>5. ASSUME NEW w \in Workers, Sweep(w) PROVE TypeInv'
  <2>1. PICK batch \in OutstandingBatches :
          carrying' = [carrying EXCEPT ![w] =
            [i \in 1..Len(batch) |-> Admission(batch[i], registry[batch[i]])]]
    BY Zenon, <1>5 DEF Sweep
  <2>2. PICK n \in 1..Batch : batch \in [1..n -> Agents]
    BY DEF OutstandingBatches
  <2>3. n \in Nat /\ batch \in Seq(Agents) /\ Len(batch) = n /\ DOMAIN batch = 1..n
    BY <2>2, ConstantsAssumption
  <2>4. \A i \in 1..n : IsOutstanding(batch[i])
    BY <2>3 DEF OutstandingBatches
  <2>5. \A i \in 1..n : Admission(batch[i], registry[batch[i]]) \in Admissions
    <3> TAKE i \in 1..n
    <3>1. batch[i] \in Agents /\ registry[batch[i]] \in Row
      BY <2>2 DEF TypeOK
    <3>2. registry[batch[i]].revision > 0
      BY <2>4, <3>1 DEF IsOutstanding, Row
    <3>3. registry[batch[i]].tenant \in Tenants
      BY <3>1, <3>2 DEF TenantIsChosen, Registered
    <3> QED
      BY <3>1, <3>2, <3>3, AdmissionType
  <2>6. [i \in 1..Len(batch) |-> Admission(batch[i], registry[batch[i]])] \in Seq(Admissions)
    BY <2>3, <2>5
  <2>7. carrying' \in [Workers -> Seq(Admissions)]
    BY <2>1, <2>6 DEF TypeOK
  <2> QED
    BY <1>5, <2>7 DEF Sweep, TypeOK, TenantIsChosen, UnseenIsZero, Registered
<1>6. ASSUME NEW w \in Workers, Publish(w) PROVE TypeInv'
  <2>1. log' \in Seq(Records) /\ kept' \subseteq 1..Len(log')
    BY <1>6, HeadIsWritable, WriteType DEF Publish
  <2> QED
    BY <1>6, <2>1 DEF Publish, TypeOK, TenantIsChosen, UnseenIsZero, Registered
<1>7. ASSUME NEW w \in Workers, RecordAnnounced(w) PROVE TypeInv'
  <2> DEFINE r == Head(carrying[w])
  <2>1. carrying[w] \in Seq(Admissions) /\ carrying[w] # <<>>
    BY <1>7 DEF TypeOK, RecordAnnounced, Idle
  <2>2. r \in Admissions /\ Tail(carrying[w]) \in Seq(Admissions)
    BY <2>1
  <2>3. r.agent \in Agents /\ r.revision \in Nat
    BY <2>2 DEF Admissions
  <2> DEFINE row == Announced(registry[r.agent], r.revision)
  <2>4. registry' = [registry EXCEPT ![r.agent] = row]
    BY <1>7 DEF RecordAnnounced
  <2>5a. registry[r.agent] \in Row
    BY <2>3 DEF TypeOK
  <2>5b. /\ row \in Row
         /\ row.revision = registry[r.agent].revision
         /\ row.tenant = registry[r.agent].tenant
    BY <2>3, <2>5a DEF Row, Announced
  <2> HIDE DEF r, row
  <2>5. registry' \in [Agents -> Row]
    BY <2>3, <2>4, <2>5b DEF TypeOK
  <2>6. TenantIsChosen'
    BY <2>3, <2>4, <2>5b DEF TypeOK, TenantIsChosen, Registered
  <2>7. carrying' \in [Workers -> Seq(Admissions)] /\ told' \in [Workers -> BOOLEAN]
    BY <1>7, <2>2 DEF RecordAnnounced, TypeOK
  <2> QED
    BY <1>7, <2>5, <2>6, <2>7 DEF RecordAnnounced, TypeOK, UnseenIsZero
<1>8. ASSUME NEW w \in Workers, GiveUp(w) PROVE TypeInv'
  BY <1>8 DEF GiveUp, Dropped, TypeOK, TenantIsChosen, UnseenIsZero, Registered
<1>9. ASSUME NEW w \in Workers, PublishUnanswered(w) PROVE TypeInv'
  <2>1. log' \in Seq(Records) /\ kept' \subseteq 1..Len(log')
    BY <1>9, HeadIsWritable, WriteType DEF PublishUnanswered
  <2> QED
    BY <1>9, <2>1 DEF PublishUnanswered, Dropped, TypeOK, TenantIsChosen, UnseenIsZero, Registered
<1>10. ASSUME NEW i \in kept, Compact(i) PROVE TypeInv'
  BY <1>10 DEF Compact, TypeOK, TenantIsChosen, UnseenIsZero, Registered
<1>11. ASSUME NEW g \in Gateways, Start(g) PROVE TypeInv'
  <2>1. PICK end \in {0, Len(log)} :
          gateway' = [gateway EXCEPT ![g] =
                        [Down EXCEPT !.phase = "replaying", !.target = end]]
    BY Zenon, <1>11 DEF Start
  <2> DEFINE new == [Down EXCEPT !.phase = "replaying", !.target = end]
  <2>2. end \in Nat
    BY <2>1 DEF TypeOK
  <2>3. /\ new \in GatewayState
        /\ \A a \in Agents : ~new.known[a].seen => new.known[a].revision = 0
    BY Zenon, <2>2, StartedType
  <2>4. /\ gateway' = [gateway EXCEPT ![g] = new]
        /\ check' \in [Gateways -> CheckState]
        /\ UNCHANGED <<registry, carrying, told, log, kept, now>>
        /\ failures' \in Nat /\ restarts' \in Nat
    BY Zenon, <1>11, <2>1 DEF Start, TypeOK
  <2> HIDE DEF new
  <2> QED
    BY Zenon, <2>3, <2>4, GatewayChangeType
<1>12. ASSUME NEW g \in Gateways, NEW i \in kept, Deliver(g, i) PROVE TypeInv'
  <2> DEFINE new == Handed(gateway[g], i, log[i])
  <2>1. i \in Nat /\ log[i] \in Records /\ gateway[g] \in GatewayState
    BY DEF TypeOK
  <2>2. \A a \in Agents : ~gateway[g].known[a].seen => gateway[g].known[a].revision = 0
    BY DEF UnseenIsZero
  <2>3. /\ new \in GatewayState
        /\ \A a \in Agents : ~new.known[a].seen => new.known[a].revision = 0
    BY <1>12, <2>1, <2>2, DeliveredType DEF Deliver
  <2> QED
    BY Zenon, <1>12, <2>3, GatewayChangeType DEF Deliver, TypeOK
<1>13. ASSUME NEW g \in Gateways, NEW new, gateway' = [gateway EXCEPT ![g] = new],
              new \in GatewayState, new.known = gateway[g].known,
              check' \in [Gateways -> CheckState], failures' \in Nat,
              UNCHANGED <<registry, carrying, told, log, kept, now, restarts>>
       PROVE  TypeInv'
  <2>1. \A a \in Agents : ~new.known[a].seen => new.known[a].revision = 0
    BY <1>13 DEF UnseenIsZero
  <2> QED
    BY Zenon, <1>13, <2>1, GatewayChangeType DEF TypeOK
<1>14. ASSUME NEW g \in Gateways, Advance(g) \/ Replayed(g) PROVE TypeInv'
  <2> DEFINE advanced == [gateway[g] EXCEPT !.delivered = gateway[g].position]
             replayed == [gateway[g] EXCEPT !.phase = "confirming"]
  <2>1. /\ advanced \in GatewayState /\ advanced.known = gateway[g].known
        /\ replayed \in GatewayState /\ replayed.known = gateway[g].known
    BY Zenon DEF TypeOK, GatewayState, Phases
  <2>2. CASE Advance(g)
    BY Zenon, <2>1, <2>2, <1>13 DEF Advance, TypeOK
  <2>3. CASE Replayed(g)
    BY Zenon, <2>1, <2>3, <1>13 DEF Replayed, TypeOK
  <2> QED
    BY <1>14, <2>2, <2>3
<1>15. ASSUME NEW g \in Gateways, Ask(g) \/ ListEnd(g) PROVE TypeInv'
  <2> DEFINE asks == [step |-> "asked", asked |-> now, end |-> 0]
             lists == [check[g] EXCEPT !.step = "listed", !.end = Len(log)]
  <2>1. check[g] \in CheckState /\ Len(log) \in Nat /\ now \in Nat
    BY DEF TypeOK
  <2>2. asks \in CheckState
    BY <2>1 DEF CheckState
  <2>3. lists \in CheckState
    BY Zenon, <2>1 DEF CheckState
  <2>4. check' = [check EXCEPT ![g] = asks] \/ check' = [check EXCEPT ![g] = lists]
    BY <1>15 DEF Ask, ListEnd
  <2> HIDE DEF asks, lists
  <2>5. check' \in [Gateways -> CheckState]
    BY Zenon, <2>2, <2>3, <2>4 DEF TypeOK
  <2> QED
    BY <1>15, <2>5 DEF Ask, ListEnd, TypeOK, TenantIsChosen, UnseenIsZero, Registered
<1>16. ASSUME NEW g \in Gateways,
              Confirm(g) \/ Unreachable(g) \/ Stop(g) \/ \E i \in kept : DeliverNameless(g, i)
       PROVE  TypeInv'
  <2>1. NoCheck \in CheckState /\ check[g] \in CheckState /\ gateway[g] \in GatewayState
    BY DEF TypeOK, CheckState, NoCheck
  <2>2. check' \in [Gateways -> CheckState]
    BY Zenon, <1>16, <2>1 DEF Confirm, Unreachable, Stop, DeliverNameless, TypeOK
  <2>3. \A at \in Nat : /\ Checked(gateway[g], at) \in GatewayState
                        /\ Checked(gateway[g], at).known = gateway[g].known
    BY Zenon, <2>1 DEF GatewayState, Checked, Phases
  <2>4. CASE Confirm(g)
    <3> DEFINE current == IF check[g].end <= gateway[g].delivered
                          THEN check[g].asked ELSE gateway[g].confirmed
    <3>1. current \in Nat
      BY <2>1 DEF CheckState, GatewayState
    <3>2. gateway' = [gateway EXCEPT ![g] = Checked(gateway[g], current)]
      BY <2>4 DEF Confirm
    <3>3. failures' \in Nat /\ UNCHANGED <<registry, carrying, told, log, kept, now, restarts>>
      BY <2>4 DEF Confirm, TypeOK
    <3> HIDE DEF current
    <3> QED
      BY Zenon, <2>2, <2>3, <3>1, <3>2, <3>3, <1>13
  <2>5. CASE Unreachable(g)
    <3>1. gateway[g].confirmed \in Nat
      BY <2>1 DEF GatewayState
    <3>2. gateway' = [gateway EXCEPT ![g] = Checked(gateway[g], gateway[g].confirmed)]
      BY <2>5 DEF Unreachable
    <3>3. failures' \in Nat /\ UNCHANGED <<registry, carrying, told, log, kept, now, restarts>>
      BY <2>5 DEF Unreachable, TypeOK
    <3> QED
      BY Zenon, <2>2, <2>3, <3>1, <3>2, <3>3, <1>13
  <2>6. CASE Stop(g) \/ \E i \in kept : DeliverNameless(g, i)
    <3>1. /\ gateway' = [gateway EXCEPT ![g] = Down]
          /\ failures' \in Nat /\ restarts' \in Nat
          /\ UNCHANGED <<registry, carrying, told, log, kept, now>>
      BY <2>6 DEF Stop, DeliverNameless, TypeOK
    <3>2. /\ Down \in GatewayState
          /\ \A a \in Agents : ~Down.known[a].seen => Down.known[a].revision = 0
      BY Zenon, StartedType
    <3> QED
      BY Zenon, <2>2, <3>1, <3>2, GatewayChangeType
  <2> QED
    BY <1>16, <2>4, <2>5, <2>6
<1>17. CASE Tick
  BY <1>17 DEF Tick, TypeOK, TenantIsChosen, UnseenIsZero, Registered
<1>18. ASSUME NEW key \in Agents \cup {None}, WriteUnreadable(key) PROVE TypeInv'
  <2>1. log' \in Seq(Records) /\ kept' \subseteq 1..Len(log')
    BY <1>18, WriteType DEF WriteUnreadable, Writable
  <2> QED
    BY <1>18, <2>1 DEF WriteUnreadable, TypeOK, TenantIsChosen, UnseenIsZero, Registered
<1> QED
  <2>1. CASE \E w \in Workers, a \in Agents : Decide(w, a)
    BY Zenon, <2>1, <1>2, <1>3, HandlersMoves DEF Decide, TransitionAgent, BindAgentIdentity
  <2>2. CASE \E a \in Agents : IssueCertificate(a) \/ RenewCertificate(a)
    BY <2>2, <1>4, HandlersMoves DEF IssueCertificate, RenewCertificate
  <2>3. CASE \E w \in Workers : Carry(w)
    BY <2>3, <1>5, <1>6, <1>7, <1>8, <1>9 DEF Carry
  <2>4. CASE \E g \in Gateways : Gate(g)
    BY <2>4, <1>11, <1>12, <1>14, <1>15, <1>16 DEF Gate
  <2> QED
    BY <1>1, <1>10, <1>17, <1>18, <2>1, <2>2, <2>3, <2>4 DEF Next

\* Every variable keeps its type, in every behaviour.
THEOREM TypeCorrect == Spec => []TypeOK
<1>1. TypeInv => TypeOK
  BY DEF TypeInv
<1> QED
  BY InitTypeInv, NextTypeInv, <1>1, PTL DEF Spec
=============================================================================
