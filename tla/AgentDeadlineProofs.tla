------------------------ MODULE AgentDeadlineProofs -------------------------
(***************************************************************************)
(* The deadline.  EnforcedWithinBound is not inductive: that a gateway     *)
(* which is not stale holds a decision follows from when it confirmed      *)
(* (CurrencyIsSound), what it had read by then (ReadInOrder, and           *)
(* NamelessIsNotPassed) and what reading leaves in the roster              *)
(* (RosterHoldsNewest here, RosterHoldsADecision in AgentReadProofs); and  *)
(* a confirmation is sound only because a check in flight is               *)
(* (CheckIsSound), which rests on nothing being written in the past        *)
(* (WrittenInThePast).                                                     *)
(***************************************************************************)
EXTENDS AgentAdmissionProofs

\* No record is dated after the clock.
WrittenInThePast == \A i \in Offsets : log[i].at <= now

\* A gateway counts as delivered no more than it has applied.
ReadInOrder ==
  \A g \in Gateways :
    /\ gateway[g].delivered <= gateway[g].position
    /\ gateway[g].position <= Len(log)

\* The end a check listed covers everything written before the check asked.
CheckIsSound ==
  \A g \in Gateways :
    /\ check[g].step # "none" => check[g].asked <= now
    /\ check[g].step = "listed" =>
         \A i \in Offsets : log[i].at < check[g].asked => i <= check[g].end

\* A confirmation is never dated after the clock.
ConfirmedInThePast == \A g \in Gateways : gateway[g].confirmed <= now

\* A gateway is never past a record that names no agent.
NamelessIsNotPassed ==
  \A g \in Gateways : \A i \in kept : i <= gateway[g].position => log[i].agent # None

DeadlineInv ==
  /\ TypeInv
  /\ WrittenInThePast
  /\ ReadInOrder
  /\ CheckIsSound
  /\ ConfirmedInThePast
  /\ CurrencyIsSound
  /\ NamelessIsNotPassed
  /\ RosterHoldsNewest

LEMMA InitDeadlineInv == Init => DeadlineInv
<1> SUFFICES ASSUME Init PROVE DeadlineInv
  OBVIOUS
<1>1. TypeInv
  BY InitTypeInv
<1>2. Offsets = {} /\ kept = {}
  BY DEF Init, Offsets
<1>3. \A g \in Gateways : gateway[g] = Down /\ check[g] = NoCheck
  BY DEF Init
<1>4. ReadInOrder /\ ConfirmedInThePast
  BY <1>3 DEF Init, ReadInOrder, ConfirmedInThePast, Down
<1>5. CheckIsSound
  BY <1>3 DEF CheckIsSound, NoCheck
<1> QED
  BY <1>1, <1>2, <1>4, <1>5
     DEF DeadlineInv, WrittenInThePast, CurrencyIsSound,
         NamelessIsNotPassed, RosterHoldsNewest

\* What the invariant is about does not change when the log and readers do not.
LEMMA DeadlineUnmoved ==
  ASSUME DeadlineInv, TypeInv', UNCHANGED <<log, kept, gateway, check, now>>
  PROVE  DeadlineInv'
  BY DEF DeadlineInv, WrittenInThePast, ReadInOrder, CheckIsSound, ConfirmedInThePast,
         CurrencyIsSound, NamelessIsNotPassed, RosterHoldsNewest, Offsets

\* A record written now is dated now, and is past everything any gateway read.
LEMMA DeadlineWrite ==
  ASSUME DeadlineInv, TypeInv', NEW r, Write(r), UNCHANGED <<gateway, check, now>>
  PROVE  DeadlineInv'
<1> DEFINE entry == [agent |-> r.agent, tenant |-> r.tenant, state |-> r.state,
                     revision |-> r.revision, at |-> now]
<1>1. log' = Append(log, entry) /\ kept' = kept \cup {Len(log) + 1}
  BY DEF Write
<1>2. entry.at = now /\ Len(log) \in Nat /\ now \in Nat /\ kept \subseteq 1..Len(log)
  BY DEF DeadlineInv, TypeInv, TypeOK
<1> HIDE DEF entry
<1>3. /\ Len(log') = Len(log) + 1
      /\ \A i \in Offsets : log'[i] = log[i]
      /\ log'[Len(log) + 1] = entry
      /\ Offsets' = Offsets \cup {Len(log) + 1}
  BY <1>1, <1>2 DEF DeadlineInv, TypeInv, TypeOK, Offsets
<1>4. WrittenInThePast'
  BY <1>2, <1>3 DEF DeadlineInv, WrittenInThePast
<1>5. /\ \A g \in Gateways : gateway[g] \in GatewayState /\ check[g] \in CheckState
      /\ Offsets \subseteq Nat
  BY DEF DeadlineInv, TypeInv, TypeOK, Offsets
<1>6. ReadInOrder'
  BY <1>2, <1>3, <1>5 DEF DeadlineInv, ReadInOrder, GatewayState
<1>7. CheckIsSound'
  BY <1>2, <1>3, <1>5 DEF DeadlineInv, CheckIsSound, CheckState
<1>8. ConfirmedInThePast'
  BY DEF DeadlineInv, ConfirmedInThePast
<1>9. CurrencyIsSound'
  BY <1>2, <1>3, <1>5 DEF DeadlineInv, CurrencyIsSound, ConfirmedInThePast, GatewayState
<1>10. \A g \in Gateways : \A i \in kept' :
         i <= gateway[g].position => i \in kept /\ log'[i] = log[i]
  BY <1>1, <1>2, <1>3, <1>5 DEF DeadlineInv, ReadInOrder, GatewayState, Offsets
<1>11. RosterHoldsNewest' /\ NamelessIsNotPassed'
  BY <1>10 DEF DeadlineInv, RosterHoldsNewest, NamelessIsNotPassed, Readable
<1> QED
  BY <1>4, <1>6, <1>7, <1>8, <1>9, <1>11 DEF DeadlineInv

\* What a step that replaces one gateway's state has to show of the new one.
LEMMA DeadlineGateway ==
  ASSUME DeadlineInv, TypeInv', NEW g \in Gateways, NEW new \in GatewayState,
         gateway' = [gateway EXCEPT ![g] = new],
         UNCHANGED <<log, kept, now>>, CheckIsSound',
         new.delivered <= new.position, new.position <= Len(log), new.confirmed <= now,
         \A i \in Offsets : log[i].at < new.confirmed => i <= new.delivered,
         \A i \in kept : i <= new.position =>
           /\ log[i].agent # None
           /\ Readable(log[i]) => new.known[log[i].agent].revision >= log[i].revision
  PROVE  DeadlineInv'
<1>1. \A h \in Gateways : gateway'[h] = IF h = g THEN new ELSE gateway[h]
  BY DEF DeadlineInv, TypeInv, TypeOK
<1> QED
  BY <1>1 DEF DeadlineInv, WrittenInThePast, ReadInOrder, ConfirmedInThePast,
              CurrencyIsSound, NamelessIsNotPassed, RosterHoldsNewest, Readable, Offsets

\* Every step keeps the invariant.
LEMMA NextDeadlineInv == DeadlineInv /\ [Next]_vars => DeadlineInv'
<1> SUFFICES ASSUME DeadlineInv, [Next]_vars PROVE DeadlineInv'
  OBVIOUS
<1>t. TypeInv'
  BY NextTypeInv DEF DeadlineInv
<1>k. /\ \A g \in Gateways : gateway[g] \in GatewayState /\ check[g] \in CheckState
      /\ Len(log) \in Nat /\ now \in Nat /\ kept \subseteq Offsets /\ Offsets \subseteq Nat
      /\ Offsets = 1..Len(log)
      /\ \A i \in Offsets : log[i] \in Records
  BY DEF DeadlineInv, TypeInv, TypeOK, Offsets
<1> USE DEF gatewayVars, logVars, controlVars
<1>1. CASE UNCHANGED vars
  BY <1>1, <1>t, DeadlineUnmoved DEF vars
<1>2. CASE \E w \in Workers, a \in Agents : Decide(w, a)
  BY Zenon, <1>2, <1>t, DeadlineUnmoved
     DEF Decide, Register, TransitionAgent, BindAgentIdentity, MoveAgent
<1>3. CASE \E a \in Agents : IssueCertificate(a) \/ RenewCertificate(a)
  BY <1>3, <1>t, DeadlineUnmoved DEF IssueCertificate, RenewCertificate, MoveUnannounced
<1>4. ASSUME NEW w \in Workers, Sweep(w) \/ RecordAnnounced(w) \/ GiveUp(w) PROVE DeadlineInv'
  BY <1>4, <1>t, DeadlineUnmoved DEF Sweep, RecordAnnounced, GiveUp
<1>5. ASSUME NEW w \in Workers, Publish(w) \/ PublishUnanswered(w) PROVE DeadlineInv'
  BY <1>5, <1>t, DeadlineWrite DEF Publish, PublishUnanswered
<1>13. ASSUME NEW key \in Agents \cup {None}, WriteUnreadable(key) PROVE DeadlineInv'
  BY <1>13, <1>t, DeadlineWrite DEF WriteUnreadable
<1>6. ASSUME NEW i \in kept, Compact(i) PROVE DeadlineInv'
  BY <1>6, <1>t DEF Compact, DeadlineInv, WrittenInThePast, ReadInOrder, CheckIsSound,
                    ConfirmedInThePast, CurrencyIsSound, NamelessIsNotPassed,
                    RosterHoldsNewest, Offsets
<1>7. ASSUME NEW g \in Gateways, Start(g) \/ Stop(g) \/ \E i \in kept : DeliverNameless(g, i)
      PROVE  DeadlineInv'
  <2>1. PICK new \in GatewayState :
          /\ gateway' = [gateway EXCEPT ![g] = new]
          /\ new.delivered = 0 /\ new.position = 0 /\ new.confirmed = 0
    <3>1. \A end \in Nat :
            /\ [Down EXCEPT !.phase = "replaying", !.target = end] \in GatewayState
            /\ [Down EXCEPT !.phase = "replaying", !.target = end].delivered = 0
            /\ [Down EXCEPT !.phase = "replaying", !.target = end].position = 0
            /\ [Down EXCEPT !.phase = "replaying", !.target = end].confirmed = 0
      BY Zenon, StartedType DEF Down
    <3>2. CASE Start(g)
      <4>1. PICK end \in {0, Len(log)} :
              gateway' = [gateway EXCEPT ![g] =
                            [Down EXCEPT !.phase = "replaying", !.target = end]]
        BY Zenon, <3>2 DEF Start
      <4> DEFINE started == [Down EXCEPT !.phase = "replaying", !.target = end]
      <4>2. /\ started \in GatewayState /\ gateway' = [gateway EXCEPT ![g] = started]
            /\ started.delivered = 0 /\ started.position = 0 /\ started.confirmed = 0
        BY Zenon, <1>k, <3>1, <4>1
      <4> HIDE DEF started
      <4> QED
        BY Zenon, <4>2
    <3>3. CASE Stop(g) \/ \E i \in kept : DeliverNameless(g, i)
      BY Zenon, <3>3, StartedType DEF Stop, DeliverNameless, Down
    <3> QED
      BY <1>7, <3>2, <3>3
  <2>2. UNCHANGED <<log, kept, now>>
    BY <1>7 DEF Start, Stop, DeliverNameless
  <2>3. \A h \in Gateways : check'[h] = check[h] \/ check'[h] = NoCheck
    BY <1>7 DEF Start, Stop, DeliverNameless, DeadlineInv, TypeInv, TypeOK
  <2>4. CheckIsSound'
    BY <2>2, <2>3 DEF DeadlineInv, CheckIsSound, NoCheck, Offsets
  <2>5. \A i \in Offsets : ~(log[i].at < new.confirmed) /\ ~(i <= new.position)
    BY <1>k, <2>1, RecordKinds DEF Offsets
  <2>6. \A i \in kept : ~(i <= new.position)
    BY <1>k, <2>5
  <2>7. new.delivered <= new.position /\ new.position <= Len(log) /\ new.confirmed <= now
    BY <1>k, <2>1
  <2> QED
    BY Zenon, <1>t, <2>1, <2>2, <2>4, <2>5, <2>6, <2>7, DeadlineGateway
<1>8. ASSUME NEW g \in Gateways, NEW i \in kept, Deliver(g, i) PROVE DeadlineInv'
  <2> DEFINE new == Handed(gateway[g], i, log[i])
             old == gateway[g]
             b   == log[i].agent
  <2>1. /\ old \in GatewayState /\ i \in Nat /\ i \in Offsets /\ log[i] \in Records
        /\ b \in Agents /\ b # None /\ old.known[b] \in Held
    BY <1>k, <1>8, RecordKinds DEF Deliver, GatewayState
  <2>2. /\ gateway' = [gateway EXCEPT ![g] = new]
        /\ UNCHANGED <<log, kept, now, check>>
        /\ i > old.position
        /\ \A j \in kept : j > old.position => i <= j
    BY <1>8 DEF Deliver, NextOffset
  <2>3. \A a \in Agents : ~old.known[a].seen => old.known[a].revision = 0
    BY DEF DeadlineInv, TypeInv, UnseenIsZero
  <2>4. new \in GatewayState
    BY <2>1, <2>3, DeliveredType
  <2>5. /\ new.delivered = old.delivered
        /\ new.confirmed = old.confirmed
        /\ new.position = i
        /\ new.known = [old.known EXCEPT ![b] = ReadOrRefused(old.known[b], log[i])]
    BY <2>1 DEF Handed, GatewayState
  <2>6. /\ ReadOrRefused(old.known[b], log[i]).revision >= old.known[b].revision
        /\ ReadOrRefused(old.known[b], log[i]).revision >= log[i].revision
        /\ ReadOrRefused(old.known[b], log[i]) \in Held
    BY <2>1, <2>3, ReadRaises
  <2>7. CheckIsSound'
    BY <2>2 DEF DeadlineInv, CheckIsSound, Offsets
  <2>8. /\ old.delivered <= old.position /\ old.position <= Len(log) /\ old.confirmed <= now
        /\ \A j \in Offsets : log[j].at < old.confirmed => j <= old.delivered
        /\ \A j \in kept : j <= old.position =>
             /\ log[j].agent # None
             /\ Readable(log[j]) => old.known[log[j].agent].revision >= log[j].revision
    BY DEF DeadlineInv, ReadInOrder, ConfirmedInThePast, CurrencyIsSound, NamelessIsNotPassed,
           RosterHoldsNewest
  <2>9. \A j \in kept : j <= i =>
          /\ log[j].agent # None
          /\ Readable(log[j]) => new.known[log[j].agent].revision >= log[j].revision
    <3> SUFFICES ASSUME NEW j \in kept, j <= i
                 PROVE  /\ log[j].agent # None
                        /\ Readable(log[j]) =>
                             new.known[log[j].agent].revision >= log[j].revision
      OBVIOUS
    <3>0. /\ j \in Nat /\ log[j] \in Records /\ old.position \in Nat
          /\ old.known \in [Agents -> Held]
      BY <1>k, <2>1 DEF GatewayState
    <3>2. j <= old.position \/ j = i
      BY <2>1, <2>2, <3>0
    <3>1. /\ j \in Nat /\ log[j] \in Records
          /\ log[j].agent # None /\ log[j].agent \in Agents
          /\ old.known \in [Agents -> Held] /\ old.position \in Nat
      BY <2>1, <2>8, <3>0, <3>2, RecordKinds
    <3>3. CASE j = i
      BY <2>5, <2>6, <3>1, <3>3
    <3>4. CASE j <= old.position /\ log[j].agent # b
      BY <2>5, <2>8, <3>1, <3>4
    <3>5. CASE j <= old.position /\ log[j].agent = b /\ Readable(log[j])
      <4>1. old.known[b].revision >= log[j].revision
        BY <2>8, <3>5
      <4>2. new.known[log[j].agent].revision >= old.known[b].revision
        BY <2>5, <2>6, <3>1, <3>5
      <4>3. old.known[b].revision \in Nat /\ log[j].revision \in Nat
        BY <2>1, <3>1, RecordKinds DEF Held
      <4>4. new.known[log[j].agent].revision \in Nat
        BY SMTT(30), <2>4, <3>1 DEF GatewayState, Held
      <4> DEFINE after == new.known[log[j].agent].revision
                 before == old.known[b].revision
                 read == log[j].revision
      <4>5. /\ before >= read /\ after >= before
            /\ before \in Nat /\ read \in Nat /\ after \in Nat
        BY <4>1, <4>2, <4>3, <4>4
      <4> HIDE DEF after, before, read
      <4>6. after >= read
        BY <4>5
      <4> QED
        BY <3>1, <4>6 DEF after, read
    <3> QED
      BY <3>1, <3>2, <3>3, <3>4, <3>5
  <2> HIDE DEF new
  <2>10. new.delivered <= new.position /\ new.position <= Len(log) /\ new.confirmed <= now
    <3>1. old.delivered \in Nat /\ old.position \in Nat
      BY <2>1 DEF GatewayState
    <3>2. old.delivered <= i
      BY <2>1, <2>2, <2>8, <3>1
    <3>3. i <= Len(log)
      BY <2>1 DEF Offsets
    <3> QED
      BY <2>5, <2>8, <3>2, <3>3
  <2>11. \A j \in Offsets : log[j].at < new.confirmed => j <= new.delivered
    BY <2>5, <2>8
  <2>12. \A j \in kept : j <= new.position =>
           /\ log[j].agent # None
           /\ Readable(log[j]) => new.known[log[j].agent].revision >= log[j].revision
    BY <2>5, <2>9
  <2> QED
    BY Zenon, <1>t, <2>2, <2>4, <2>7, <2>10, <2>11, <2>12, DeadlineGateway
<1>9. ASSUME NEW g \in Gateways, Advance(g) \/ Replayed(g) PROVE DeadlineInv'
  <2> DEFINE old == gateway[g]
  <2>1. old \in GatewayState
    BY <1>k
  <2>2. PICK new \in GatewayState :
          /\ gateway' = [gateway EXCEPT ![g] = new]
          /\ new.delivered \in {old.delivered, old.position}
          /\ new.confirmed = old.confirmed
          /\ new.position = old.position
          /\ new.known = old.known
    <3>1. CASE Advance(g)
      <4> DEFINE new == [old EXCEPT !.delivered = old.position]
      <4>1. new \in GatewayState /\ gateway' = [gateway EXCEPT ![g] = new]
        BY <2>1, <3>1 DEF Advance, GatewayState
      <4> QED
        BY Zenon, <2>1, <4>1 DEF GatewayState
    <3>2. CASE Replayed(g)
      <4> DEFINE new == [old EXCEPT !.phase = "confirming"]
      <4>1. new \in GatewayState /\ gateway' = [gateway EXCEPT ![g] = new]
        BY <2>1, <3>2 DEF Replayed, GatewayState, Phases
      <4> QED
        BY Zenon, <2>1, <4>1 DEF GatewayState
    <3> QED
      BY <1>9, <3>1, <3>2
  <2>3. UNCHANGED <<log, kept, now, check>>
    BY <1>9 DEF Advance, Replayed
  <2>4. CheckIsSound'
    BY <2>3 DEF DeadlineInv, CheckIsSound, Offsets
  <2>5. /\ old.delivered <= old.position /\ old.position <= Len(log) /\ old.confirmed <= now
        /\ \A j \in Offsets : log[j].at < old.confirmed => j <= old.delivered
        /\ \A j \in kept : j <= old.position =>
             /\ log[j].agent # None
             /\ Readable(log[j]) => old.known[log[j].agent].revision >= log[j].revision
    BY DEF DeadlineInv, ReadInOrder, ConfirmedInThePast, CurrencyIsSound, NamelessIsNotPassed,
           RosterHoldsNewest
  <2>6. /\ new.delivered <= new.position /\ old.delivered <= new.delivered
        /\ old.delivered \in Nat /\ new.delivered \in Nat
    BY <2>1, <2>2, <2>5 DEF GatewayState
  <2>7. \A j \in Offsets : log[j].at < new.confirmed => j <= new.delivered
    <3> SUFFICES ASSUME NEW j \in Offsets, log[j].at < new.confirmed PROVE j <= new.delivered
      OBVIOUS
    <3>1. j <= old.delivered /\ j \in Nat
      BY <1>k, <2>2, <2>5
    <3> QED
      BY <2>6, <3>1
  <2> QED
    BY Zenon, <1>t, <2>2, <2>3, <2>4, <2>5, <2>6, <2>7, DeadlineGateway
<1>10. ASSUME NEW g \in Gateways, Ask(g) \/ ListEnd(g) PROVE DeadlineInv'
  <2>1. UNCHANGED <<log, kept, now, gateway>>
    BY <1>10 DEF Ask, ListEnd
  <2>2. \A h \in Gateways : h # g => check'[h] = check[h]
    BY <1>10 DEF Ask, ListEnd, DeadlineInv, TypeInv, TypeOK
  <2>3. /\ check'[g].step # "none" => check'[g].asked <= now
        /\ check'[g].step = "listed" =>
             \A i \in Offsets : log[i].at < check'[g].asked => i <= check'[g].end
    <3>1. CASE Ask(g)
      <4>1. check'[g] = [step |-> "asked", asked |-> now, end |-> 0]
        BY <3>1 DEF Ask, DeadlineInv, TypeInv, TypeOK
      <4>2. check'[g].step = "asked" /\ check'[g].asked = now
        BY <4>1
      <4>3. now <= now
        BY DEF DeadlineInv, TypeInv, TypeOK
      <4> QED
        BY <4>2, <4>3
    <3>2. CASE ListEnd(g)
      <4>1. /\ check'[g] = [check[g] EXCEPT !.step = "listed", !.end = Len(log)]
            /\ check[g].step = "asked"
        BY <3>2 DEF ListEnd, DeadlineInv, TypeInv, TypeOK
      <4>2. check'[g].asked = check[g].asked /\ check'[g].end = Len(log)
        BY <1>k, <4>1 DEF CheckState
      <4>3. check[g].asked <= now
        BY <4>1 DEF DeadlineInv, CheckIsSound
      <4> QED
        BY <1>k, <4>2, <4>3
    <3> QED
      BY <1>10, <3>1, <3>2
  <2>4. CheckIsSound'
    BY <2>1, <2>2, <2>3 DEF DeadlineInv, CheckIsSound, Offsets
  <2> QED
    BY <1>t, <2>1, <2>4 DEF DeadlineInv, WrittenInThePast, ReadInOrder, ConfirmedInThePast,
                            CurrencyIsSound, NamelessIsNotPassed, RosterHoldsNewest, Offsets
<1>11. ASSUME NEW g \in Gateways, Confirm(g) \/ Unreachable(g) PROVE DeadlineInv'
  <2> DEFINE old == gateway[g]
  <2>1. old \in GatewayState /\ check[g] \in CheckState
    BY <1>k
  <2>2. PICK at \in Nat :
          /\ gateway' = [gateway EXCEPT ![g] = Checked(old, at)]
          /\ \/ at = old.confirmed
             \/ /\ check[g].step = "listed"
                /\ at = check[g].asked
                /\ check[g].end <= old.delivered
    <3>1. CASE Confirm(g)
      BY Zenon, <2>1, <3>1 DEF Confirm, CheckState, GatewayState
    <3>2. CASE Unreachable(g)
      BY Zenon, <2>1, <3>2 DEF Unreachable, GatewayState
    <3> QED
      BY <1>11, <3>1, <3>2
  <2> DEFINE new == Checked(old, at)
  <2>3. /\ new \in GatewayState /\ new.confirmed = at /\ new.known = old.known
        /\ new.delivered = old.delivered /\ new.position = old.position
    BY Zenon, <2>1 DEF Checked, GatewayState, Phases
  <2>4. UNCHANGED <<log, kept, now>>
    BY <1>11 DEF Confirm, Unreachable
  <2>5. \A h \in Gateways : check'[h] = IF h = g THEN NoCheck ELSE check[h]
    BY <1>11 DEF Confirm, Unreachable, DeadlineInv, TypeInv, TypeOK
  <2>6. CheckIsSound'
    BY <2>4, <2>5 DEF DeadlineInv, CheckIsSound, NoCheck, Offsets
  <2>7. /\ old.delivered <= old.position /\ old.position <= Len(log) /\ old.confirmed <= now
        /\ \A j \in Offsets : log[j].at < old.confirmed => j <= old.delivered
        /\ \A j \in kept : j <= old.position =>
             /\ log[j].agent # None
             /\ Readable(log[j]) => old.known[log[j].agent].revision >= log[j].revision
    BY DEF DeadlineInv, ReadInOrder, ConfirmedInThePast, CurrencyIsSound, NamelessIsNotPassed,
           RosterHoldsNewest
  <2>8. check[g].step = "listed" =>
          /\ check[g].asked <= now
          /\ \A j \in Offsets : log[j].at < check[g].asked => j <= check[g].end
    BY DEF DeadlineInv, CheckIsSound
  <2>9. at <= now /\ \A j \in Offsets : log[j].at < at => j <= old.delivered
    <3>1. CASE at = old.confirmed
      BY <2>7, <3>1
    <3>2. CASE /\ check[g].step = "listed"
               /\ at = check[g].asked
               /\ check[g].end <= old.delivered
      <4>1. check[g].end \in Nat /\ old.delivered \in Nat
        BY <2>1 DEF CheckState, GatewayState
      <4>2. at <= now /\ \A j \in Offsets : log[j].at < at => j <= check[g].end
        BY <2>8, <3>2
      <4>3. ASSUME NEW j \in Offsets, log[j].at < at PROVE j <= old.delivered
        <5>1. j <= check[g].end /\ j \in Nat
          BY <4>2, <4>3 DEF Offsets
        <5> QED
          BY <3>2, <4>1, <5>1
      <4> QED
        BY <4>2, <4>3
    <3> QED
      BY <2>2, <3>1, <3>2
  <2> HIDE DEF new
  <2> QED
    BY Zenon, <1>t, <2>2, <2>3, <2>4, <2>6, <2>7, <2>9, DeadlineGateway DEF new
<1>12. CASE Tick
  <2>1. now' = now + 1 /\ UNCHANGED <<log, kept, gateway, check>>
    BY <1>12 DEF Tick
  <2>2. WrittenInThePast'
    BY <1>k, <2>1, RecordKinds DEF DeadlineInv, WrittenInThePast, Offsets
  <2>3. CheckIsSound' /\ ConfirmedInThePast'
    BY <1>k, <2>1 DEF DeadlineInv, CheckIsSound, ConfirmedInThePast, Offsets, CheckState, GatewayState
  <2> QED
    BY <1>t, <2>1, <2>2, <2>3 DEF DeadlineInv, ReadInOrder, CurrencyIsSound,
                                  NamelessIsNotPassed, RosterHoldsNewest, Offsets
<1> QED
  <2>1. CASE \E w \in Workers : Carry(w)
    BY <2>1, <1>4, <1>5 DEF Carry
  <2>2. CASE \E g \in Gateways : Gate(g)
    BY <2>2, <1>7, <1>8, <1>9, <1>10, <1>11 DEF Gate
  <2> QED
    BY <1>1, <1>2, <1>3, <1>6, <1>12, <1>13, <2>1, <2>2 DEF Next

-----------------------------------------------------------------------------
(***************************************************************************)
(* What the invariant gives.                                               *)
(***************************************************************************)
LEMMA DeadlineHolds == Spec => []DeadlineInv
  BY InitDeadlineInv, NextDeadlineInv, PTL DEF Spec

\* A gateway that is not stale has been handed every record that is older than
\* StaleAfter: its confirmation is younger than the record, and sound.
LEMMA HandedInTime ==
  ASSUME DeadlineInv, NEW g \in Gateways, NEW i \in kept,
         ~Stale(g), now - log[i].at > StaleAfter
  PROVE  i <= gateway[g].position
<1>1. /\ i \in Offsets /\ i \in Nat /\ log[i] \in Records /\ gateway[g] \in GatewayState
      /\ now \in Nat
  BY DEF DeadlineInv, TypeInv, TypeOK, Offsets
<1>2. log[i].at < gateway[g].confirmed
  BY <1>1, RecordKinds, ConstantsAssumption DEF Stale, GatewayState
<1>3. i <= gateway[g].delivered /\ gateway[g].delivered <= gateway[g].position
  BY <1>1, <1>2 DEF DeadlineInv, CurrencyIsSound, ReadInOrder
<1> QED
  BY <1>1, <1>3 DEF GatewayState

\* Currency.Confirm: everything written before the moment a confirmation is
\* dated had been delivered when it was given.
THEOREM Currency == Spec => []CurrencyIsSound
<1>1. DeadlineInv => CurrencyIsSound
  BY DEF DeadlineInv
<1> QED
  BY <1>1, DeadlineHolds, PTL

\* Roster.Apply: the roster is never behind a record that was read into it.
THEOREM NewestHeld == Spec => []RosterHoldsNewest
<1>1. DeadlineInv => RosterHoldsNewest
  BY DEF DeadlineInv
<1> QED
  BY <1>1, DeadlineHolds, PTL

\* While a gateway runs, no record it is handed takes it back to an earlier
\* decision, whatever order two control planes published in.
THEOREM NeverBack == Spec => RosterNeverStepsBack
<1> DEFINE Forward(g) == Running(g) /\ gateway'[g].phase # "down" =>
             \A a \in Agents : gateway'[g].known[a].revision >= gateway[g].known[a].revision
<1>1. TypeInv /\ [Next]_vars => [\A g \in Gateways : Forward(g)]_vars
  <2> SUFFICES ASSUME TypeInv, Next, NEW g \in Gateways PROVE Forward(g)
    OBVIOUS
  <2>k. /\ \A h \in Gateways : /\ gateway[h] \in GatewayState
                               /\ gateway[h].known \in [Agents -> Held]
                               /\ \A a \in Agents : gateway[h].known[a].revision \in Nat
        /\ \A i \in kept : log[i] \in Records /\ i \in Nat
    <3>1. \A h \in Gateways : gateway[h] \in GatewayState
      BY DEF TypeInv, TypeOK
    <3>2. \A h \in Gateways : gateway[h].known \in [Agents -> Held]
      BY <3>1 DEF GatewayState
    <3>3. \A held \in Held : held.revision \in Nat
      BY DEF Held
    <3>4. \A i \in kept : i \in 1..Len(log) /\ i \in Nat /\ log[i] \in Records
      BY DEF TypeInv, TypeOK
    <3> QED
      BY <3>1, <3>2, <3>3, <3>4
  <2>1. CASE gateway'[g].known = gateway[g].known
    BY <2>1, <2>k
  <2>2. CASE \E h \in Gateways, i \in kept : Deliver(h, i)
    <3> PICK h \in Gateways, i \in kept : Deliver(h, i)
      BY <2>2
    <3>1. /\ gateway' = [gateway EXCEPT ![h] = Handed(gateway[h], i, log[i])]
          /\ log[i].agent \in Agents
      BY <2>k, RecordKinds DEF Deliver
    <3>2. CASE h # g
      BY <3>1, <3>2, <2>1 DEF TypeInv, TypeOK
    <3>3. CASE h = g
      <4> DEFINE b == log[i].agent
      <4>1. gateway'[g].known = [gateway[g].known EXCEPT ![b] =
                                   ReadOrRefused(gateway[g].known[b], log[i])]
        BY <2>k, <3>1, <3>3 DEF TypeInv, TypeOK, Handed, GatewayState
      <4>2. /\ gateway[g].known[b] \in Held /\ log[i] \in Records
            /\ ~gateway[g].known[b].seen => gateway[g].known[b].revision = 0
        BY <2>k, <3>1 DEF TypeInv, UnseenIsZero
      <4>3. ReadOrRefused(gateway[g].known[b], log[i]).revision >= gateway[g].known[b].revision
        BY <4>2, ReadRaises
      <4>4. ASSUME NEW a \in Agents
            PROVE  gateway'[g].known[a].revision >= gateway[g].known[a].revision
        <5>1. CASE a = b
          <6>1. gateway'[g].known[a] = ReadOrRefused(gateway[g].known[b], log[i])
            BY <2>k, <4>1, <5>1
          <6> QED
            BY <4>3, <5>1, <6>1
        <5>2. CASE a # b
          <6>1. gateway'[g].known[a] = gateway[g].known[a]
            BY <2>k, <4>1, <5>2
          <6>2. gateway[g].known[a].revision \in Nat
            BY <2>k
          <6> QED
            BY <6>1, <6>2
        <5> QED
          BY <5>1, <5>2
      <4> QED
        BY <4>4
    <3> QED
      BY <3>2, <3>3
  <2>3. ASSUME NEW h \in Gateways, Start(h) \/ Stop(h) \/ \E i \in kept : DeliverNameless(h, i)
        PROVE  Forward(g)
    <3>1. CASE h # g
      BY <2>1, <2>3, <3>1 DEF Start, Stop, DeliverNameless, TypeInv, TypeOK
    <3>2. CASE h = g
      BY <2>3, <3>2 DEF Start, Stop, DeliverNameless, Running, Down, TypeInv, TypeOK
    <3> QED
      BY <3>1, <3>2
  <2>4. ASSUME NEW h \in Gateways, Advance(h) \/ Replayed(h) \/ Confirm(h) \/ Unreachable(h)
        PROVE  gateway'[g].known = gateway[g].known
    <3>1. ASSUME NEW new, gateway' = [gateway EXCEPT ![h] = new],
                 new.known = gateway[h].known
          PROVE  gateway'[g].known = gateway[g].known
      BY <3>1 DEF TypeInv, TypeOK
    <3>2. CASE Advance(h)
      <4> DEFINE new == [gateway[h] EXCEPT !.delivered = gateway[h].position]
      <4>1. gateway' = [gateway EXCEPT ![h] = new] /\ new.known = gateway[h].known
        BY <2>k, <3>2 DEF Advance, GatewayState
      <4> QED
        BY <3>1, <4>1
    <3>3. CASE Replayed(h)
      <4> DEFINE new == [gateway[h] EXCEPT !.phase = "confirming"]
      <4>1. gateway' = [gateway EXCEPT ![h] = new] /\ new.known = gateway[h].known
        BY <2>k, <3>3 DEF Replayed, GatewayState
      <4> QED
        BY <3>1, <4>1
    <3>4. ASSUME NEW at, gateway' = [gateway EXCEPT ![h] = Checked(gateway[h], at)]
          PROVE  gateway'[g].known = gateway[g].known
      <4>1. Checked(gateway[h], at).known = gateway[h].known
        BY <2>k DEF Checked, GatewayState
      <4> QED
        BY <3>1, <3>4, <4>1
    <3>5. CASE Confirm(h) \/ Unreachable(h)
      BY SMTT(30), <3>4, <3>5 DEF Confirm, Unreachable
    <3> QED
      BY <2>4, <3>2, <3>3, <3>5
  <2>5. ASSUME NEW h \in Gateways, Gate(h) PROVE Forward(g)
    <3>1. CASE Ask(h) \/ ListEnd(h)
      BY <2>1, <3>1 DEF Ask, ListEnd
    <3> QED
      BY <2>1, <2>2, <2>3, <2>4, <2>5, <3>1 DEF Gate
  <2>6. CASE UNCHANGED gateway
    BY <2>1, <2>6
  <2> QED
    BY Zenon, <2>5, <2>6
       DEF Next, Decide, Carry, Register, TransitionAgent, BindAgentIdentity, MoveAgent,
           IssueCertificate, RenewCertificate, MoveUnannounced, Sweep, Publish,
           RecordAnnounced, GiveUp, PublishUnanswered, WriteUnreadable, Compact, Tick,
           gatewayVars
<1>2. Spec => []TypeInv
  BY InitTypeInv, NextTypeInv, PTL DEF Spec
<1> QED
  BY <1>1, <1>2, PTL DEF Spec, RosterNeverStepsBack
=============================================================================
