-------------------------- MODULE AgentReadProofs ---------------------------
(***************************************************************************)
(* What a gateway's roster holds was said to it.  The log's own agreement  *)
(* (InPlayOnce) keeps Roster.Apply out of its conflicting branch unless an *)
(* unreadable record had refused the agent; that a refusal is lifted only  *)
(* by a later revision needs what reading leaves in the roster             *)
(* (RosterHoldsNewest, from DeadlineInv).                                  *)
(***************************************************************************)
EXTENDS AgentCarryProofs

\* The record at offset i is what is held about agent a.
Tells(i, a, held) ==
  /\ log[i].agent = a
  /\ Readable(log[i])
  /\ log[i].revision = held.revision
  /\ held.admits = Admits(log[i].state)
  /\ held.tenant = log[i].tenant

\* What a gateway in this state was handed about an agent.
Of(state, a) == {i \in Offsets : i <= state.position /\ log[i].agent = a}

Unread(state, a) == {i \in Of(state, a) : ~Readable(log[i])}

\* A gateway's state admits an agent as a record later than its refusals decided.
AdmitsAsTold(state, a) ==
  state.known[a].admits =>
    /\ \E i \in Of(state, a) :
         Tells(i, a, state.known[a]) /\ \A j \in Unread(state, a) \cap kept : j < i
    /\ \A j \in Unread(state, a) \cap kept, k \in Of(state, a) \cap kept :
         k < j => log[k].revision < state.known[a].revision

\* It refuses one it knows because a record decided that or could not be read.
RefusesAsTold(state, a) ==
  state.known[a].seen /\ ~state.known[a].admits =>
    Unread(state, a) # {} \/ \E i \in Of(state, a) : Tells(i, a, state.known[a])

ReadFrom(state) == \A a \in Agents : AdmitsAsTold(state, a) /\ RefusesAsTold(state, a)

LEMMA RosterIsRead == RosterHoldsADecision <=> \A g \in Gateways : ReadFrom(gateway[g])
<1>1. \A g \in Gateways, a \in Agents :
        HandedOf(g, a) = Of(gateway[g], a) /\ UnreadOf(g, a) = Unread(gateway[g], a)
  BY Zenon DEF HandedOf, UnreadOf, Of, Unread
<1>2. \A g \in Gateways, a \in Agents, i \in Offsets :
        Decided(g, a, i) <=> Tells(i, a, gateway[g].known[a])
  BY DEF Decided, Tells
<1>3. \A g \in Gateways, a \in Agents : Of(gateway[g], a) \subseteq Offsets
  BY DEF Of
<1> QED
  BY ZenonT(40), <1>1, <1>2, <1>3 DEF RosterHoldsADecision, ReadFrom, AdmitsAsTold, RefusesAsTold

\* The record a reader of the log is handed next, read into the roster.
LEMMA HandedIsRead ==
  ASSUME CarryInv, DeadlineInv, NEW g \in Gateways, NEW i \in kept, ReadFrom(gateway[g]),
         NextOffset(gateway[g].position, i), log[i].agent # None
  PROVE  ReadFrom(Handed(gateway[g], i, log[i]))
<1> DEFINE old == gateway[g]
           b   == log[i].agent
           new == Handed(old, i, log[i])
<1>1. /\ old \in GatewayState /\ old.known \in [Agents -> Held] /\ old.position \in Nat
      /\ i \in Offsets /\ i \in Nat /\ log[i] \in Records /\ b \in Agents
      /\ kept \subseteq Offsets /\ \A j \in Offsets : log[j] \in Records /\ j \in Nat
  <2>1. /\ old \in GatewayState /\ kept \subseteq Offsets /\ i \in Offsets
        /\ \A j \in Offsets : log[j] \in Records /\ j \in Nat
    BY DEF CarryInv, TypeInv, TypeOK, Offsets
  <2> QED
    BY <2>1, RecordKinds DEF GatewayState
<1>2. /\ new.position = i
      /\ new.known = [old.known EXCEPT ![b] = ReadOrRefused(old.known[b], log[i])]
  BY <1>1 DEF Handed, GatewayState
<1>3. i > old.position /\ \A j \in kept : j > old.position => i <= j
  BY DEF NextOffset
<1> HIDE DEF new
<1>4. \A a \in Agents : Of(old, a) \subseteq Of(new, a) /\ Unread(old, a) \subseteq Unread(new, a)
  <2> SUFFICES ASSUME NEW j \in Offsets, j <= old.position PROVE j <= new.position
    BY DEF Of, Unread
  <2> QED
    BY <1>1, <1>2, <1>3
<1>5. \A a \in Agents, j \in kept : j \in Of(new, a) => j \in Of(old, a) \/ j = i
  <2> SUFFICES ASSUME NEW j \in kept, j <= new.position, j # i PROVE j <= old.position
    BY <1>1 DEF Of
  <2> QED
    BY <1>1, <1>2, <1>3
<1>6. \A a \in Agents : Unread(new, a) \cap kept \subseteq Unread(old, a) \cup {i}
  BY <1>5 DEF Unread
<1>7. i \in Of(new, b) /\ i \notin Of(old, b)
  BY <1>1, <1>2, <1>3 DEF Of
<1>8. ASSUME NEW a \in Agents, new.known[a] = old.known[a],
             i \notin Unread(new, a)
      PROVE  AdmitsAsTold(new, a) /\ RefusesAsTold(new, a)
  <2>1. Unread(new, a) \cap kept \subseteq Unread(old, a)
    BY <1>6, <1>8
  <2>2. AdmitsAsTold(old, a) /\ RefusesAsTold(old, a)
    BY DEF ReadFrom
  <2>3. RefusesAsTold(new, a)
    BY <1>4, <1>8, <2>2 DEF RefusesAsTold
  <2>4. ASSUME new.known[a].admits
        PROVE  /\ \E k \in Of(new, a) :
                    Tells(k, a, new.known[a]) /\ \A j \in Unread(new, a) \cap kept : j < k
               /\ \A j \in Unread(new, a) \cap kept, k \in Of(new, a) \cap kept :
                    k < j => log[k].revision < new.known[a].revision
    <3>1. /\ \E k \in Of(old, a) :
               Tells(k, a, old.known[a]) /\ \A j \in Unread(old, a) \cap kept : j < k
          /\ \A j \in Unread(old, a) \cap kept, k \in Of(old, a) \cap kept :
               k < j => log[k].revision < old.known[a].revision
      BY Zenon, <1>8, <2>2, <2>4 DEF AdmitsAsTold
    <3>2. \E k \in Of(new, a) :
            Tells(k, a, new.known[a]) /\ \A j \in Unread(new, a) \cap kept : j < k
      BY <1>4, <1>8, <2>1, <3>1
    <3>3. ASSUME NEW j \in Unread(new, a) \cap kept, NEW k \in Of(new, a) \cap kept, k < j
          PROVE  log[k].revision < new.known[a].revision
      <4>1. j \in Unread(old, a) /\ j <= old.position
        BY <2>1 DEF Unread, Of
      <4>2. k # i
        <5>1. j \in Nat /\ k \in Nat
          BY Zenon, <1>1
        <5>2. i > old.position /\ i \in Nat /\ old.position \in Nat
          BY <1>1, <1>3
        <5> QED
          BY <3>3, <4>1, <5>1, <5>2
      <4>3. k \in Of(old, a)
        BY <1>5, <4>2
      <4> QED
        BY <1>8, <3>1, <3>3, <4>1, <4>3
    <3> QED
      BY <3>2, <3>3
  <2> QED
    BY <2>3, <2>4 DEF AdmitsAsTold
<1>9. ASSUME NEW a \in Agents, a # b PROVE AdmitsAsTold(new, a) /\ RefusesAsTold(new, a)
  <2>1. new.known[a] = old.known[a]
    BY <1>1, <1>2, <1>9
  <2>2. i \notin Unread(new, a)
    BY <1>9 DEF Unread, Of
  <2> QED
    BY <1>8, <2>1, <2>2
<1>10. AdmitsAsTold(new, b) /\ RefusesAsTold(new, b)
  <2> DEFINE held == old.known[b]
  <2>1. /\ new.known[b] = ReadOrRefused(held, log[i]) /\ held \in Held
        /\ ~held.seen => held.revision = 0
    BY Zenon, <1>1, <1>2 DEF CarryInv, TypeInv, UnseenIsZero
  <2>2. AdmitsAsTold(old, b) /\ RefusesAsTold(old, b)
    BY <1>1 DEF ReadFrom
  <2>3. CASE ~Readable(log[i])
    <3>1. i \in Unread(new, b)
      BY <1>7, <2>3 DEF Unread
    <3>2. ~new.known[b].admits
      BY <2>1, <2>3 DEF ReadOrRefused, Refuse, Held
    <3> QED
      BY Zenon, <3>1, <3>2 DEF AdmitsAsTold, RefusesAsTold
  <2>4. CASE Readable(log[i]) /\ SteppedOver(held, log[i])
    <3>1. new.known[b] = held
      BY <2>1, <2>4 DEF ReadOrRefused, Apply
    <3>2. i \notin Unread(new, b)
      BY <2>4 DEF Unread
    <3> QED
      BY Zenon, <1>1, <1>8, <3>1, <3>2
  <2>5. CASE Readable(log[i]) /\ ~SteppedOver(held, log[i]) /\ Conflicts(held, log[i])
    <3>1. ~new.known[b].admits
      BY <2>1, <2>5 DEF ReadOrRefused, Apply, Refuse, Held
    <3>2. ASSUME Unread(old, b) = {} PROVE FALSE
      <4>1. held.seen /\ log[i].revision = held.revision
        BY <2>5 DEF Conflicts
      <4>2. PICK j \in Of(old, b) : Tells(j, b, held)
        BY Zenon, <2>2, <3>2, <4>1 DEF AdmitsAsTold, RefusesAsTold
      <4>3. j \in Offsets /\ log[j] \in InPlay /\ log[i] \in InPlay
        BY Zenon, <1>1, <2>5, <4>2 DEF Of, Tells, InPlay
      <4>4. log[j].agent = log[i].agent /\ log[j].revision = log[i].revision
        BY Zenon, <4>1, <4>2 DEF Tells
      <4>5. log[j].state = log[i].state
        BY <4>3, <4>4 DEF CarryInv, InPlayOnce
      <4>6. log[j].tenant = log[i].tenant
        BY <4>3, <4>4 DEF CarryInv, InPlayAgrees, Agrees
      <4> QED
        BY ZenonT(30), <2>5, <4>2, <4>5, <4>6 DEF Tells, Conflicts
    <3>3. Unread(new, b) # {}
      BY <1>1, <1>4, <3>2
    <3> QED
      BY ZenonT(30), <3>1, <3>3 DEF AdmitsAsTold, RefusesAsTold
  <2>6. CASE Readable(log[i]) /\ ~SteppedOver(held, log[i]) /\ ~Conflicts(held, log[i])
    <3>1. /\ new.known[b] = [seen |-> TRUE, admits |-> Admits(log[i].state),
                             tenant |-> log[i].tenant, revision |-> log[i].revision]
      BY <2>1, <2>6 DEF ReadOrRefused, Apply
    <3>2. Tells(i, b, new.known[b])
      BY <2>6, <3>1 DEF Tells
    <3>3. Unread(new, b) \cap kept \subseteq Unread(old, b)
      BY Zenon, <1>1, <1>6, <2>6 DEF Unread
    <3>4. \A j \in Unread(new, b) \cap kept : j < i
      <4> SUFFICES ASSUME NEW j \in Unread(new, b) \cap kept PROVE j < i
        OBVIOUS
      <4>1. j \in Offsets /\ j <= old.position
        BY <3>3 DEF Unread, Of
      <4>2. j \in Nat /\ i \in Nat /\ old.position \in Nat /\ i > old.position
        BY <1>1, <1>3, <4>1
      <4> QED
        BY <4>1, <4>2
    <3>5. ASSUME new.known[b].admits,
                 NEW j \in Unread(new, b) \cap kept, NEW k \in Of(new, b) \cap kept, k < j
          PROVE  log[k].revision < new.known[b].revision
      <4>1. j \in Unread(old, b) /\ j <= old.position /\ j \in Nat /\ k \in Nat
        BY <1>1, <3>3 DEF Unread, Of
      <4>2. k \in Of(old, b) /\ k <= old.position /\ log[k].agent = b
        <5>1. i > old.position /\ i \in Nat /\ old.position \in Nat
          BY <1>1, <1>3
        <5>2. k # i
          BY <3>5, <4>1, <5>1
        <5> QED
          BY <1>1, <1>5, <5>2 DEF Of
      <4>3. /\ held.revision \in Nat /\ log[i].revision \in Nat \ {0} /\ log[k].revision \in Nat
            /\ log[k] \in Records
        <5>1. log[i] \in Decisions /\ log[k] \in Records
          BY Zenon, <1>1, <2>6, RecordKinds
        <5> QED
          BY Zenon, <2>1, <5>1, RecordKinds DEF Decisions, Held
      <4>4. CASE ~Readable(log[k])
        <5>1. log[k].revision = 0
          BY SMTT(30), <4>3, <4>4, RecordKinds
        <5> QED
          BY <3>1, <4>3, <5>1
      <4>5. CASE Readable(log[k])
        <5>1. held.revision >= log[k].revision
          <6>1. RosterHoldsNewest
            BY SMTT(30) DEF DeadlineInv
          <6> QED
            BY <4>2, <4>5, <6>1 DEF RosterHoldsNewest
        <5>2. held.seen
          <6>1. log[k] \in Decisions
            BY <4>3, <4>5, RecordKinds
          <6>2. log[k].revision # 0
            BY SMTT(30), <6>1 DEF Decisions
          <6> QED
            BY SMTT(30), <2>1, <4>3, <5>1, <6>2
        <5>3. log[i].revision >= held.revision
          BY SMTT(30), <2>6, <4>3, <5>2 DEF SteppedOver
        <5>4. CASE held.admits
          <6>1. log[k].revision < held.revision
            BY ZenonT(30), <1>1, <2>2, <3>5, <4>1, <4>2, <5>4 DEF AdmitsAsTold
          <6> QED
            BY <3>1, <4>3, <5>3, <6>1
        <5>5. CASE ~held.admits
          <6>1. Admits(log[i].state)
            BY <3>1, <3>5
          <6>2. log[i].revision # held.revision
            BY Zenon, <2>6, <5>2, <5>5, <6>1 DEF Conflicts
          <6> QED
            BY <3>1, <4>3, <5>1, <5>3, <6>2
        <5> QED
          BY <5>4, <5>5
      <4> QED
        BY <4>4, <4>5
    <3> QED
      BY Zenon, <1>7, <3>2, <3>4, <3>5 DEF AdmitsAsTold, RefusesAsTold
  <2> QED
    BY Zenon, <2>3, <2>4, <2>5, <2>6
<1> QED
  BY <1>9, <1>10 DEF ReadFrom, new

\* A gateway's state stays a reading of a log that only grew past its position
\* or lost records to compaction.
LEMMA ReadIsKept ==
  ASSUME NEW state, ReadFrom(state),
         \A i \in Offsets : i \in Offsets' /\ log'[i] = log[i],
         \A i \in Offsets' : i <= state.position => i \in Offsets,
         \A i \in kept' : i <= state.position => i \in kept
  PROVE  ReadFrom(state)'
<1> SUFFICES ASSUME NEW a \in Agents PROVE AdmitsAsTold(state, a)' /\ RefusesAsTold(state, a)'
  BY DEF ReadFrom
<1>1. Of(state, a)' = Of(state, a)
  BY DEF Of
<1>2. Unread(state, a)' = Unread(state, a)
  BY <1>1 DEF Unread, Of, Readable
<1>3. \A i \in Of(state, a) : Tells(i, a, state.known[a])' <=> Tells(i, a, state.known[a])
  BY DEF Of, Tells, Readable
<1>4. Of(state, a) \cap kept' \subseteq kept /\ Unread(state, a) \subseteq Of(state, a)
  BY DEF Of, Unread
<1>5. \A i \in Of(state, a) : log'[i] = log[i]
  BY DEF Of
<1>6. AdmitsAsTold(state, a) /\ RefusesAsTold(state, a)
  BY DEF ReadFrom
<1>7. RefusesAsTold(state, a)'
  BY <1>1, <1>2, <1>3, <1>6 DEF RefusesAsTold
<1>8. AdmitsAsTold(state, a)'
  BY Zenon, <1>1, <1>2, <1>3, <1>4, <1>5, <1>6 DEF AdmitsAsTold
<1> QED
  BY Zenon, <1>7, <1>8

\* A gateway whose next state is a reading of the next log.
LEMMA ReadingOf ==
  ASSUME NEW g \in Gateways, NEW state, gateway'[g] = state, ReadFrom(state)'
  PROVE  ReadFrom(gateway[g])'
<1> SUFFICES ASSUME NEW a \in Agents
             PROVE  AdmitsAsTold(gateway[g], a)' /\ RefusesAsTold(gateway[g], a)'
  BY DEF ReadFrom
<1>1. Of(gateway[g], a)' = Of(state, a)'
  BY DEF Of
<1>2. Unread(gateway[g], a)' = Unread(state, a)'
  BY <1>1 DEF Unread
<1>3. \A i : Tells(i, a, gateway[g].known[a])' <=> Tells(i, a, state.known[a])'
  BY DEF Tells
<1>4. AdmitsAsTold(state, a)' /\ RefusesAsTold(state, a)'
  BY DEF ReadFrom
<1>5. gateway'[g].known[a] = state.known[a]
  OBVIOUS
<1>6. AdmitsAsTold(gateway[g], a)'
  BY Zenon, <1>1, <1>2, <1>3, <1>4, <1>5 DEF AdmitsAsTold
<1>7. RefusesAsTold(gateway[g], a)'
  BY Zenon, <1>1, <1>2, <1>3, <1>4, <1>5 DEF RefusesAsTold
<1> QED
  BY <1>6, <1>7

\* Only the roster and the read position matter.
LEMMA SameReading ==
  ASSUME NEW state, NEW new, ReadFrom(state),
         new.known = state.known, new.position = state.position
  PROVE  ReadFrom(new)
<1> SUFFICES ASSUME NEW a \in Agents PROVE AdmitsAsTold(new, a) /\ RefusesAsTold(new, a)
  BY DEF ReadFrom
<1>1. Of(new, a) = Of(state, a)
  BY DEF Of
<1>2. Unread(new, a) = Unread(state, a)
  BY <1>1 DEF Unread
<1>3. AdmitsAsTold(state, a) /\ RefusesAsTold(state, a)
  BY DEF ReadFrom
<1>4. AdmitsAsTold(new, a)
  BY Zenon, <1>1, <1>2, <1>3 DEF AdmitsAsTold
<1>5. RefusesAsTold(new, a)
  BY Zenon, <1>1, <1>2, <1>3 DEF RefusesAsTold
<1> QED
  BY <1>4, <1>5

\* Every step keeps what a gateway holds a reading of the log.
LEMMA NextIsRead ==
  CarryInv /\ DeadlineInv /\ RosterHoldsADecision /\ [Next]_vars => RosterHoldsADecision'
<1> SUFFICES ASSUME CarryInv, DeadlineInv, \A g \in Gateways : ReadFrom(gateway[g]), [Next]_vars
             PROVE  (\A g \in Gateways : ReadFrom(gateway[g]))'
  BY RosterIsRead, PTL
<1>k. /\ \A g \in Gateways : gateway[g] \in GatewayState /\ gateway[g].position \in Nat
      /\ \A g \in Gateways : gateway[g].position <= Len(log)
      /\ log \in Seq(Records) /\ Len(log) \in Nat /\ kept \subseteq Offsets
      /\ gateway \in [Gateways -> GatewayState]
  <2>1. log \in Seq(Records) /\ kept \subseteq Offsets /\ gateway \in [Gateways -> GatewayState]
    BY DEF CarryInv, TypeInv, TypeOK, Offsets
  <2>2. \A g \in Gateways : gateway[g].position <= Len(log)
    BY DEF DeadlineInv, ReadInOrder
  <2> QED
    BY <2>1, <2>2 DEF GatewayState
<1> USE DEF gatewayVars, logVars, controlVars
<1>s. ASSUME NEW g \in Gateways, NEW state, ReadFrom(state), gateway'[g] = state,
             UNCHANGED log, kept' \subseteq kept
      PROVE  ReadFrom(gateway[g])'
  <2>1. /\ \A i \in Offsets : i \in Offsets' /\ log'[i] = log[i]
        /\ \A i \in Offsets' : i \in Offsets
    BY <1>s DEF Offsets
  <2>2. ReadFrom(state)'
    BY <1>s, <2>1, ReadIsKept
  <2> QED
    BY <1>s, <2>2, ReadingOf
<1>1. CASE UNCHANGED <<log, gateway>> /\ kept' \subseteq kept
  <2>1. \A g \in Gateways : gateway'[g] = gateway[g]
    BY <1>1
  <2> QED
    BY <1>1, <1>s, <2>1
<1>2. ASSUME NEW record, Write(record), UNCHANGED gateway
      PROVE  \A g \in Gateways : ReadFrom(gateway[g])'
  <2> SUFFICES ASSUME NEW g \in Gateways PROVE ReadFrom(gateway[g])'
    OBVIOUS
  <2> DEFINE entry == [agent |-> record.agent, tenant |-> record.tenant,
                       state |-> record.state, revision |-> record.revision, at |-> now]
  <2>1. log' = Append(log, entry) /\ kept' = kept \cup {Len(log) + 1}
    BY <1>2 DEF Write
  <2> HIDE DEF entry
  <2>2. /\ Len(log') = Len(log) + 1
        /\ \A i \in 1..Len(log) : log'[i] = log[i]
    BY <1>k, <2>1
  <2>3. \A i \in Offsets : i \in Offsets' /\ log'[i] = log[i]
    BY <1>k, <2>2 DEF Offsets
  <2> DEFINE state == gateway[g]
  <2>4. \A i \in Offsets' : i <= state.position => i \in Offsets
    BY <1>k, <2>2 DEF Offsets
  <2>5. \A i \in kept' : i <= state.position => i \in kept
    BY <1>k, <2>1 DEF Offsets
  <2>6. PICK fixed : fixed = state
    OBVIOUS
  <2>7. ReadFrom(fixed)'
    BY <2>3, <2>4, <2>5, <2>6, ReadIsKept
  <2>8. gateway'[g] = fixed
    BY <1>2, <2>6
  <2> QED
    BY <2>7, <2>8, ReadingOf
<1>3. ASSUME NEW g \in Gateways, NEW new, gateway' = [gateway EXCEPT ![g] = new],
             UNCHANGED <<log, kept>>, ReadFrom(new)
      PROVE  \A h \in Gateways : ReadFrom(gateway[h])'
  <2>1. \A h \in Gateways : gateway'[h] = IF h = g THEN new ELSE gateway[h]
    BY <1>3, <1>k
  <2> QED
    BY <1>3, <1>s, <2>1
<1>4. ASSUME NEW g \in Gateways, NEW new, new.known = gateway[g].known,
             new.position = gateway[g].position
      PROVE  ReadFrom(new)
  BY <1>4, SameReading
<1>5. ASSUME NEW g \in Gateways, NEW i \in kept, Deliver(g, i)
      PROVE  \A h \in Gateways : ReadFrom(gateway[h])'
  <2>1. ReadFrom(Handed(gateway[g], i, log[i]))
    BY <1>5, HandedIsRead DEF Deliver
  <2> QED
    BY Zenon, <1>3, <1>5, <2>1 DEF Deliver
<1>6. ASSUME NEW g \in Gateways, Start(g) \/ Stop(g) \/ \E i \in kept : DeliverNameless(g, i)
      PROVE  \A h \in Gateways : ReadFrom(gateway[h])'
  <2>1. \A a \in Agents : ~Down.known[a].seen /\ ~Down.known[a].admits
    BY DEF Down, Unknown
  <2>2. \A end : [Down EXCEPT !.phase = "replaying", !.target = end].known = Down.known
    BY DEF Down
  <2>3. ReadFrom(Down) /\ \A end : ReadFrom([Down EXCEPT !.phase = "replaying", !.target = end])
    BY Zenon, <2>1, <2>2 DEF ReadFrom, AdmitsAsTold, RefusesAsTold
  <2> QED
    BY Zenon, <1>3, <1>6, <2>3 DEF Start, Stop, DeliverNameless
<1>7. ASSUME NEW g \in Gateways, Advance(g)
      PROVE  \A h \in Gateways : ReadFrom(gateway[h])'
  <2> DEFINE new == [gateway[g] EXCEPT !.delivered = gateway[g].position]
  <2>1. /\ gateway' = [gateway EXCEPT ![g] = new] /\ UNCHANGED <<log, kept>>
        /\ new.known = gateway[g].known /\ new.position = gateway[g].position
    BY <1>k, <1>7 DEF Advance, GatewayState
  <2> HIDE DEF new
  <2> QED
    BY Zenon, <1>3, <1>4, <2>1
<1>8. ASSUME NEW g \in Gateways, Replayed(g)
      PROVE  \A h \in Gateways : ReadFrom(gateway[h])'
  <2> DEFINE new == [gateway[g] EXCEPT !.phase = "confirming"]
  <2>1. /\ gateway' = [gateway EXCEPT ![g] = new] /\ UNCHANGED <<log, kept>>
        /\ new.known = gateway[g].known /\ new.position = gateway[g].position
    BY <1>k, <1>8 DEF Replayed, GatewayState
  <2> HIDE DEF new
  <2> QED
    BY Zenon, <1>3, <1>4, <2>1
<1>9. ASSUME NEW g \in Gateways, Confirm(g) \/ Unreachable(g)
      PROVE  \A h \in Gateways : ReadFrom(gateway[h])'
  <2>1. \A at : /\ Checked(gateway[g], at).known = gateway[g].known
                /\ Checked(gateway[g], at).position = gateway[g].position
    BY <1>k DEF Checked, GatewayState
  <2>2. \A at : ReadFrom(Checked(gateway[g], at))
    BY <1>4, <2>1
  <2> QED
    BY <1>3, <1>9, <2>2 DEF Confirm, Unreachable
<1> QED
  <2>1. CASE \E g \in Gateways : Gate(g)
    BY SMTT(30), <2>1, <1>1, <1>5, <1>6, <1>7, <1>8, <1>9 DEF Gate, Ask, ListEnd
  <2>2. CASE \E w \in Workers : Carry(w)
    BY <2>2, <1>1, <1>2 DEF Carry, Sweep, Publish, RecordAnnounced, GiveUp, PublishUnanswered
  <2>4. CASE \E key \in Agents \cup {None} : WriteUnreadable(key)
    BY <2>4, <1>2 DEF WriteUnreadable
  <2>3. CASE \/ \E w \in Workers, a \in Agents : Decide(w, a)
             \/ \E a \in Agents : IssueCertificate(a) \/ RenewCertificate(a)
             \/ \E i \in kept : Compact(i)
             \/ Tick
             \/ UNCHANGED vars
    BY Zenon, <2>3, <1>1 DEF Decide, Register, TransitionAgent, BindAgentIdentity, MoveAgent,
                      IssueCertificate, RenewCertificate, MoveUnannounced, Compact, Tick, vars
  <2> QED
    BY Zenon, <2>1, <2>2, <2>3, <2>4 DEF Next

\* A gateway admits an agent, and into a tenant, only as a record it was handed
\* decided, later than every record of the agent it could not read and of a later
\* revision than what it knew before that one; and refuses one only because a
\* record decided that or could not be read.  No interleaving of control planes,
\* failures, unreadable records, compaction or restarts makes a roster admit an
\* agent into a tenant the log never named.
THEOREM RosterIsADecision == Spec => []RosterHoldsADecision
<1>1. Init => RosterHoldsADecision
  <2> SUFFICES ASSUME Init PROVE RosterHoldsADecision
    OBVIOUS
  <2>1. \A g \in Gateways, a \in Agents : gateway[g].known[a] = Unknown
    BY DEF Init, Down
  <2>2. ~Unknown.seen /\ ~Unknown.admits
    BY DEF Unknown
  <2> QED
    BY <2>1, <2>2 DEF RosterHoldsADecision
<1> QED
  BY <1>1, NextIsRead, CarryHolds, DeadlineHolds, PTL DEF Spec

\* ADR 46, for every record the log still holds: what has been in the log for
\* longer than StaleAfter was handed to every gateway that serves and does not
\* refuse everything (HandedInTime).  So it names an agent; if it can be read it
\* is held, or a newer decision is; if not, the agent is refused, or admitted
\* by a decision the gateway was handed after it.
THEOREM Deadline == Spec => []EnforcedWithinBound
<1>1. DeadlineInv /\ RosterHoldsADecision => EnforcedWithinBound
  <2> SUFFICES ASSUME DeadlineInv, RosterHoldsADecision, NEW g \in Gateways, NEW i \in kept,
                      ~Stale(g), now - log[i].at > StaleAfter
               PROVE  /\ log[i].agent \in Agents
                      /\ Readable(log[i]) =>
                           gateway[g].known[log[i].agent].revision >= log[i].revision
                      /\ ~Readable(log[i]) /\ gateway[g].known[log[i].agent].admits =>
                           \E j \in Offsets : i < j /\ Decided(g, log[i].agent, j)
    BY DEF EnforcedWithinBound
  <2>1. i <= gateway[g].position
    BY SMTT(30), HandedInTime
  <2>2. i \in Offsets /\ log[i] \in Records
    BY DEF DeadlineInv, TypeInv, TypeOK, Offsets
  <2>3. log[i].agent \in Agents
    BY <2>1, <2>2, RecordKinds DEF DeadlineInv, NamelessIsNotPassed
  <2>4. Readable(log[i]) => gateway[g].known[log[i].agent].revision >= log[i].revision
    BY <2>1 DEF DeadlineInv, RosterHoldsNewest
  <2>5. ASSUME ~Readable(log[i]), gateway[g].known[log[i].agent].admits
        PROVE  \E j \in Offsets : i < j /\ Decided(g, log[i].agent, j)
    <3>1. i \in UnreadOf(g, log[i].agent) \cap kept
      BY SMTT(30), <2>1, <2>2, <2>5 DEF UnreadOf, HandedOf
    <3>2. PICK j \in HandedOf(g, log[i].agent) :
            /\ Decided(g, log[i].agent, j)
            /\ \A k \in UnreadOf(g, log[i].agent) \cap kept : k < j
      BY <2>3, <2>5 DEF RosterHoldsADecision
    <3> QED
      BY <3>1, <3>2 DEF HandedOf
  <2> QED
    BY SMTT(30), <2>3, <2>4, <2>5
<1> QED
  BY <1>1, RosterIsADecision, DeadlineHolds, PTL
=============================================================================
