-------------------------- MODULE AgentCarryProofs --------------------------
(***************************************************************************)
(* What the control plane tells the agent log, for every number of agents, *)
(* workers and failures: it never says two things of one revision, and it  *)
(* never forgets to say the last.                                          *)
(***************************************************************************)
EXTENDS AgentDeadlineProofs

\* What some worker is carrying and what the log was told that can be read.
InPlay ==
  {log[i] : i \in {j \in Offsets : Readable(log[j])}} \cup
  UNION {{carrying[w][k] : k \in 1..Len(carrying[w])} : w \in Workers}

\* Two records decide the same, whenever each was written.
Same(r, s) ==
  /\ r.agent = s.agent
  /\ r.tenant = s.tenant
  /\ r.state = s.state
  /\ r.revision = s.revision

InPlayAgrees == \A r \in InPlay : Agrees(r)

InPlayOnce ==
  \A r, s \in InPlay :
    r.agent = s.agent /\ r.revision = s.revision => r.state = s.state

\* The log was told this revision of this agent.
Said(a, revision) == \E i \in Offsets : log[i].agent = a /\ log[i].revision = revision

\* A worker that has published has the record in hand, and the log has it.
ToldIsSaid ==
  \A w \in Workers : told[w] =>
    /\ carrying[w] # <<>>
    /\ Said(Head(carrying[w]).agent, Head(carrying[w]).revision)

NeverAhead == \A a \in Agents : registry[a].published <= registry[a].revision

CarryInv ==
  /\ TypeInv
  /\ InPlayAgrees
  /\ InPlayOnce
  /\ ToldIsSaid
  /\ NeverAhead
  /\ DecisionIsWrittenOrOutstanding
-----------------------------------------------------------------------------
LEMMA InitCarryInv == Init => CarryInv
<1> SUFFICES ASSUME Init PROVE CarryInv
  OBVIOUS
<1>1. TypeInv
  BY InitTypeInv
<1>2. InPlay = {}
  BY DEF Init, InPlay, Offsets
<1>3. \A a \in Agents : registry[a].revision = 0 /\ registry[a].published = 0
  BY DEF Init, Unregistered
<1>4. \A w \in Workers : ~told[w]
  BY DEF Init
<1> QED
  BY <1>1, <1>2, <1>3, <1>4
     DEF CarryInv, InPlayAgrees, InPlayOnce, ToldIsSaid, NeverAhead,
         DecisionIsWrittenOrOutstanding, Registered

\* Every record in play names a registered agent and a revision above zero.
LEMMA InPlayType ==
  ASSUME TypeInv
  PROVE  \A r \in InPlay : /\ r.agent \in Agents /\ r.tenant \in Tenants /\ r.state \in States
                           /\ r.revision \in Nat \ {0}
<1>1. \A i \in Offsets : Readable(log[i]) => log[i] \in Decisions
  BY RecordKinds DEF TypeInv, TypeOK, Offsets
<1>2. \A w \in Workers : \A k \in 1..Len(carrying[w]) : carrying[w][k] \in Admissions
  BY DEF TypeInv, TypeOK
<1> QED
  BY <1>1, <1>2 DEF InPlay, Decisions, Admissions

\* A step that decides nothing, and puts in play only what was in play already
\* or what a row says now, keeps the records in agreement.
LEMMA AgreementKept ==
  ASSUME TypeInv, InPlayAgrees, InPlayOnce,
         \A a \in Agents : /\ registry'[a].revision = registry[a].revision
                           /\ registry'[a].tenant = registry[a].tenant
                           /\ registry'[a].state = registry[a].state,
         \A r \in InPlay' : \/ \E s \in InPlay : Same(r, s)
                            \/ \E a \in Agents : Same(r, Admission(a, registry[a]))
  PROVE  InPlayAgrees' /\ InPlayOnce'
<1>1. \A r \in InPlay' : r.agent \in Agents
  BY InPlayType DEF Same, Admission
<1>2. \A r \in InPlay' : Agrees(r)
  <2> SUFFICES ASSUME NEW r \in InPlay' PROVE Agrees(r)
    OBVIOUS
  <2>1. CASE \E s \in InPlay : Same(r, s)
    BY <2>1 DEF Same, InPlayAgrees, Agrees
  <2>2. ASSUME NEW a \in Agents, Same(r, Admission(a, registry[a])) PROVE Agrees(r)
    <3>1. registry[a].revision \in Nat
      BY DEF TypeInv, TypeOK, Row
    <3> QED
      BY <2>2, <3>1 DEF Same, Admission, Agrees
  <2> QED
    BY <2>1, <2>2
<1>3. InPlayAgrees'
  BY <1>1, <1>2 DEF InPlayAgrees, Agrees
<1>4. ASSUME NEW r \in InPlay', NEW s \in InPlay', r.agent = s.agent, r.revision = s.revision
      PROVE  r.state = s.state
  <2>1. ASSUME NEW x \in InPlay', NEW y \in InPlay', NEW a \in Agents, x.agent = y.agent,
               x.revision = y.revision, Same(x, Admission(a, registry[a]))
        PROVE  x.state = y.state
    <3>1. /\ x.agent = a /\ x.state = registry[a].state /\ x.revision = registry[a].revision
      BY <2>1 DEF Same, Admission
    <3>2. y.state = registry[a].state
      BY Zenon, <1>2, <2>1, <3>1 DEF Agrees
    <3> QED
      BY <3>1, <3>2
  <2>2. CASE \E a \in Agents : Same(r, Admission(a, registry[a]))
    BY <1>4, <2>1, <2>2
  <2>3. CASE \E a \in Agents : Same(s, Admission(a, registry[a]))
    BY <1>4, <2>1, <2>3
  <2>4. CASE (\E x \in InPlay : Same(r, x)) /\ (\E x \in InPlay : Same(s, x))
    <3>1. PICK x \in InPlay : Same(r, x)
      BY <2>4
    <3>2. PICK y \in InPlay : Same(s, y)
      BY <2>4
    <3>3. x.agent = y.agent /\ x.revision = y.revision
      BY Zenon, <1>4, <3>1, <3>2 DEF Same
    <3>4. x.state = y.state
      BY <3>3 DEF InPlayOnce
    <3> QED
      BY <3>1, <3>2, <3>4 DEF Same
  <2> QED
    BY <2>2, <2>3, <2>4
<1>5. InPlayOnce'
  BY <1>4 DEF InPlayOnce
<1> QED
  BY <1>3, <1>5

\* A decision about one agent raises its revision, so it disagrees with nothing.
LEMMA AgreementMoved ==
  ASSUME TypeInv, InPlayAgrees, InPlayOnce, NEW a \in Agents, NEW new,
         registry' = [registry EXCEPT ![a] = new],
         new.revision = registry[a].revision + 1,
         Registered(a) => new.tenant = registry[a].tenant,
         \A r \in InPlay' : r \in InPlay \/ Same(r, Admission(a, new))
  PROVE  InPlayAgrees' /\ InPlayOnce'
<1> DEFINE old == registry[a]
<1>1. /\ old.revision \in Nat
      /\ \A b \in Agents : registry'[b] = IF b = a THEN new ELSE registry[b]
  BY DEF TypeInv, TypeOK, Row
<1>2. \A r \in InPlay : r.agent = a => /\ r.revision \in Nat \ {0} /\ r.revision <= old.revision
                                        /\ r.tenant = old.tenant
  BY InPlayType DEF InPlayAgrees, Agrees
<1>3. \A r \in InPlay : r.agent = a => /\ r.revision <= new.revision /\ r.revision # new.revision
                                        /\ r.tenant = new.tenant
  BY <1>1, <1>2 DEF Registered
<1>4. \A r : Same(r, Admission(a, new)) =>
        /\ r.agent = a /\ r.tenant = new.tenant /\ r.state = new.state
        /\ r.revision = new.revision
  BY DEF Same, Admission
<1>5. ASSUME NEW r \in InPlay' PROVE Agrees(r)'
  <2>1. CASE r \in InPlay /\ r.agent # a
    <3>1. r.agent \in Agents /\ registry'[r.agent] = registry[r.agent]
      BY <1>1, <2>1, InPlayType
    <3> QED
      BY <2>1, <3>1 DEF InPlayAgrees, Agrees
  <2>2. CASE r \in InPlay /\ r.agent = a
    BY <1>1, <1>3, <2>2 DEF Agrees
  <2>3. CASE Same(r, Admission(a, new))
    BY <1>1, <1>4, <2>3 DEF Agrees
  <2> QED
    BY <2>1, <2>2, <2>3
<1>6. InPlayAgrees'
  BY <1>5 DEF InPlayAgrees
<1>7. ASSUME NEW r \in InPlay', NEW s \in InPlay', r.agent = s.agent, r.revision = s.revision
      PROVE  r.state = s.state
  <2>1. CASE r \in InPlay /\ s \in InPlay
    BY <1>7, <2>1 DEF InPlayOnce
  <2>2. CASE Same(r, Admission(a, new)) /\ s \in InPlay
    BY <1>3, <1>4, <1>7, <2>2
  <2>3. CASE r \in InPlay /\ Same(s, Admission(a, new))
    BY <1>3, <1>4, <1>7, <2>3
  <2>4. CASE Same(r, Admission(a, new)) /\ Same(s, Admission(a, new))
    BY <1>4, <2>4
  <2> QED
    BY <2>1, <2>2, <2>3, <2>4
<1>8. InPlayOnce'
  BY <1>7 DEF InPlayOnce
<1> QED
  BY <1>6, <1>8

\* What a record appended to the log changes, and what it does not.
LEMMA WriteSays ==
  ASSUME TypeInv, NEW record \in Admissions, Write(record)
  PROVE  /\ \A a, n : Said(a, n) => Said(a, n)'
         /\ Said(record.agent, record.revision)'
         /\ \A i \in Offsets' : (i \in Offsets /\ log'[i] = log[i]) \/ Same(log'[i], record)
<1> DEFINE written == [agent |-> record.agent, tenant |-> record.tenant,
                       state |-> record.state, revision |-> record.revision, at |-> now]
<1>1. log \in Seq(Records) /\ written \in Records /\ log' = Append(log, written)
  BY DEF Write, TypeInv, TypeOK, Records, Decisions, Admissions
<1>2. Same(written, record)
  BY DEF Same
<1> HIDE DEF written
<1>3. /\ Len(log) \in Nat /\ Len(log') = Len(log) + 1
      /\ \A i \in 1..Len(log) : log'[i] = log[i]
      /\ log'[Len(log) + 1] = written
  BY <1>1
<1>4. \A a, n : Said(a, n) => Said(a, n)'
  BY <1>3 DEF Said, Offsets
<1>5. Said(record.agent, record.revision)'
  <2>1. Len(log) + 1 \in Offsets'
    BY <1>3 DEF Offsets
  <2> QED
    BY <1>2, <1>3, <2>1 DEF Said, Same
<1>6. \A i \in Offsets' : (i \in Offsets /\ log'[i] = log[i]) \/ Same(log'[i], record)
  BY <1>2, <1>3 DEF Offsets
<1> QED
  BY <1>4, <1>5, <1>6

\* A record nobody can read takes nothing back and says nothing.
LEMMA UnreadableSays ==
  ASSUME TypeInv, NEW key \in Agents \cup {None}, Write(Unreadable(key))
  PROVE  /\ \A a, n : Said(a, n) => Said(a, n)'
         /\ \A i \in Offsets' : Readable(log'[i]) => i \in Offsets /\ log'[i] = log[i]
         /\ \A i \in Offsets : i \in Offsets' /\ log'[i] = log[i]
<1> DEFINE written == [agent |-> key, tenant |-> NoTenant, state |-> None,
                       revision |-> 0, at |-> now]
<1>1. log \in Seq(Records) /\ log' = Append(log, written) /\ ~Readable(written)
  BY DEF Write, Unreadable, Readable, TypeInv, TypeOK
<1> HIDE DEF written
<1>2. /\ Len(log) \in Nat /\ Len(log') = Len(log) + 1
      /\ \A i \in 1..Len(log) : log'[i] = log[i]
      /\ log'[Len(log) + 1] = written
  BY <1>1
<1>3. \A i \in Offsets : i \in Offsets' /\ log'[i] = log[i]
  BY <1>2 DEF Offsets
<1>4. \A i \in Offsets' : i \in Offsets \/ log'[i] = written
  BY <1>2 DEF Offsets
<1> QED
  BY Zenon, <1>1, <1>3, <1>4 DEF Said

\* A step that leaves the log alone leaves what was said.
LEMMA SaidKept ==
  ASSUME UNCHANGED log
  PROVE  /\ \A a, n : Said(a, n) => Said(a, n)'
         /\ Offsets' = Offsets
  BY DEF Said, Offsets

\* A step that neither decides nor records a publication.
LEMMA RowsKept ==
  ASSUME CarryInv, UNCHANGED registry, \A a, n : Said(a, n) => Said(a, n)'
  PROVE  NeverAhead' /\ DecisionIsWrittenOrOutstanding'
<1>1. \A a \in Agents : Registered(a) /\ ~IsOutstanding(a) => Said(a, registry[a].revision)'
  BY DEF CarryInv, DecisionIsWrittenOrOutstanding, Said
<1> QED
  BY <1>1 DEF CarryInv, NeverAhead, DecisionIsWrittenOrOutstanding, Registered, IsOutstanding, Said

\* A decision is outstanding until it is recorded as published.
LEMMA RowsMoved ==
  ASSUME CarryInv, UNCHANGED log, NEW a \in Agents, NEW new,
         registry' = [registry EXCEPT ![a] = new],
         new.revision = registry[a].revision + 1, new.published = registry[a].published
  PROVE  NeverAhead' /\ DecisionIsWrittenOrOutstanding'
<1>1. /\ registry[a].revision \in Nat /\ registry[a].published \in Nat
      /\ \A b \in Agents : registry'[b] = IF b = a THEN new ELSE registry[b]
      /\ registry[a].published <= registry[a].revision
  BY DEF CarryInv, TypeInv, TypeOK, Row, NeverAhead
<1>2. new.published < new.revision /\ new.published <= new.revision
  BY <1>1
<1>3. NeverAhead'
  BY <1>1, <1>2 DEF CarryInv, NeverAhead
<1>4. ASSUME NEW b \in Agents, registry'[b].revision > 0,
             ~(registry'[b].published < registry'[b].revision)
      PROVE  \E i \in Offsets' : log'[i].agent = b /\ log'[i].revision = registry'[b].revision
  <2>1. b # a
    BY <1>1, <1>2, <1>4
  <2> QED
    BY <1>1, <1>4, <2>1
       DEF CarryInv, DecisionIsWrittenOrOutstanding, Registered, IsOutstanding, Offsets
<1> QED
  BY <1>3, <1>4 DEF DecisionIsWrittenOrOutstanding, Registered, IsOutstanding
-----------------------------------------------------------------------------
\* A worker's hands, after a step that replaces what one worker holds.
LEMMA Hands ==
  ASSUME TypeInv, NEW w \in Workers, NEW held,
         carrying' = [carrying EXCEPT ![w] = held]
  PROVE  \A v \in Workers : carrying'[v] = IF v = w THEN held ELSE carrying[v]
  BY DEF TypeInv, TypeOK

\* A handler's decision, carried in hand: Register and moveAgent.
LEMMA DecidedCarryInv ==
  ASSUME CarryInv, TypeInv', NEW w \in Workers, NEW a \in Agents, NEW new, Idle(w),
         registry' = [registry EXCEPT ![a] = new],
         carrying' = [carrying EXCEPT ![w] = <<Admission(a, new)>>],
         new.revision = registry[a].revision + 1, new.published = registry[a].published,
         Registered(a) => new.tenant = registry[a].tenant,
         UNCHANGED <<log, told>>
  PROVE  CarryInv'
<1>1. \A v \in Workers : carrying'[v] = IF v = w THEN <<Admission(a, new)>> ELSE carrying[v]
  <2> DEFINE held == <<Admission(a, new)>>
  <2>1. TypeInv
    BY DEF CarryInv
  <2>2. carrying' = [carrying EXCEPT ![w] = held]
    OBVIOUS
  <2> HIDE DEF held
  <2>3. \A v \in Workers : carrying'[v] = IF v = w THEN held ELSE carrying[v]
    BY Zenon, <2>1, <2>2, Hands
  <2> QED
    BY <2>3 DEF held
<1>2. ASSUME NEW r \in InPlay' PROVE r \in InPlay \/ Same(r, Admission(a, new))
  <2>1. ASSUME NEW i \in Offsets', Readable(log'[i]), r = log'[i] PROVE r \in InPlay
    BY <2>1 DEF InPlay, Offsets
  <2>2. ASSUME NEW v \in Workers, NEW k \in 1..Len(carrying'[v]), r = carrying'[v][k], v # w
        PROVE  r \in InPlay
    BY <1>1, <2>2 DEF InPlay
  <2>3. ASSUME NEW k \in 1..Len(carrying'[w]), r = carrying'[w][k]
        PROVE  Same(r, Admission(a, new))
    BY <1>1, <2>3 DEF Same
  <2> QED
    BY <2>1, <2>2, <2>3 DEF InPlay
<1>3. InPlayAgrees' /\ InPlayOnce'
  BY Zenon, <1>2, AgreementMoved DEF CarryInv
<1>4. NeverAhead' /\ DecisionIsWrittenOrOutstanding'
  BY Zenon, RowsMoved
<1>5. ToldIsSaid'
  <2>1. \A v \in Workers : told'[v] => v # w /\ carrying'[v] = carrying[v]
    BY <1>1 DEF CarryInv, ToldIsSaid, Idle
  <2> QED
    BY <2>1, SaidKept DEF CarryInv, ToldIsSaid
<1> QED
  BY <1>3, <1>4, <1>5 DEF CarryInv

\* A decision nobody carries: issueCertificate and renewCertificate.
LEMMA UnannouncedCarryInv ==
  ASSUME CarryInv, TypeInv', NEW a \in Agents, NEW new,
         registry' = [registry EXCEPT ![a] = new],
         new.revision = registry[a].revision + 1, new.published = registry[a].published,
         Registered(a) => new.tenant = registry[a].tenant,
         UNCHANGED <<log, told, carrying>>
  PROVE  CarryInv'
<1>1. InPlay' = InPlay
  BY DEF InPlay, Offsets
<1>2. InPlayAgrees' /\ InPlayOnce'
  BY Zenon, <1>1, AgreementMoved DEF CarryInv
<1>3. NeverAhead' /\ DecisionIsWrittenOrOutstanding'
  BY Zenon, RowsMoved
<1>4. ToldIsSaid'
  BY SaidKept DEF CarryInv, ToldIsSaid
<1> QED
  BY <1>2, <1>3, <1>4 DEF CarryInv

\* What a move leaves in the row.
LEMMA MovedFields ==
  ASSUME TypeInv, NEW a \in Agents, NEW move
  PROVE  LET new == [Moved(registry[a], move) EXCEPT !.changedAt = now] IN
         /\ new.revision = registry[a].revision + 1
         /\ new.published = registry[a].published
         /\ new.tenant = registry[a].tenant
<1>1. registry[a] \in Row
  BY DEF TypeInv, TypeOK
<1> QED
  BY <1>1 DEF Moved, Row

\* A worker that wrote its first record, and either holds it still or gave up.
LEMMA WroteCarryInv ==
  ASSUME CarryInv, TypeInv', NEW w \in Workers, ~Idle(w), Write(Head(carrying[w])),
         UNCHANGED registry,
         \A v \in Workers : carrying'[v] = carrying[v] \/ carrying'[v] = <<>>,
         \A v \in Workers : told'[v] => told[v] \/ v = w,
         \A v \in Workers : told'[v] => carrying'[v] = carrying[v]
  PROVE  CarryInv'
<1>0. /\ carrying[w] \in Seq(Admissions) /\ carrying[w] # <<>>
      /\ Head(carrying[w]) \in Admissions
      /\ Head(carrying[w]) = carrying[w][1] /\ 1 \in 1..Len(carrying[w])
  BY DEF CarryInv, TypeInv, TypeOK, Idle
<1>1. PICK record \in Admissions : record = Head(carrying[w])
  BY <1>0
<1>2. record \in InPlay
  BY <1>0, <1>1 DEF InPlay
<1>3. /\ \A a, n : Said(a, n) => Said(a, n)'
      /\ Said(record.agent, record.revision)'
      /\ \A i \in Offsets' : (i \in Offsets /\ log'[i] = log[i]) \/ Same(log'[i], record)
  BY <1>1, WriteSays DEF CarryInv
<1>4. ASSUME NEW r \in InPlay' PROVE \E s \in InPlay : Same(r, s)
  <2>1. ASSUME NEW i \in Offsets', Readable(log'[i]), r = log'[i]
        PROVE  \E s \in InPlay : Same(r, s)
    <3>1. CASE i \in Offsets /\ log'[i] = log[i]
      BY <2>1, <3>1 DEF InPlay, Same
    <3>2. CASE Same(log'[i], record)
      BY <1>2, <2>1, <3>2
    <3> QED
      BY <1>3, <3>1, <3>2
  <2>2. ASSUME NEW v \in Workers, NEW k \in 1..Len(carrying'[v]), r = carrying'[v][k]
        PROVE  \E s \in InPlay : Same(r, s)
    <3>1. CASE carrying'[v] = <<>>
      BY <2>2, <3>1
    <3>2. CASE carrying'[v] = carrying[v]
      BY <2>2, <3>2 DEF InPlay, Same
    <3> QED
      BY <3>1, <3>2
  <2> QED
    BY <2>1, <2>2 DEF InPlay
<1>5. InPlayAgrees' /\ InPlayOnce'
  BY <1>4, AgreementKept DEF CarryInv
<1>6. NeverAhead' /\ DecisionIsWrittenOrOutstanding'
  BY <1>3, RowsKept
<1>7. ToldIsSaid'
  <2> SUFFICES ASSUME NEW v \in Workers, told'[v]
               PROVE  /\ carrying'[v] # <<>>
                      /\ Said(Head(carrying[v]).agent, Head(carrying[v]).revision)'
    BY DEF ToldIsSaid
  <2>1. CASE told[v]
    <3>1. carrying[v] # <<>> /\ Said(Head(carrying[v]).agent, Head(carrying[v]).revision)
      BY <2>1 DEF CarryInv, ToldIsSaid
    <3>2. carrying'[v] = carrying[v]
      OBVIOUS
    <3> QED
      BY <1>3, <3>1, <3>2
  <2>2. CASE v = w
    BY <1>0, <1>1, <1>3, <2>2
  <2> QED
    BY <2>1, <2>2
<1> QED
  BY <1>5, <1>6, <1>7 DEF CarryInv

\* A worker whose publication is recorded: the row says no more than was said.
LEMMA RecordedCarryInv ==
  ASSUME CarryInv, TypeInv', NEW w \in Workers, RecordAnnounced(w)
  PROVE  CarryInv'
<1> DEFINE record == Head(carrying[w])
           a      == record.agent
           new    == Announced(registry[a], record.revision)
<1>1. /\ carrying[w] \in Seq(Admissions) /\ carrying[w] # <<>> /\ record \in Admissions
      /\ record = carrying[w][1] /\ 1 \in 1..Len(carrying[w])
  BY DEF CarryInv, TypeInv, TypeOK, Idle, RecordAnnounced
<1>2. record \in InPlay /\ a \in Agents /\ record.revision \in Nat
  BY SMTT(30), <1>1 DEF InPlay, Admissions
<1>3. /\ registry[a] \in Row /\ registry[a].published \in Nat /\ registry[a].revision \in Nat
      /\ record.revision <= registry[a].revision
      /\ registry[a].published <= registry[a].revision
  BY <1>2 DEF CarryInv, TypeInv, TypeOK, Row, InPlayAgrees, Agrees, NeverAhead
<1>4. /\ registry' = [registry EXCEPT ![a] = new]
      /\ carrying' = [carrying EXCEPT ![w] = Tail(carrying[w])]
      /\ told' = [told EXCEPT ![w] = FALSE]
      /\ told[w]
      /\ UNCHANGED log
  BY DEF RecordAnnounced, logVars
<1>5. /\ new.revision = registry[a].revision /\ new.tenant = registry[a].tenant
      /\ new.state = registry[a].state
      /\ new.published = IF registry[a].published < record.revision
                         THEN record.revision ELSE registry[a].published
  BY <1>3 DEF Announced, Row
<1> HIDE DEF new
<1>6. \A b \in Agents : registry'[b] = IF b = a THEN new ELSE registry[b]
  BY <1>4 DEF CarryInv, TypeInv, TypeOK
<1>7. \A v \in Workers : carrying'[v] = IF v = w THEN Tail(carrying[w]) ELSE carrying[v]
  BY Zenon, <1>4, Hands DEF CarryInv
<1>8. ASSUME NEW r \in InPlay' PROVE r \in InPlay
  <2>1. ASSUME NEW i \in Offsets', Readable(log'[i]), r = log'[i] PROVE r \in InPlay
    BY <1>4, <2>1 DEF InPlay, Offsets
  <2>2. ASSUME NEW v \in Workers, NEW k \in 1..Len(carrying'[v]), r = carrying'[v][k]
        PROVE  r \in InPlay
    <3>1. CASE v = w
      <4>0. /\ Len(Tail(carrying[w])) = Len(carrying[w]) - 1
            /\ \A j \in 1..(Len(carrying[w]) - 1) : Tail(carrying[w])[j] = carrying[w][j + 1]
        BY <1>1
      <4>1. k \in 1..(Len(carrying[w]) - 1) /\ r = carrying[w][k + 1]
        BY Zenon, <1>7, <2>2, <3>1, <4>0
      <4>2. k + 1 \in 1..Len(carrying[w])
        BY <1>1, <4>1
      <4> QED
        BY <4>1, <4>2 DEF InPlay
    <3>2. CASE v # w
      BY <1>7, <2>2, <3>2 DEF InPlay
    <3> QED
      BY <3>1, <3>2
  <2> QED
    BY <2>1, <2>2 DEF InPlay
<1>9. InPlayAgrees' /\ InPlayOnce'
  <2>1. \A r \in InPlay' : \E s \in InPlay : Same(r, s)
    BY <1>8 DEF Same
  <2>2. \A b \in Agents : /\ registry'[b].revision = registry[b].revision
                          /\ registry'[b].tenant = registry[b].tenant
                          /\ registry'[b].state = registry[b].state
    BY <1>5, <1>6
  <2> QED
    BY <2>1, <2>2, AgreementKept DEF CarryInv
<1>10. NeverAhead'
  BY <1>2, <1>3, <1>5, <1>6 DEF CarryInv, NeverAhead
<1>11. \A b, n : Said(b, n) => Said(b, n)'
  BY <1>4, SaidKept
<1>12. ASSUME NEW b \in Agents, registry'[b].revision > 0,
              ~(registry'[b].published < registry'[b].revision)
       PROVE  Said(b, registry[b].revision)
  <2>1. CASE b # a \/ ~(registry[b].published < registry[b].revision)
    BY <1>5, <1>6, <1>12, <2>1
       DEF CarryInv, DecisionIsWrittenOrOutstanding, Registered, IsOutstanding, Said
  <2>2. CASE b = a /\ registry[b].published < registry[b].revision
    <3>1. record.revision = registry[b].revision
      <4>1. registry'[b] = new
        BY <1>6, <2>2
      <4>2. ~(new.published < new.revision)
        BY <1>12, <4>1
      <4>3. ~(new.published < registry[a].revision) /\ registry[a].published < registry[a].revision
        BY SMTT(30), <1>5, <2>2, <4>2
      <4>4. new.published = record.revision
        BY <1>2, <1>3, <1>5, <4>3
      <4>5. record.revision = registry[a].revision
        <5> DEFINE said == record.revision
                   row  == registry[a].revision
        <5>1. said \in Nat /\ row \in Nat /\ said <= row /\ ~(said < row)
          BY <1>2, <1>3, <4>3, <4>4
        <5> HIDE DEF said, row
        <5>2. said = row
          BY <5>1
        <5> QED
          BY <5>2 DEF said, row
      <4> QED
        BY <2>2, <4>5
    <3> QED
      BY <1>4, <2>2, <3>1 DEF CarryInv, ToldIsSaid
  <2> QED
    BY <2>1, <2>2
<1>13. DecisionIsWrittenOrOutstanding'
  <2>1. \A b \in Agents : registry'[b].revision = registry[b].revision
    BY <1>5, <1>6
  <2>2. ASSUME NEW b \in Agents, registry'[b].revision > 0,
               ~(registry'[b].published < registry'[b].revision)
        PROVE  \E i \in Offsets' : log'[i].agent = b /\ log'[i].revision = registry'[b].revision
    BY SMTT(30), <1>4, <1>12, <2>1, <2>2, SaidKept DEF Said
  <2> QED
    BY <2>2 DEF DecisionIsWrittenOrOutstanding, Registered, IsOutstanding
<1>14. ToldIsSaid'
  <2>1. \A v \in Workers : told'[v] => v # w /\ told[v] /\ carrying'[v] = carrying[v]
    BY <1>4, <1>7 DEF CarryInv, TypeInv, TypeOK
  <2> QED
    BY <1>11, <2>1 DEF CarryInv, ToldIsSaid
<1> QED
  BY <1>9, <1>10, <1>13, <1>14 DEF CarryInv

\* Every step keeps the invariant.
LEMMA NextCarryInv == CarryInv /\ [Next]_vars => CarryInv'
<1> SUFFICES ASSUME CarryInv, [Next]_vars PROVE CarryInv'
  OBVIOUS
<1>t. TypeInv /\ TypeInv'
  BY NextTypeInv DEF CarryInv
<1> USE DEF gatewayVars, logVars, controlVars
<1>1. CASE UNCHANGED <<registry, carrying, told, log>>
  <2>1. InPlay' = InPlay
    BY <1>1 DEF InPlay, Offsets
  <2>2. InPlayAgrees' /\ InPlayOnce'
    BY <1>1, <2>1 DEF CarryInv, InPlayAgrees, InPlayOnce, Agrees
  <2>3. NeverAhead' /\ DecisionIsWrittenOrOutstanding'
    BY <1>1, RowsKept, SaidKept
  <2>4. ToldIsSaid'
    BY <1>1, SaidKept DEF CarryInv, ToldIsSaid
  <2> QED
    BY <1>t, <2>2, <2>3, <2>4 DEF CarryInv
<1>2. ASSUME NEW w \in Workers, NEW a \in Agents, NEW t \in Tenants, Register(w, a, t)
      PROVE  CarryInv'
  <2> DEFINE new == [registry[a] EXCEPT !.revision = 1, !.tenant = t, !.changedAt = now]
  <2>1. registry[a] \in Row /\ registry[a].revision = 0
    BY <1>t, <1>2 DEF TypeInv, TypeOK, Register, Registered, Row
  <2>2. /\ registry' = [registry EXCEPT ![a] = new] /\ registry'[a] = new
        /\ Idle(w) /\ ~Registered(a)
        /\ UNCHANGED <<log, told>>
    BY <1>2, <1>t DEF Register, TypeInv, TypeOK
  <2>3. carrying' = [carrying EXCEPT ![w] = <<Admission(a, new)>>]
    BY Zenon, <1>2, <2>2 DEF Register
  <2>4. new.revision = registry[a].revision + 1 /\ new.published = registry[a].published
    BY <2>1 DEF Row
  <2> HIDE DEF new
  <2> QED
    BY Zenon, <1>t, <2>2, <2>3, <2>4, DecidedCarryInv
<1>3. ASSUME NEW w \in Workers, NEW a \in Agents, NEW move, MoveAgent(w, a, move)
      PROVE  CarryInv'
  <2> DEFINE new == [Moved(registry[a], move) EXCEPT !.changedAt = now]
  <2>1. /\ registry' = [registry EXCEPT ![a] = new] /\ registry'[a] = new
        /\ Idle(w)
        /\ UNCHANGED <<log, told>>
    BY <1>3, <1>t DEF MoveAgent, Move, TypeInv, TypeOK
  <2>2. carrying' = [carrying EXCEPT ![w] = <<Admission(a, new)>>]
    BY Zenon, <1>3, <2>1 DEF MoveAgent
  <2>3. /\ new.revision = registry[a].revision + 1 /\ new.published = registry[a].published
        /\ new.tenant = registry[a].tenant
    BY <1>t, MovedFields
  <2> HIDE DEF new
  <2> QED
    BY Zenon, <1>t, <2>1, <2>2, <2>3, DecidedCarryInv
<1>4. ASSUME NEW a \in Agents, NEW move, MoveUnannounced(a, move) PROVE CarryInv'
  <2> DEFINE new == [Moved(registry[a], move) EXCEPT !.changedAt = now]
  <2>1. registry' = [registry EXCEPT ![a] = new] /\ UNCHANGED <<log, told, carrying>>
    BY <1>4 DEF MoveUnannounced, Move
  <2>2. /\ new.revision = registry[a].revision + 1 /\ new.published = registry[a].published
        /\ new.tenant = registry[a].tenant
    BY <1>t, MovedFields
  <2> HIDE DEF new
  <2> QED
    BY Zenon, <1>t, <2>1, <2>2, UnannouncedCarryInv
<1>5. ASSUME NEW w \in Workers, Sweep(w) PROVE CarryInv'
  <2>1. PICK batch \in OutstandingBatches :
          carrying' = [carrying EXCEPT ![w] =
                         [i \in 1..Len(batch) |-> Admission(batch[i], registry[batch[i]])]]
    BY Zenon, <1>5 DEF Sweep
  <2> DEFINE held == [i \in 1..Len(batch) |-> Admission(batch[i], registry[batch[i]])]
  <2>2. PICK n \in 1..Batch : batch \in [1..n -> Agents]
    BY DEF OutstandingBatches
  <2>3. Len(batch) = n /\ n \in Nat /\ Len(held) = n
    BY <2>2, ConstantsAssumption
  <2>4. \A k \in 1..Len(held) : batch[k] \in Agents /\ held[k] = Admission(batch[k], registry[batch[k]])
    BY <2>2, <2>3
  <2> HIDE DEF held
  <2>5. \A v \in Workers : carrying'[v] = IF v = w THEN held ELSE carrying[v]
    BY Zenon, <1>t, <2>1, Hands DEF held
  <2>6. Idle(w) /\ UNCHANGED <<registry, told, log>>
    BY <1>5 DEF Sweep
  <2>7. ASSUME NEW r \in InPlay'
        PROVE  \/ \E s \in InPlay : Same(r, s)
               \/ \E a \in Agents : Same(r, Admission(a, registry[a]))
    <3>1. ASSUME NEW i \in Offsets', Readable(log'[i]), r = log'[i] PROVE r \in InPlay
      BY <2>6, <3>1 DEF InPlay, Offsets
    <3>2. ASSUME NEW v \in Workers, NEW k \in 1..Len(carrying'[v]), r = carrying'[v][k], v # w
          PROVE  r \in InPlay
      BY <2>5, <3>2 DEF InPlay
    <3>3. ASSUME NEW k \in 1..Len(carrying'[w]), r = carrying'[w][k]
          PROVE  \E a \in Agents : Same(r, Admission(a, registry[a]))
      BY <2>4, <2>5, <3>3 DEF Same
    <3>4. Same(r, r)
      BY DEF Same
    <3>5. \/ \E i \in Offsets' : Readable(log'[i]) /\ r = log'[i]
          \/ \E v \in Workers : \E k \in 1..Len(carrying'[v]) : r = carrying'[v][k]
      BY DEF InPlay
    <3>6. r \in InPlay \/ \E a \in Agents : Same(r, Admission(a, registry[a]))
      BY <3>1, <3>2, <3>3, <3>5
    <3> QED
      BY <3>4, <3>6
  <2>8. InPlayAgrees' /\ InPlayOnce'
    BY <1>t, <2>6, <2>7, AgreementKept DEF CarryInv
  <2>9. NeverAhead' /\ DecisionIsWrittenOrOutstanding'
    BY <2>6, RowsKept, SaidKept
  <2>10. ToldIsSaid'
    <3>1. \A v \in Workers : told'[v] => told[v] /\ carrying'[v] = carrying[v]
      BY <2>5, <2>6 DEF CarryInv, ToldIsSaid, Idle
    <3> QED
      BY <2>6, <3>1, SaidKept DEF CarryInv, ToldIsSaid
  <2> QED
    BY <1>t, <2>8, <2>9, <2>10 DEF CarryInv
<1>6. ASSUME NEW w \in Workers, Publish(w) PROVE CarryInv'
  <2>1. \A v \in Workers : told'[v] => told[v] \/ v = w
    BY <1>6, <1>t DEF Publish, TypeInv, TypeOK
  <2> QED
    BY <1>6, <1>t, <2>1, WroteCarryInv DEF Publish
<1>7. ASSUME NEW w \in Workers, PublishUnanswered(w) PROVE CarryInv'
  <2>1. \A v \in Workers : /\ carrying'[v] = carrying[v] \/ carrying'[v] = <<>>
                           /\ told'[v] => told[v] /\ carrying'[v] = carrying[v]
    BY <1>7, <1>t DEF PublishUnanswered, Dropped, TypeInv, TypeOK
  <2> QED
    BY <1>7, <1>t, <2>1, WroteCarryInv DEF PublishUnanswered
<1>8. ASSUME NEW w \in Workers, GiveUp(w) PROVE CarryInv'
  <2>1. /\ \A v \in Workers : /\ carrying'[v] = carrying[v] \/ carrying'[v] = <<>>
                              /\ told'[v] => told[v] /\ carrying'[v] = carrying[v]
        /\ UNCHANGED <<registry, log>>
    BY <1>8, <1>t DEF GiveUp, Dropped, TypeInv, TypeOK
  <2>2. ASSUME NEW r \in InPlay' PROVE \E s \in InPlay : Same(r, s)
    <3>1. ASSUME NEW i \in Offsets', Readable(log'[i]), r = log'[i] PROVE r \in InPlay
      BY <2>1, <3>1 DEF InPlay, Offsets
    <3>2. ASSUME NEW v \in Workers, NEW k \in 1..Len(carrying'[v]), r = carrying'[v][k]
          PROVE  r \in InPlay
      <4>1. CASE carrying'[v] = <<>>
        BY <3>2, <4>1
      <4>2. CASE carrying'[v] = carrying[v]
        BY <3>2, <4>2 DEF InPlay
      <4> QED
        BY <2>1, <4>1, <4>2
    <3>3. Same(r, r)
      BY DEF Same
    <3>4. \/ \E i \in Offsets' : Readable(log'[i]) /\ r = log'[i]
          \/ \E v \in Workers : \E k \in 1..Len(carrying'[v]) : r = carrying'[v][k]
      BY DEF InPlay
    <3>5. r \in InPlay
      BY <3>1, <3>2, <3>4
    <3> QED
      BY <3>3, <3>5
  <2>3. InPlayAgrees' /\ InPlayOnce'
    BY <1>t, <2>1, <2>2, AgreementKept DEF CarryInv
  <2>4. NeverAhead' /\ DecisionIsWrittenOrOutstanding'
    BY <2>1, RowsKept, SaidKept
  <2>5. ToldIsSaid'
    BY <2>1, SaidKept DEF CarryInv, ToldIsSaid
  <2> QED
    BY <1>t, <2>3, <2>4, <2>5 DEF CarryInv
<1>9. ASSUME NEW key \in Agents \cup {None}, WriteUnreadable(key) PROVE CarryInv'
  <2>1. /\ Write(Unreadable(key)) /\ UNCHANGED <<registry, carrying, told>>
    BY <1>9 DEF WriteUnreadable
  <2>2. /\ \A a, n : Said(a, n) => Said(a, n)'
        /\ \A i \in Offsets' : Readable(log'[i]) => i \in Offsets /\ log'[i] = log[i]
        /\ \A i \in Offsets : i \in Offsets' /\ log'[i] = log[i]
    BY SMTT(30), <1>t, <2>1, UnreadableSays
  <2>3. \A r \in InPlay' : r \in InPlay
    BY <2>1, <2>2 DEF InPlay
  <2>4. InPlayAgrees' /\ InPlayOnce'
    BY <2>1, <2>3 DEF CarryInv, InPlayAgrees, InPlayOnce, Agrees
  <2>5. NeverAhead' /\ DecisionIsWrittenOrOutstanding'
    BY <2>1, <2>2, RowsKept
  <2>6. ToldIsSaid'
    BY Zenon, <2>1, <2>2 DEF CarryInv, ToldIsSaid
  <2> QED
    BY <1>t, <2>4, <2>5, <2>6 DEF CarryInv
<1> QED
  <2>1. CASE \E w \in Workers, a \in Agents : Decide(w, a)
    BY Zenon, <2>1, <1>2, <1>3 DEF Decide, TransitionAgent, BindAgentIdentity
  <2>2. CASE \E a \in Agents : IssueCertificate(a) \/ RenewCertificate(a)
    BY <2>2, <1>4 DEF IssueCertificate, RenewCertificate
  <2>3. CASE \E w \in Workers : Carry(w)
    BY <2>3, <1>t, <1>5, <1>6, <1>7, <1>8, RecordedCarryInv DEF Carry
  <2>4. CASE \/ \E i \in kept : Compact(i)
             \/ \E g \in Gateways : Gate(g)
             \/ Tick
             \/ UNCHANGED vars
    BY Zenon, <2>4, <1>1 DEF Compact, Gate, Start, Deliver, DeliverNameless, Advance, Replayed, Ask,
                      ListEnd, Confirm, Unreachable, Stop, Tick, vars
  <2> QED
    BY <1>9, <2>1, <2>2, <2>3, <2>4 DEF Next
-----------------------------------------------------------------------------
LEMMA CarryHolds == Spec => []CarryInv
  BY InitCarryInv, NextCarryInv, PTL DEF Spec

\* No gateway ever reads a record the registry did not decide: everything readable
\* in the log, or on its way there, is the row's own decision or one it replaced.
THEOREM LogFollows == Spec => []LogFollowsRegistry
<1>1. CarryInv => LogFollowsRegistry
  BY SMTT(30) DEF CarryInv, InPlayAgrees, InPlay, LogFollowsRegistry
<1> QED
  BY <1>1, CarryHolds, PTL

\* However often a decision is published, and by whom, the log says one thing of
\* each revision: Roster.Apply never meets two halves of a conflict in it.
THEOREM DecidedOnce == Spec => []OneDecisionPerRevision
<1>1. CarryInv => OneDecisionPerRevision
  BY DEF CarryInv, InPlayOnce, InPlay, OneDecisionPerRevision
<1> QED
  BY <1>1, CarryHolds, PTL

\* carry writes the registry first, the log after it and the row's mark last: a
\* decision whose mark is set is in the log, whatever failed or crashed between.
THEOREM NothingForgotten == Spec => []DecisionIsWrittenOrOutstanding
<1>1. CarryInv => DecisionIsWrittenOrOutstanding
  BY DEF CarryInv
<1> QED
  BY <1>1, CarryHolds, PTL
=============================================================================
