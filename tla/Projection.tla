----------------------------- MODULE Projection -----------------------------
(***************************************************************************)
(* A consumer group that folds the inventory topic into the store.  Every  *)
(* writer and projector of the platform is this loop: poll a batch, keep   *)
(* persisting it until it is durable, commit the group's position.  The    *)
(* inventory projector is the one whose batch lands in three places (the   *)
(* items, the line absence is measured against, the quarantine).           *)
(*                                                                         *)
(* A partition stands for one asset and one kind of item, as its records   *)
(* share a key.  A record is what its fold depends on:                     *)
(*   at     when it was collected, at the precision of the contract,       *)
(*   items  the items it names,                                            *)
(*   full   whether it enumerates in full (a snapshot),                    *)
(*   valid  whether it decodes and keeps the contract, which asks of an    *)
(*          instant only that it is one and lets a snapshot name nothing,  *)
(*   wild   those of its items whose row has another instant (received,    *)
(*          installed, logged in, started) the store has no room for.      *)
(* Offsets count from 1 and a position is the last offset read.            *)
(***************************************************************************)
EXTENDS Integers, Sequences, FiniteSets, FiniteSetsExt

CONSTANTS
  Members,      \* processes of the group
  Partitions,
  Stream,       \* per partition: the records the backbone holds, in order
  MaxRecords,   \* how many records one poll takes
  Earliest, Latest,  \* the instants a column of the store can hold
  Precision,    \* instants of the contract to one of the store's (a millisecond)
  MaxFailures   \* bound: writes that fail, rebalances, evictions and crashes

Nobody == "nobody"

ASSUME ProjectionAssumption ==
  /\ Nobody \notin Members
  /\ MaxRecords \in Nat \ {0}
  /\ Precision \in Nat \ {0}
  /\ Earliest \in Nat /\ Earliest >= Precision
  /\ Latest \in Nat /\ Latest >= Earliest
  /\ MaxFailures \in Nat

VARIABLES
  owner,        \* the member the group gave each partition to
  position,     \* how far that member has read it
  committed,    \* the group's committed position
  member,       \* per member: its stage, and the batch in its hands
  rows,         \* asset_inventory: last_seen of each item, 0 if never seen
  line,         \* asset_inventory_scans: scanned_at, 0 if never scanned
  quarantined,  \* source positions of the records in the quarantine topic
  failures

groupVars == <<owner, position, committed>>
storeVars == <<rows, line, quarantined>>
vars == <<groupVars, member, storeVars, failures>>

Max0(S) == Max(S \cup {0})

Records == UNION {{<<p, o>> : o \in 1 .. Len(Stream[p])} : p \in Partitions}
At(r) == Stream[r[1]][r[2]]
Items == UNION {At(r).items : r \in Records}

\* What a DateTime64(3) column keeps of the instant a record was collected at.
\* It is never 0, which stands for an asset or an item without a row.
Stamp(r) == At(r).at \div Precision

Stages == {"down", "polling", "handling", "stored", "scanned", "durable"}

Down == [stage |-> "down", batch |-> {}, fenced |-> FALSE]
Polling == [Down EXCEPT !.stage = "polling"]

Init ==
  /\ owner = [p \in Partitions |-> Nobody]
  /\ position = [p \in Partitions |-> 0]
  /\ committed = [p \in Partitions |-> 0]
  /\ member = [m \in Members |-> Down]
  /\ rows = [x \in Items |-> 0]
  /\ line = [p \in Partitions |-> 0]
  /\ quarantined = {}
  /\ failures = 0

-----------------------------------------------------------------------------
(***************************************************************************)
(* The group.  BlockRebalanceOnPoll: a member is given and gives up        *)
(* partitions only between two batches.  One that holds a batch for longer *)
(* than the group waits is put out of it without knowing.                  *)
(***************************************************************************)
Fails == failures < MaxFailures /\ failures' = failures + 1

Start(m) ==
  /\ member[m].stage = "down"
  /\ member' = [member EXCEPT ![m] = Polling]
  /\ UNCHANGED <<groupVars, storeVars, failures>>

\* Regression: the reader resumes one past the position.
AssignNext(m, p) ==
  /\ owner[p] = Nobody
  /\ member[m].stage = "polling"
  /\ owner' = [owner EXCEPT ![p] = m]
  /\ position' = [position EXCEPT ![p] = committed[p] + 1]
  /\ UNCHANGED <<committed, member, storeVars, failures>>

\* With no state to rebuild the reader resumes at the committed position.
Assign(m, p) ==
  /\ owner[p] = Nobody
  /\ member[m].stage = "polling"
  /\ owner' = [owner EXCEPT ![p] = m]
  /\ position' = [position EXCEPT ![p] = committed[p]]
  /\ UNCHANGED <<committed, member, storeVars, failures>>

Revoke(m, p) ==
  /\ owner[p] = m
  /\ member[m].stage = "polling"
  /\ Fails
  /\ owner' = [owner EXCEPT ![p] = Nobody]
  /\ UNCHANGED <<position, committed, member, storeVars>>

Unowned(m) == [p \in Partitions |-> IF owner[p] = m THEN Nobody ELSE owner[p]]

Evict(m) ==
  /\ member[m].stage \notin {"down", "polling"}
  /\ ~ member[m].fenced
  /\ Fails
  /\ owner' = Unowned(m)
  /\ member' = [member EXCEPT ![m].fenced = TRUE]
  /\ UNCHANGED <<position, committed, storeVars>>

\* A crash, or a stop that found the batch not yet durable.
Crash(m) ==
  /\ member[m].stage # "down"
  /\ Fails
  /\ owner' = Unowned(m)
  /\ member' = [member EXCEPT ![m] = Down]
  /\ UNCHANGED <<position, committed, storeVars>>

-----------------------------------------------------------------------------
(***************************************************************************)
(* Consume and handle                                                      *)
(***************************************************************************)
Owned(m) == {p \in Partitions : owner[p] = m}

Poll(m) ==
  /\ member[m].stage = "polling"
  /\ \E upto \in [Owned(m) -> UNION {0 .. Len(Stream[p]) : p \in Partitions}] :
       LET batch == UNION {{<<p, o>> : o \in position[p] + 1 .. upto[p]} : p \in Owned(m)}
       IN /\ \A p \in Owned(m) : upto[p] \in position[p] .. Len(Stream[p])
          /\ Cardinality(batch) \in 1 .. MaxRecords
          /\ member' = [member EXCEPT ![m] = [Polling EXCEPT !.stage = "handling", !.batch = batch]]
          /\ position' = [p \in Partitions |-> IF owner[p] = m THEN upto[p] ELSE position[p]]
  /\ UNCHANGED <<owner, committed, storeVars, failures>>

\* What the columns of a row, and of a scan, have room for.
RowFits(r, x) == At(r).at \in Earliest .. Latest /\ x \notin At(r).wild
ScanFits(r) == At(r).at \in Earliest .. Latest

\* Every row the record projects to is looked at, its scan is not.
Storable(r) == \A x \in At(r).items : RowFits(r, x)

\* Regression: a record the store cannot hold is kept among the rows.
FoldableAll(batch) == {r \in batch : At(r).valid}

\* classify: what is folded, and what goes to the quarantine.
Foldable(batch) == {r \in batch : At(r).valid /\ Storable(r)}
Refused(batch) == batch \ Foldable(batch)
Scans(batch) == {r \in Foldable(batch) : At(r).full}

\* Regression: the row written last is the one that is read.
ReplacingLast(x, held, batch) ==
  LET seen == {Stamp(r) : r \in {s \in batch : x \in At(s).items}}
  IN IF seen = {} THEN held ELSE Max(seen)

\* ReplacingMergeTree(last_seen): of one key the newest version is read.
Replacing(x, held, batch) ==
  Max0({held} \cup {Stamp(r) : r \in {s \in batch : x \in At(s).items}})

RowsWith(batch) == [x \in Items |-> Replacing(x, rows[x], batch)]
LineWith(batch) ==
  [p \in Partitions |-> Max0({line[p]} \cup {Stamp(r) : r \in {s \in batch : s[1] = p}})]

Reach(m, stage) == member' = [member EXCEPT ![m].stage = stage]

RowsFit(batch) == \A r \in Foldable(batch) : \A x \in At(r).items : RowFits(r, x)
ScansFit(batch) == \A r \in Scans(batch) : ScanFits(r)

StoreItems(m) ==
  /\ member[m].stage = "handling"
  /\ RowsFit(member[m].batch)
  /\ rows' = RowsWith(Foldable(member[m].batch))
  /\ Reach(m, "stored")
  /\ UNCHANGED <<groupVars, line, quarantined, failures>>

\* Regression: the line moves before the items it confirms have landed.
StoreScansFirst(m) ==
  /\ member[m].stage = "handling"
  /\ line' = LineWith(Scans(member[m].batch))
  /\ UNCHANGED <<groupVars, member, rows, quarantined, failures>>

StoreScans(m) ==
  /\ member[m].stage = "stored"
  /\ ScansFit(member[m].batch)
  /\ line' = LineWith(Scans(member[m].batch))
  /\ Reach(m, "scanned")
  /\ UNCHANGED <<groupVars, rows, quarantined, failures>>

\* What the columns have no room for is refused while the insert is put
\* together: nothing of it is sent, and persist is run again from its start.
StoreRefuses(m) ==
  /\ member[m].stage \in {"handling", "stored"}
  /\ ~ IF member[m].stage = "handling" THEN RowsFit(member[m].batch)
       ELSE ScansFit(member[m].batch)
  /\ Reach(m, "handling")
  /\ UNCHANGED <<groupVars, storeVars, failures>>

QuarantineRefused(m) ==
  /\ member[m].stage = "scanned"
  /\ quarantined' = quarantined \cup Refused(member[m].batch)
  /\ Reach(m, "durable")
  /\ UNCHANGED <<groupVars, rows, line, failures>>

\* A write fails or its time runs out, and part of it, or all of it, landed.
\* persist is then run again from its start.
PersistFails(m) ==
  /\ Fails
  /\ \/ /\ member[m].stage = "handling"
        /\ LET stored == RowsWith(Foldable(member[m].batch))
           IN \E landed \in SUBSET Items :
                /\ landed # {} => RowsFit(member[m].batch)
                /\ rows' = [x \in Items |-> IF x \in landed THEN stored[x] ELSE rows[x]]
        /\ UNCHANGED <<line, quarantined>>
     \/ /\ member[m].stage = "stored"
        /\ \E landed \in SUBSET Scans(member[m].batch) :
             /\ landed # {} => ScansFit(member[m].batch)
             /\ line' = LineWith(landed)
        /\ UNCHANGED <<rows, quarantined>>
     \/ /\ member[m].stage = "scanned"
        /\ \E landed \in SUBSET Refused(member[m].batch) : quarantined' = quarantined \cup landed
        /\ UNCHANGED <<rows, line>>
  /\ Reach(m, "handling")
  /\ UNCHANGED groupVars

\* CommitUncommittedOffsets: one past the last record handed over, per partition.
CommittedWith(m) ==
  [p \in Partitions |->
    LET offsets == {r[2] : r \in {s \in member[m].batch : s[1] = p}}
    IN IF offsets = {} THEN committed[p] ELSE Max(offsets)]

\* Regression: the position is committed as soon as the rows are stored.
CommitStored(m) ==
  /\ member[m].stage \in {"stored", "scanned", "durable"}
  /\ ~ member[m].fenced
  /\ committed' = CommittedWith(m)
  /\ member' = [member EXCEPT ![m] = Polling]
  /\ UNCHANGED <<owner, position, storeVars, failures>>

Commit(m) ==
  /\ member[m].stage = "durable"
  /\ ~ member[m].fenced
  /\ committed' = CommittedWith(m)
  /\ member' = [member EXCEPT ![m] = Polling]
  /\ UNCHANGED <<owner, position, storeVars, failures>>

\* The commit is refused, or its answer lost: Consume returns and the process
\* ends with it.  A member put out of the group is always refused.
CommitFails(m) ==
  /\ member[m].stage = "durable"
  /\ \/ member[m].fenced /\ UNCHANGED <<committed, failures>>
     \/ ~ member[m].fenced /\ Fails /\ committed' \in {committed, CommittedWith(m)}
  /\ owner' = Unowned(m)
  /\ member' = [member EXCEPT ![m] = Down]
  /\ UNCHANGED <<position, storeVars>>

Work(m) ==
  \/ Start(m) \/ Poll(m)
  \/ StoreItems(m) \/ StoreScans(m) \/ StoreRefuses(m) \/ QuarantineRefused(m)
  \/ Commit(m) \/ CommitFails(m)

\* Nothing is left to read, and polls come back empty.
ReadThrough ==
  /\ \A p \in Partitions : committed[p] = Len(Stream[p])
  /\ UNCHANGED vars

Next ==
  \/ \E m \in Members : \/ Work(m) \/ Evict(m) \/ Crash(m) \/ PersistFails(m)
                        \/ \E p \in Partitions : Assign(m, p) \/ Revoke(m, p)
  \/ ReadThrough

\* A stopped process is started again, a running one goes on, and the group
\* gives a partition nobody reads to a member that is there to read it.
Fairness ==
  /\ \A m \in Members : WF_vars(Work(m))
  /\ \A p \in Partitions : WF_vars(\E m \in Members : Assign(m, p))

Spec == Init /\ [][Next]_vars /\ Fairness

-----------------------------------------------------------------------------
\* Every position lies within its partition, and a member holds only records of
\* the topic: a reader never resumes past the end of what it reads
\* (broker/consumer.go Consume, commit).
TypeOK ==
  /\ owner \in [Partitions -> Members \cup {Nobody}]
  /\ \A p \in Partitions : /\ position[p] \in 0 .. Len(Stream[p])
                           /\ committed[p] \in 0 .. Len(Stream[p])
  /\ member \in [Members -> [stage : Stages, batch : SUBSET Records, fenced : BOOLEAN]]
  /\ rows \in [Items -> Nat]
  /\ line \in [Partitions -> Nat]
  /\ quarantined \subseteq Records
  /\ failures \in 0 .. MaxFailures

\* The records of the topic that are folded, and those that draw a line.
Folded == Foldable(Records)
Enumerations == Scans(Records)

Settled(r) ==
  \/ r \in quarantined
  \/ /\ r \in Folded
     /\ \A x \in At(r).items : rows[x] >= Stamp(r)
     /\ At(r).full => line[r[1]] >= Stamp(r)

\* A record the group's position has passed is in the store, whole, or in the
\* quarantine: no crash, eviction or half-done write makes the group step over
\* telemetry ("Commit only after delivery", broker/consumer.go Consume).
CommittedIsSettled ==
  \A r \in Records : r[2] <= committed[r[1]] => Settled(r)

\* The line absence is measured against never passes items of the scan that
\* drew it, at any moment a reader may look: no item that scan named reads as
\* gone (clickhouse/inventory.go Store: "a reader that saw the new line and none
\* of its items would read a whole asset as having nothing installed").
NothingConfirmedReadsAsGone ==
  \A p \in Partitions : line[p] # 0 =>
    \E r \in Enumerations :
      /\ r[1] = p /\ Stamp(r) = line[p]
      /\ \A x \in At(r).items : rows[x] >= line[p]

ItemsOf == [p \in Partitions |-> UNION {At(r).items : r \in {s \in Records : s[1] = p}}]

\* What a reader is told an asset has: the rows, joined with the asset's line.
\* An asset no scan has drawn a line for joins with nothing.
Installed(p) == {x \in ItemsOf[p] : line[p] # 0 /\ rows[x] >= line[p]}

\* The records of p, folded in the order they were collected in, as far as a
\* millisecond tells: what no full scan has said is not known to be there.
LastScan == [p \in Partitions |-> Max0({Stamp(r) : r \in {s \in Enumerations : s[1] = p}})]
Present ==
  [p \in Partitions |->
    {x \in ItemsOf[p] : LastScan[p] # 0 /\ \E r \in Folded :
       r[1] = p /\ x \in At(r).items /\ Stamp(r) >= LastScan[p]}]

\* Once a partition is read through, the store answers what folding its records
\* by collection time would, however often and in whatever order they landed:
\* a late record, a replay and a process that was put out of the group included
\* (clickhouse/schema/0005_asset_inventory.sql).
AnswerIsTheFold ==
  \A p \in Partitions : committed[p] = Len(Stream[p]) => Installed(p) = Present[p]

\* "An item a delta introduces is current immediately, because a delta is newer
\* than the line it did not move" (docs/decisions/0027): once a partition is read
\* through, an item a delta named at or after the line of its asset is among
\* what the asset has (row.go Scanned, which draws no line for a delta).
DeltaIsCurrent ==
  \A p \in Partitions : committed[p] = Len(Stream[p]) =>
    \A r \in Folded :
      r[1] = p /\ ~ At(r).full /\ Stamp(r) >= LastScan[p] => At(r).items \subseteq Installed(p)

\* Every record is settled and passed in the end: "one unrepresentable record is
\* refused to quarantine rather than failing the batch it shares" (row.go
\* storable; projector.go handle, classify).
EverythingIsRead == <>[](\A p \in Partitions : committed[p] = Len(Stream[p]))
=============================================================================
