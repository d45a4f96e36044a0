# Seagull backend: a TLA+ verification project

TLA+ models of the Seagull backend (`src/`), TLC runs that check them on small
instances, and TLAPS proofs of the properties that matter most for every value
of the constants. `PROJECT.json` lists components, runs, mutants, the map from
definitions to source lines, findings, hazards and theorems.

## 1. The system

Agents send telemetry to a gateway; the gateway puts it on a backbone
(Redpanda); processes read the backbone into stores (ClickHouse, Postgres); a
control plane decides which agents are listened to, which rules run and which
updates are rolled out.

| Part | State | Operations | Interacts with |
|---|---|---|---|
| agent registry (`internal/agent`, `postgres/agents.go`) | a row per agent: state, revision, identity, `published_revision` | register, transition, bind, issue, renew | the announcer carries its decisions |
| announcement (`control/admissions.go`, `broker/agents.go`) | what is outstanding; the compacted topic `security.agents` | carry (publish, then record), sweep | registry, agent log |
| gateway roster and currency (`cmd/ingest-gateway/roster.go`, `ingest/currency.go`, `broker/statelog.go`) | roster, offsets delivered, last confirmation | replay, follow, confirm, stale | agent log, ingest handler |
| ingest admission (`internal/ingest`) | capacity (bytes, requests), requests in flight | check, hold, read, weigh, admit, publish, answer | roster, backbone, agents' spools |
| consumers (`broker/consumer.go`, `broker/recovery.go`) | assignment, positions, committed offsets | poll, deliver, commit, rebalance, rebuild | every writer and projector |
| writers and projectors (`eventstore`, `detectionstore`, `inventorystore`, `statusstore`, `assessmentstore`, `advisorystore`) | a batch, the store, the quarantine | classify, persist with retries, quarantine | consumer, ClickHouse |
| detection (`analysis`, `detectionstate`) | windows per key, quotas per tenant and rule | observe, count, sequence, reclaim | consumer, rulesets, detections topic |
| rulesets (`ruleset`, `broker/rulesets.go`, `control/rulesets.go`) | versions, the active pointer, the pinned snapshot | publish, activate, pin | ruleset log, engine |
| alerts and incidents (`alert`, `alertstore`, `postgres/fold.go`, `incident`) | alerts, occurrences, state machine | fold, raise, cool down, move | detections topic, analysts |
| updates and rollouts (`agentupdate`, `control/rollouts.go`, `postgres/rollouts.go`) | rollout, wave, progress, failing agents | start, change, sweep, settle | agent status |
| certificates (`pki`, `control/certificates.go`, `control/renewal.go`, `postgres/certificates.go`) | certificate trail, bound identity | issue, renew, ask again | registry |
| policies, sessions, advisory importer, process group | see PROJECT.json | | |
| rule language, hunting, schemas, configuration | no interleaved state | | |

What makes it hard: decisions are committed in one place and published from
another; a log is compacted while readers come and go; a batch can land in part,
late, or twice; a consumer can be put out of its group without knowing; two
inserts that belong together are not a transaction. The hazards in
`PROJECT.json` name each of these at its line, the ones no property covers yet
with a note.

## 2. Modules

| Module | Models | Notes |
|---|---|---|
| `Agent` | `internal/agent`: states, legal moves, `Apply` | pure operators |
| `Roster` | `agent/roster.go`: one entry and what a record does to it | pure operators |
| `AgentAdmission` | registry, announcer, agent log, gateways with their confirmations | composes `Agent` and `Roster` |
| `Spool` | what ingest promises an agent | abstract specification |
| `IngestGateway` | the handler of every stream, `Capacity`, publishing | implements `Spool` |
| `Projection` | consumer group and inventory projector | the loop all writers share |
| `MC*` | instances for TLC | constants and symmetry only |
| `AgentAdmissionProofs`, `AgentDeadlineProofs`, `AgentCarryProofs`, `AgentReadProofs`, `IngestGatewayProofs` | theorems | |

**AgentAdmission.** One action per handler or half of one: the registry's
transaction (`Register`, `MoveAgent`, `IssueCertificate`, `RenewCertificate`)
is atomic, as the row is locked; `Publish` and `RecordAnnounced` are the two
halves of `carry`, with anything in between; `PublishUnanswered` is a publish
that landed and whose answer was lost; `Compact` is the broker. A gateway's
`Deliver` and `Advance` are separate because a poll's records are all applied
before any counts as delivered; `Ask`, `ListEnd` and `Confirm` are separate
because the log grows between them. `WriteUnreadable` puts a record on the log
that `roster.read` returns an error for (undecodable, key and payload that
disagree, no known state or tenant), under an agent's key or under none. The
first makes `ReadOrRefused` refuse the agent it is filed under; the second ends
the gateway (`DeliverNameless`). It never comes back to serve while the log
keeps that record, which is why liveness is checked without such records. `Start` may list an end of 0: `Replay` does
not look at the error of a single partition (`statelog.go:61`). Time is whole
units.

**IngestGateway.** `Check` reads the tenant, `Hold`, `ReadBody`, `Weigh`,
`Admit`, `BackboneTakes`, `Acknowledge`/`PublishFails` and `Release` follow
`ServeHTTP` in order. A refusal before the reservation changes nothing and is a
step not taken. Left out: the rate limiter's answer, the media type, wording.
Memory is counted as the body, then body and weight; the slack of a growing
read buffer (`io.ReadAll`) is not counted. A declared length
is the length of the body: `net/http` gives the handler no byte past it and
fails the read of a shorter body, the last alternative of `ReadBody`. The roster and its currency change freely here,
which admits more behaviours than `AgentAdmission` gives.

**Projection.** A partition stands for one asset and one kind of item. A batch
is stored as items, then the line absence is measured against, then the
quarantine, then the commit; a write may fail with any part landed, after which
persist starts over. A member holding a batch may be put out of the group
(`fenced`) and goes on writing; its commit is then refused. The store is the
`ReplacingMergeTree` rule, the newest version of a key, at the precision of a
`DateTime64(3)` column (`Stamp`): instants of one millisecond are one version.
`Foldable` is `classify` and looks only at a record's rows; `RowsFit` and
`ScansFit` are what the columns have room for, and `StoreRefuses` an insert that
fails while it is put together. `Installed` is the query of
`docs/configuration.md:886-897`, an inner join, so an asset without a line has
no answer. Left out: what a row says beside its item and its instant, which of
two versions of one millisecond is read, and the one-year TTL of both tables.
The broker library and the stores are external and modelled from how `src/` uses
them.

## 3. Runs

| Run | Instance | Shows |
|---|---|---|
| `agent_admission` | 1 agent, 2 workers, 1 gateway, 2 revisions, 2 writes of which one may be unreadable, clock to 3, one restart, compaction; workers symmetric | the roster never steps back and holds only what was decided, a confirmation is true of its date, a record still in the log is enforced within `StaleAfter` or everything is refused |
| `agent_unreadable` | 1 agent, worker and gateway, 3 revisions, 4 writes of which one is unreadable, one lost answer, compaction | only a decision of a later revision lifts a refusal, in whatever order decisions, repeats and the unreadable record lie |
| `agent_carry` | the same with 1 failure, 8 writes, no clock, no compaction, no restart; fair | no decision is forgotten or said two ways; every decision is announced; serving gateways converge |
| `agent_sweep` | 2 agents, 1 worker, no gateway, batches of 2, 1 failure; fair | a sweep stopped in the middle of a batch forgets nothing behind it, and a later one announces it |
| `agent_compacted` | as `agent_admission`, without unreadable records | **violation**, see section 5 |
| `ingest_gateway` | 3 handlers, 3 batches (one publishable, one chunked and invalid, one too large), capacity 3 bytes and 2 requests | capacity is accounted for exactly, memory is bounded, `Spool` is implemented, every request ends |
| `projection` | 2 symmetric members, 2 partitions, 7 records (a late delta, a scan with an item out of range, a delta and a scan of one millisecond, an asset never scanned, an empty scan out of range), 3 failures | nothing is stepped over, nothing confirmed reads as gone, the documented query answers the fold |
| `projection_live` | 2 members, 2 partitions, 4 records (an item out of range, an invalid record, a scan out of range, and a scan behind them), 2 failures; fair | everything is read |
| `projection_unstorable` | 1 member, 3 records, an empty scan out of range among them, 1 failure; fair | **violation**, see section 5 |
| `projection_delta` | 2 members, one asset with two deltas | **violation**, see section 5 |

Every property has a mutant: a plausible bug in a definition of the model, under
which TLC finds the property violated.

**Why the bounds are enough.** One agent suffices for `AgentAdmission`, as
nothing relates two agents but the order of a sweep's batch, which `agent_sweep`
has two for. It checks no deadlock: with no gateway and everything announced
nothing is left to do. Three revisions and four writes are what a decision, an
unreadable record, a repeat and a decision that lifts the refusal take. Two revisions, two workers and two writes are
what two decisions published out of order take; clock 3 with `StaleAfter` 1
makes a confirmation expire. In `ingest_gateway` the bodies of two batches fit
the capacity together and their decoded forms do not, and a third handler meets
the ceiling on requests. In `projection` three failures allow an eviction, a
half-done write and a crash in one behaviour, and two records per poll make
batches that span partitions. The bounds are `Max*` constants in the guards.

**Fairness.** `AgentAdmission`: weak fairness of a worker's sweep, publish and
record, of a gateway's reading and of its confirming; these are loops on a
ticker or a poll, and a stopped gateway is started again by its supervisor.
Nothing is assumed of operators, the clock, failures or compaction.
`IngestGateway`: weak fairness of each handler, whose reads are bounded by the
server's read timeout and publishes by `publishTimeout`. `Projection`: weak
fairness of each member (retries never give up, a stopped process is started
again) and of the group's assignment of a free partition. Failures are bounded,
which stands for "failures in the end stop".

## 4. Proofs

All theorems are checked by TLAPS for any sets of agents, workers, gateways,
handlers and batches, from the named assumptions on constants only
(`ConstantsAssumption`, `CapacityAssumption`, `BatchAssumption`).

* `AgentAdmissionProofs`: `TypeCorrect`, and the lemmas about the operators.
* `AgentDeadlineProofs`: `Currency`, `NewestHeld`, `NeverBack`.
  `CurrencyIsSound` is not inductive. `DeadlineInv` adds that no record is dated
  after the clock, that a gateway counts as delivered no more than it has
  applied, that it has passed no record without a name, and that a check in
  flight listed an end covering everything written before it asked.
* `AgentCarryProofs`: `LogFollows`, `DecidedOnce`, `NothingForgotten`.
  `CarryInv` ranges over every decision in play, in the log and in workers'
  hands alike: they agree with the row, two of one revision decide the same, a
  worker that has published has its record in the log, and the mark is never
  ahead of the row.
* `AgentReadProofs`: `RosterIsADecision`, `Deadline`. `RosterHoldsADecision` is
  preserved given `CarryInv`, because a repeat decides what the first did, and
  `DeadlineInv`, because a roster is never behind what it was handed
  (`NextIsRead`; `HandedIsRead` is the step that matters). `Deadline` follows: a
  record old enough has been handed and names an agent (`HandedInTime`), and
  what the gateway makes of it is `RosterHoldsNewest` if it could be read and
  `RosterHoldsADecision` if not.
* `IngestGatewayProofs`: `CopyIsKept`, the gateway implements `Spool`. The
  handler knows only a count, so the invariant says that the records counted
  are on the topic (`CountedIsOnTopic`), under a tenant that is the agent's
  estate (`StampIsEstate`).

Only model-checked: the liveness properties (`EverythingIsAnnounced`,
`GatewaysConverge`, `EveryRequestEnds`, `EverythingIsRead`), which need fairness
and `ENABLED`; `HeldIsReserved` and `MemoryIsBounded`, which are sums over a set
and need induction over it; and everything about `Projection`.

## 5. Findings

**The older decision can be the one the log keeps.** `agent_compacted` checks `RevokedStaysRefused`: an agent whose revocation
reached the log longer than `StaleAfter` ago is admitted by no serving gateway.
It fails. `carry` publishes after the registry's transaction and nothing orders
two workers carrying decisions about one agent. The older decision can be
written last, compaction then keeps only that one, and a gateway started
afterwards replays it, is behind nothing and admits the agent; the row is
already marked published, so no sweep repeats the revocation. This disagrees
with `broker/agents.go:29-31` and `agent/roster.go:32-34`. A gateway that was
running when both records were written is not affected
(`RosterNeverStepsBack`), which is why `EnforcedWithinBound` is stated for the
records the log still holds, and why `GatewaysConverge` is checked without
compaction and restarts.

**An empty snapshot is folded unchecked.** `projection_unstorable` checks
`EverythingIsRead` on a stream with an empty snapshot whose `collected_at` is
outside the years a column holds. `classify` asks `storable` of the rows a
record projects to, and this one projects to none; its scan then fails the
insert on every attempt, and the partition stays where it is. This disagrees
with `inventorystore/row.go:332-333`, "one unrepresentable record is refused to
quarantine rather than failing the batch it shares". The gateway's admission
window (`inventory/validate.go:78-92`) normally keeps such a record off the
topic; the projector does not rely on that anywhere else. That the store refuses
the instant is taken from the same comment.

**A delta about an asset never scanned is in no answer.** `projection_delta`
checks `DeltaIsCurrent`, "An item a delta introduces is current immediately"
(`docs/decisions/0027-inventory-is-a-record-kind-of-its-own.md:136-138`). A
delta draws no line, and the documented query is an inner join with the lines,
so until its first snapshot an asset reads as having nothing. The in-memory
reader of `current_test.go` takes a missing line as the zero instant and does
not show it. `AnswerIsTheFold` is stated for the documented query.

## 6. Plan

Done: the agent decision path, ingest, one consumer with its projector. Next, in
order of what a failure would cost:

1. `DetectionKeeper`: window, quotas, reclaiming, and the rebuild after a
   restart (`broker/recovery.go`), against an abstract set of observations; then
   counting and sequences over it. Two runs: a passing one, and one for the
   claim of `analysis/sequence.go:23-25` that a sequence is found equally often
   in whatever order it is delivered, which a hand calculation puts in doubt and
   no run has settled yet. Theorems: quotas are what the keys held add up to,
   one tenant never releases another's share.
2. `Alerts`: two writers, an analyst, replays. Two runs: at most one open alert
   per key and each detection folded once; and the claim of
   `postgres/fold.go:160-162` that a replay decides what was decided first,
   equally unsettled. Theorem: one open alert per key.
3. `Rollouts`: evaluator, operator and agents' reports; one run. Abstract
   specification: a wave opens only after the one before it passed its gate.
   Theorem: an operator's halt is never undone by a sweep.
4. `Rulesets`: two control planes and a reader; one run. Theorem: a reader never
   runs a version it could not answer.
5. `Certificates`: a renewal asked again after a lost answer; one run, or the
   advisory importer in its place.
6. Proofs of `CommittedIsSettled` and `NothingConfirmedReadsAsGone`, and a
   composition of `AgentAdmission` with `IngestGateway`.

Bounds: two of each actor, three or four observations or detections, one
failure of each kind. No module to be proved about uses a recursive operator.

## 7. Not modelled

The rule language, rule files and Sigma translation, and the validation of
single documents: pure functions that unit tests reach. Hunting and queries:
reads only. Schemas and migrations: statements run once at deployment.
Configuration, TLS files, metrics, logging: I/O. Incidents, policies, sessions,
rate limiter and process group: planned after the list above if runs are left.
