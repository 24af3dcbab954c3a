# Bronzeward in TLA+

Bronzeward manages the configuration of Talos machines. Operators ingest existing configurations,
edit drafts, publish releases, plan and approve their application; a controller process applies an
approved plan to a node, and recovery mode brings an installation back after its database was
restored. This directory models those parts, checks the models with TLC on small instances and proves
the safety properties that matter most with TLAPS for every instance.

| module | what it models | proofs |
| --- | --- | --- |
| `Dispatch` | plans, operations, attempts, requests, observations, drift, controller processes | `DispatchProofs` |
| `Ingestion` | staging claims, ingest runs, generations, sweep, orphan report | `IngestionProofs` |
| `IngestionContract` | the abstract specification `Ingestion` implements | `IngestionProofs` |
| `Publication` | drafts of a cluster, publish jobs, releases | `PublicationProofs` |
| `Recovery` | restores, recovery mode, epochs, scopes | `RecoveryProofs` |
| `Adoption` | adopt plans and loops, composed with `Recovery` | `RecoveryProofs` |
| `Requests` | how the server runs a mutating request | `WriteProofs` |
| `Write` | a write as the client sends and repeats it, composed with `Requests` | `WriteProofs` |
| `Watch` | the client's watch of an operation's event stream | `WatchProofs` |
| `SignIn` | sign-ins of concurrent client commands | `IdentityProofs` |
| `Tokens` | automation tokens, identity revocation, the list of acts | `IdentityProofs` |
| `Extraction` | extraction, substitution and staging of a document's values | `IngestionProofs` |
| `Compile` | composition, tracing, provenance and redaction of a machine | `IngestionProofs` |
| `Monitor`, `Classify` | the dependency monitor and its classification | `MonitorProofs` |
| `MC*` and `*.cfg` | instances for TLC | |

`PROJECT.json` lists the components with their sources, the runs, a mutant for every property, the
source lines of every definition, the hazards at the line where they bite, and the theorems. Mutated
forms stand in the modules, before the definition they change.

## 1. Inventory

Everything the installation decides is in PostgreSQL (`internal/migrate/migrations/0001_schema.sql`).
One binary (`cmd/bronzeward`) serves HTTP and runs background loops; several processes may run at
once, on one database. Secrets and artifacts live in OpenBao (`internal/provider`); nodes answer the
Talos API (`internal/talos`); operators use `bronzewardctl` (`internal/client`, `cmd/bronzewardctl`).
Loops, handlers and processes share nothing but the database. What is hard is what happens between
two transactions, and between a transaction and a provider or node that no transaction covers.

| part | state | operations | hard behaviour | correct when |
| --- | --- | --- | --- | --- |
| plans and approvals (`plans.go`, `approvals.go`, `cancellations.go`, `approval_revocations.go`, `revocations.go`) | `plan`, `plan_state`, `approval` | create, approve, cancel, revoke, expire | an end beside a dispatch | an ended plan's operation is cancelled only if nothing was sent |
| executor (`executor.go`, `dispatch.go`) | what a process carries between transactions | take over at start, take up a plan, advance | a former owner still running | every decision is taken again in the transaction that acts on it |
| commitment (`commit.go`) | `operation`, scopes | commit under comparisons 0 to 6, refuse | two plans of one cluster | one operation holds a machine and a cluster's rollout |
| attempts (`attempt.go`, `sender.go`, `outcome.go`, `talos/apply.go`) | `attempt`, its response and accounting | record under comparisons 1 to 9, send, classify the answer | lost and late answers, takeover in between | never two requests that can still land |
| settling (`settle.go`, `recovery_acts.go`) | accounting, classification, Applied | decide, take over, complete, fail, resolve | a decision beside an old executor | scopes are released only when no request can still change the node |
| observations (`observe.go`) | `observation_start`, `observation` | start, read, record | recorded in another order than begun | the basis orders an observation against every other entry |
| drift (`drift.go`, `drifter.go`) | `drift_record` | open, update, close | stale reads around an operation | a record is open exactly when the machine differs, and stays under the plan that binds it |
| freezes (`freeze.go`) | `machine.frozen` | set, clear | between commitment and attempt | a frozen scope is not written |
| staging (`internal/staging`, `runner.go`, `ingestions.go`, `marks.go`, `continuations.go`) | claims with lease and owner generation, values in the provider | start, heartbeat, take over, mark, commit, abandon, sweep | a slow owner beside its successor, a crash between provider and database | one owner's writes count, an ended claim stays ended |
| orphan report (`internal/orphans`) | none | list, then read | a claim that commits meanwhile | nothing reported is ever referenced |
| publication (`worker.go`, `publish.go`, `pipeline*.go`) | publish jobs, releases, heads | request, claim, read, commit, fail | inputs read long before the commit; lapsed leases | a release is what the heads it leaves compose; each publication ends |
| recovery mode (`recovery_*.go`, `api.go`) | epoch, scope states | enter, account, mark, release, exit | rows and requests of an older epoch after a restore | nothing is sent or adopted beside a request the restore erased |
| adoption (`adoption.go`, `adopter.go`) | adopt plans, Applied | approve, observe, adopt, refuse | two loops, a publication, a restore | one outcome; what is adopted is what runs |
| requests (`tx.go`, `idempotency.go`) | idempotency records | first use, replay, conflict | a repeat while the first still commits, a lost COMMIT reply | one effect per key |
| client writes (`write.go`) | key, kept reads | send, repeat, report | ambiguous answers, a restore between sends | the report is true |
| client watch (`watch.go`, `opwatch.go`, `list.go`) | cursor, screen | follow, resume, page | a cut stream, a restored database reusing numbers | one epoch's events without gap or repeat |
| client sign-ins (`credentials.go`, `login.go`, `store*.go`) | kept sign-in, renewal lock | sign in, renew, sign out, remove | commands beside each other, unanswered store writes | a refresh token is redeemed once, a sign-out stays |
| tokens and acts (`internal/auth`, `revocations.go`, `acts.go`) | principals, tokens, acts | issue, rotate, revoke, list | revocation beside issue; acts that commit out of order | the revoked stay out; a reader of acts misses none |
| ingest (`internal/ingest`) | a document | extract, mark, resolve | aliases, merges, embedded documents | no value stays in what is kept; it resolves to what was read |
| compile (`internal/compile`) | a composition | trace, attribute, check, redact | overridden, copied and deleted values | provenance is what happened; nothing shown is a value |
| dependency monitor (`internal/monitor`, `internal/classify`) | status, alerts | pass, record, watch, log | late answers, two processes, a stalled loop | statuses follow the order of observation; alerts are true and logged |
| provider client, web interface, experiments | none of their own | | | not modelled (section 5) |

## 2. The models

One transaction is one action, with every row it moves and every entry it appends; a handler of
several transactions is several actions joined by a program counter in its process's record. Where a
transaction waits for locks in between and the order matters (`Requests`, `Tokens`, `Monitor`,
inventory in `Recovery`), each wait is a step. Clocks are kept as far as the code compares them: a
lease that has lapsed or not, a deadline that has passed or not, an age that may be over whenever the
code asks. Faults (crashes, lost answers, restores, sessions ended) are actions bounded by a counter.

### Dispatch

| variable | code |
| --- | --- |
| `plan`, `dead` | `plan` and `plan_state` rows; `dead` is comparison 1 failing for good |
| `op`, `cls` | `operation` row with owner token and commitment evidence; its latest safe-to-retry classification and whether an entry follows it |
| `att`, `wire` | `attempt`, `attempt_response`, `attempt_accounting`; what became of the request |
| `mach`, `drift`, `obs` | Desired, Applied, baseline, head, freeze; the drift record; observations in the order of their starts |
| `node` | external: what answers at the endpoint |
| `proc`, `owed`, `ended`, `job`, `scan` | a process: running, takeovers it owes, plans it dispatches no more, its executor and drift loops |

The executor's job goes `observe -> reading -> record -> commit -> attempt -> send -> wait ->
respond`, with `refuse`, `refused` and `settle` beside them; the loop drops a step when it writes
nothing. `Len(obs[m])` is a machine's clock, so an observation's basis is its index. The transport
deadline is state, since a decision and a send both depend on it; the controller's and the database's
clocks are taken to agree on it. Transactions of one machine are serial by its row; two machines of
a cluster meet in the rollout scope's unique index. Database triggers
(`refuse_operation_transition`, `require_accounted`, ...) are not guards: `UnchangedIsTrue` and
`OneOutstandingAttempt` show the Go code does not ask for what they would refuse. Configurations are
releases standing for their digest, and one `Foreign` value. The node's three values are read in one
step. `left.kinds` chooses which events of the world occur, `left.late` whether a request lands after
a decision that asserted it would not. Left out: the `late_landing` link of a drift entry (nothing
reads it back), acts on a plan already ended, failures of a drift scan other than by a crash.

### Ingestion and its contract

A claim is a row, a run is what a process executes for one owner generation of it. The run's steps
interleave with takeovers, marks, abandons, the sweep, lapsing leases, a recovery epoch and crashes;
values are created in the provider one by one. `IngestionContract` keeps none of that: an ingestion is
open, then committed once or abandoned; a commit moves the draft from the revision it bound and
references values of that ingestion only, none of them reported as an orphan. `ImplementsContract`
instantiates it with `status` read off the claims.

### Publication

One fragment, one profile and an assignment per machine; revisions are sets, so composition is a
union. A job is claimed under a lease, reads heads, nodes and dependency status outside any
transaction, and commits under every check of `publish.go`. Owner generations are only told apart.

### Recovery and Adoption

`backup` and `Restore` are the environment's: a restore puts back the rows of the latest backup and
stops every process (the operator's procedure), while requests already sent (`flight`) still arrive.
`entered`, `checked`, `used` are history. `stage` is a machine's clock: `flight`, `deadline`,
`floor`. `Adoption` extends `Recovery` with adopt plans and the adoption loop on the same rows.
A normal start after a restore waits for the entry, as the procedure says; a backup holds at least
one machine; the operation-level accounting decision is `Dispatch`'s, and a machine that was never
assigned has no head to hold.

### Requests and Write

`Requests` runs each send of one logical write: lookup, transaction under the key's lock, COMMIT whose
reply may be lost, read-back, deadlock retry. `Write` is the client: checks before the first send,
repeats under the same key, renewal of the credential, a second process that repeats by hand. The
recovery entry's own use of the idempotency key is in `Recovery`.

### Watch, SignIn, Tokens

`Watch` gives events an identity the server does not send, so that a reused number after a restore is
seen to be another event. A page is read in one step and what the pages hold is shown one event a
step, since the operator may end the watch after each. `SignIn` has commands sharing a token file or a credential store, whose
unanswered writes land late. `Tokens` takes each transaction's locks step by step; the unique indexes
on tokens are not guards, so `RevokedStaysOut` holds without them.

### Extraction and Compile

Pure algorithms over small documents and compositions, each pass one action so that what is persisted
or refused between passes is a state. `Compile`'s tracers are a set of records, one for each occurrence of a reference,
and `Id` their number in walk order. `RoundTrip` is the reference definition of extraction (what
resolves is what was read), `ProvenanceTrue` that of the trace pass (compared with what composition
did to each value).

The guard searches keys, strings and comments for a value's text, and compares keys and scalars, not
comments, as numbers: a comment `0xa` beside an extracted 10 is persisted, in the code and in the model.
Texts are not empty: the guard skips an empty value. `persisted` is the claim's stored envelope while a
mark is applied, to which a mark whose first generation is refused returns (`CreateFails`). In
`Compile` a short text has one stand-in, so two short values are never told apart and more is refused than
by `standIn`, which keeps lengths and classes; `Long` stands for both floors, the five bytes of a
stand-in's head and the six of a copy.

### Monitor and Classify

Passes, watchdogs and loggers of two processes over one monitored version. Advisory and row locks
are read off the holders' program counters. `Classify` is the classification of one answer.

## 3. Runs

`tlc -workers 2 -config <run>.cfg <module>`. Action and temporal properties are after the semicolon.

| run | module | properties | distinct states |
| --- | --- | --- | --- |
| `dispatch` | `MCDispatch` | `TypeOK OneOutstandingAttempt OneWriter UnchangedIsTrue AccountingStands DriftRecordBound NoSilentDivergence`; `NoSendAfterAccounting DriftIsReal` | 2.0 M |
| `ingestion` | `MCIngestion` | `OperationFollowsClaim NoValuePersisted RoundTrip ProvenanceTrue NoValueShown`; `CommitsStoredEnvelope EndedForGood ImplementsContract` | 1.1 M |
| `ingestions` | `MCIngestion` | `OneIngestPerRevision`; `EveryClaimEnds` | 0.2 M |
| `publication` | `MCPublication` | `OutcomeTellsRelease`; `ReleaseIsCurrent` | 0.8 M |
| `publications` | `MCPublication` | ; `PublicationEnds` | 77 000 |
| `withdrawn` | `MCPublication` | ; `PublicationEnds` (violated) | 300 |
| `recovery` | `MCRecovery` | `OneInFlight ScopesFollowMode GateIsOwnEntry OneOutcome`; `ReleasedIsChecked AdoptsUndisturbed` | 1.1 M |
| `writes` | `MCWrite` | `ExecutedOnce ReportIsTrue` | 2.5 M |
| `watch` | `Watch` | `WatchIsTrue`; `WatchEnds` | 0.3 M |
| `identities` | `MCIdentities` | `RedeemedOnce SignedOutStays RemovesWhatItRead RevokedStaysOut ActsInOrder` | 1.9 M |
| `overrides` | `MCDocuments` | `FirstOverriderNamed` (violated) | 9 000 |
| `monitor` | `MCMonitor` | `AlertsTrue`; `AnswersInOrder AlertsLogged` | 0.5 M |

What they show:

* `OneOutstandingAttempt`, `OneWriter`, `NoSendAfterAccounting`, `AccountingStands`: whatever crashes,
  is lost, taken over or decided, one request per cluster can still change a node, its operation still
  holds the scope, and an executor decided over neither attempts nor sends again.
* `UnchangedIsTrue`: an operation recorded rejected or cancelled changed nothing.
* `DriftRecordBound`, `DriftIsReal`, `NoSilentDivergence`: no drift record moves under the plan that
  binds it, opens or closes on a stale read, or is missing after a failed apply. The last two assume
  what their text says: nothing but the manager writes the node, decisions are right and, for
  `NoSilentDivergence`, no read failed in part; otherwise a machine diverges unrecorded until the
  next scan.
* `OperationFollowsClaim`, `OneIngestPerRevision`, `EndedForGood`, `CommitsStoredEnvelope`,
  `ImplementsContract`: superseded runs write nothing that counts.
* `ReleaseIsCurrent`, `OutcomeTellsRelease`: a release commits on inputs that are still current, and
  each publication's outcome names the release it made or none.
* `OneInFlight`, `AdoptsUndisturbed`, `ScopesFollowMode`, `GateIsOwnEntry`, `ReleasedIsChecked`,
  `OneOutcome`: after a restore nothing is sent or adopted beside a request the database forgot.
* `ExecutedOnce`, `ReportIsTrue`: one key, one effect, and a true report. One case is exempt by name
  (`overtook`): a repeat refused for the state it finds can overtake a first send still running,
  which then commits after "refused" was reported (write.go 389-392). No document speaks of that case;
  the exemption is this project's.
* `WatchIsTrue`; `RedeemedOnce`, `SignedOutStays`, `RemovesWhatItRead`; `RevokedStaysOut`,
  `ActsInOrder`; `NoValuePersisted`, `RoundTrip`, `ProvenanceTrue`, `NoValueShown`; `AlertsTrue`,
  `AnswersInOrder`: as the comments at their definitions say. `RevokedStaysOut` is about token commands
  and identity revocations; other mutating requests are not actors of `Tokens`.

A behaviour of `ingestion` is of one claim, or of one document or composition (`MCDocuments`): the two
share no state.

**Findings.** `withdrawn`: a draft introduces a name and removes it again. docs/spec/persistence-api.md
305-307 says its publication creates nothing; `insertHead` (publish.go 651) returns a plain error, so
the commit rolls back, the job waits for its lease, is claimed and fails again for ever, and the draft
accepts no edit meanwhile. `publications` leaves such removals out (`Withdraw = FALSE`), and
every publication ends there.

`overrides`: an import base value stands at two places by an alias; fragment 0 replaces or deletes one,
fragment 1 the other. compilation.md 913-916 and 1007-1011 and the comment at checks.go 39-41 say the
refusal names the first fragment that overrode the base. `presence` and `overrider` (records.go
144-154, 210-221) ask of a reference that reaches no leaf any more only when the last one went, so it
names fragment 1. A reference that keeps a leaf is told
rightly (`narrowed`). The machine is refused either way, so no record of it is kept; `ProvenanceTrue`
asks what `overrider` says of itself, the fragment after which the value is first absent.

**Bounds.** Where the product of all events is out of reach, `Limits` is a set of settings of which
Init chooses one; each hazard's events are together in some setting. Two processes give an owner and
a former owner still running; two attempts give one retry, the least for which "latest" and "every"
differ; three observations are evidence, classification and completion, four add one begun early and
recorded late. `dispatch` has one plan and one machine: two plans of a cluster are what the theorems
cover. Three owner generations let a run be superseded twice. Three epochs are a restored entry
and another after it. Three sends are a first, a repeat and a repeat of the repeat; a page of one and
a batch of two put a cursor between any two events. `MCDocuments` enumerates a top mapping with three
nodes and bases of up to two items under two fragments, the least for an alias, an override of an
override and a copy.

**Deadlock** is checked in `monitor`, whose loops never stop. The other models do stop, when their
bounded claims, plans or commands are used up, as the system does when nothing is left to do.

**Fairness.**
* `Ingestion`: expiry is the clock's, the sweep is a ticker of every process, processes are restarted;
  `SweepAbandon` is strongly fair because the transaction on a candidate is retried by each sweep.
* `Publication`: a worker's steps, restarts, the lapse of a lease nobody renews; the claim is strongly
  fair because workers take the oldest eligible job first.
* `Watch`: the client's steps and the server's stream passes; faults are bounded, and `WatchEnds` asks
  that the operation has ended for good or the operator ends the watch.
* `Monitor`: the loops, restarts and the return of blocked writes; the logger is strongly fair since
  PostgreSQL queues the waiters of a lock.
* `Dispatch` states none: an operation whose response could not be recorded stays `sending` until a
  takeover (executor.go 120), and an unresolved one until somebody decides; no timer exists to be fair
  about.

## 4. Proofs

`tlapm <module>.tla`. Assumptions are the named `ASSUME`s of the modules (types of the constants,
that special values such as `NoProc` are outside the sets they are excluded from, for
`Publication` that there are finitely many processes, and for `Extraction` and `Compile` the form of the
documents and compositions read); sets are arbitrary
and bounds are any numbers, so the theorems hold for any number of plans, machines, processes, claims,
epochs, restores, sends and transactions. Each inductive invariant, its typing aside, was checked by TLC before it was
proved. Each proof has one lemma per action, or per group of actions that touch the same rows, and
one on steps that leave the rows alone.

**Dispatch.** `TypeCorrect` needs `TypeInv == TypeOK /\ LoopsFit`: a loop indexes `obs` by the number
its job carries, and observations are only appended (`Grows`).
`OneOutstanding` rests on `AttemptsInv == (\A p : PlanAttempts(p)) /\ OneHolder`. The code never counts
unaccounted attempts before it records one; it asks for a standing classification (comparison 8). The
invariant says why that is enough: an unaccounted attempt is the latest and its operation is `sending`
or `unresolved`; a classification nothing follows implies every attempt is accounted for. `OneHolder`
is comparisons 4 and 5 for all time.
`SingleWriter`, `NothingChanged`, `AccountingHolds` and `SentInTime` add `SendInv`, which ties the rows to
the wire: a recorded response is true of the request, and a decision accounts only past the
transport deadline and under a later generation (`RowTrue`, `OpTrue`); a loop that sends or waits
answers for an attempt of its own that has no response yet (`RequestFits`); an owner on its way to
settle left no attempt unaccounted for (`SettleFits`).
`RecordBound`, `RealDrift` and `Undiverged` use `BoundInv` and `DriftInv`: an observation under way is
its process's own (`OwnEntries`), and, while nothing writes behind the manager's back, one begun after
the last change of scope shows the node as it is (`ReadsTrue`); where no read fails (`AllRead`), a
machine that diverges with no record open is held by the operation that changed it (`Loud`).

**Ingestion.** `Following`, `OneIngest`, `StoredCommits`, `Ended` and `Implements` from `IngestionInv`: a
claim, its operation and the run of its generation agree (`ClaimsFit`); the provider holds values of
claims that were started, and a report names values of ended ones only (`StoredFits`); `Ended` adds
what a step may do to a claim (`Aging`). `Implements` maps the initial state and then each action to a step of
the contract or a stutter.

**Publication.** `OutcomesTell` and `CurrentReleases` from `Inv` of `PublicationProofs`. An operation
succeeded exactly when its draft has its one release (`Outcome`), which holds because only an active
operation's fenced owner ends it and an active operation's draft is not edited. A release needs what
its job carries from the snapshot: while the draft is at the job's revision and no head the unit uses
has moved, the unit composes each machine as the rows would (`UnitTrue`), and depends on no head that
the commit does not compare (`Binds`): this is where `unchanged` (pipeline.go) must name the fragment a
profile pins and every name a covered machine selects. `draft.rev` and head numbers only grow, so what
became stale stays so. That a claim finds an owner generation nobody carries is counted
(`GenerationLeft`); the theorems themselves do not need generations to differ, since a process runs one
job at a time.

**Recovery and Adoption.** `NoSecondRequest`, `ModeAndScopes`, `OwnEntries`, `PlanOutcome`,
`ChecksRelease`, `AdoptsAlone`. The rows of the backup must be as good as the rows themselves, since a
restore makes them so (`Kept`); an epoch of a lost database is still used (`EpochsKept`); a request
that can still arrive is the attempt's of the operation that holds the machine, unless the machine's
scope is not accounted for yet or the restore's stop deadline has not passed (`MachKept`); what a
process carries between steps is still true when it acts, or the act is refused (`StartKept`,
`JobKept`); until the stop deadline passes nothing is observed, and once the entry committed every
scope waits for its accounting (`StopKept`).

**Requests and Write.** `CommitsOnce` and `ReportsTruly` from `WriteInv`: a record stands for exactly one
committed effect or refusal, in the database, a backup or a send's snapshot (`RecordsTrue`, `Once`);
what a send answers is what its transaction did (`SendsTrue`); a conflict that overtook nothing leaves
nothing that could still commit (`ConflictTrue`); without an ambiguous attempt only the send waited
for can have committed (`Calm`); what was reported stays true (`Reported`).

**Watch.** `WatchTellsTruth` from `WatchInv == ServerStands /\ Sound(cli) /\ StreamFits`, with `TypeOK`
among what it proves. The server's part is two facts about time: the events of an epoch only grow while it
lasts and stay once it is past, and an operation that has its end gains no other (`Grown`), so what a
frame, a page or a read said of an epoch remains true of it (`GenuineStays`, `SoundStays`). The client's part is
`Sound`: what is shown is the beginning of one epoch's events (`Screen`); what is listed continues it
without a gap (`ListFits`); a terminal read is of an epoch in which the operation ended, and is of the
latest epoch answered while no move was counted since (`ReadsStand`), which is what `EpochHolds` relies on
when it compares counts and not epochs; the last event shown is beyond every end once the events count as
drained (`Ending`). An epoch is counted at most twice, by an answer and by an event met in an older stream
(`Counted`), which bounds the counter. Frames on their way are numbered on from the last event shown, or
from one after a reset, even across an epoch entered meanwhile (`StreamFits`): the code compares epochs
before it shows, and this says the numbers would not have told.

**SignIn.** `TokenRedeemedOnce`, `EmptiedStays` and `RemovedAsRead` from `SignInInv`. A command at a step under the
lock holds it (`Ordered`); tokens are numbered as issued (`Issued`); a refresh token is in one place
at a time, the store, a write still unanswered, a pair not saved yet or one command's memory
(`LateApart`, `UnsavedApart`, `MemoryApart`), so redeeming one leaves no other copy that could be
redeemed again, except where the pair it was redeemed for could not be kept (`SpentIsLost`). What was read
under the lock is what is stored, unless a write is unsettled (`ReadStands`), and a removal leaves no
context that a login could still keep into (`RemovedStands`).

**Tokens.** `Revocation` and `ActOrder` from `TokensInv`: who holds the installation state and the
act-order lock excludes whom (`LocksExclude`), what a transaction read under them still stands
(`FoundStands`), acts get their place under the lock (`Numbered`, `CursorTrue`, `EpochsRise`). The proof
shows that the principals' row locks are not needed for `RevokedStaysOut`: a revocation takes the
installation state exclusively.

**Monitor.** `AlertsSayWhatIs`, `RecordedInOrder` and `CursorAfterLines` from `MonitorInv`. One session
holds the advisory lock and one transaction the monitor's row (`LocksHeld`). While its session lives, a
pass's answer is not older than what is recorded, and under the status row's lock what it will record is
of the current status and publications (`PassesStand`): a process that stopped between its answer
and its record lost the session, and is refused. The alert that entered the recorded class is the
latest of its kind and names every release that began before it (`EntryNamed`); one deletion is warned of once
per release (`WarnedOnce`); stall alerts are an interval apart (`StallsApart`), because a due alert is decided
again under the row's lock (`RowStands`). A sequence taken under that lock is above every alert and every
logger's cursor (`Newest`), so no alert is inserted behind a cursor: `LoggedAreWritten`, the safety half of
`AlertsLogged`, is `CursorAfterLines`. Its lemmas on `Classify` say what an answer can be classified as.

**Extraction.** `NothingKept` from `ExtractionInv`, for every document of the shape the parser gives
(`Document`: parents, anchors and aliases are where YAML allows them, an embedded document's members are
scalars) that declares no reference yet, and for every sequence of marks, in any number of rounds. The guard
of one round compares that round's values with what the round persists: no text holds a value, and no key
or scalar is the number a value is; a comment may spell one another way. That nothing of an earlier round
comes back needs two facts: substitution only takes texts away (`TextStays`, `NothingNewPersisted`), except
where an embedded document is written back in the encoder's form; and the one a remark writes back was in
that form already, because of `changedBesides` and because a document that holds a reference always is
(`Embeds`).

`ResolvesToRead` from `RoundTripInv`, for documents that are `Regular` besides: an embedded document has
members (the model knows its text by them), a merge takes a mapping (the machinery loads no other), and no
path is longer than the three tokens `PathsOf` looks for, a bound of the model. A target is a scalar in the
spelling a reference renders or a mapping of such scalars (`TargetForms`): a host is refused by
`holdersRemoved`, a member that is an alias by `coalesce` or, because its text stays in the document, by the
guard. So the stored document has the paths that go into no target, to the same nodes, and every other path
goes one step into one (`PathsFollow`), where Resolve places the member (`TreeStays`). What was named is
gone or a reference (`TargetsStay`), so the schema's paths find nothing more, the document still loads, and
every check of `extract` passes again (`AgainUnrefused`).

**Compile.** `ProvenanceTold` and `NothingShown` from `CompileInv`, for every composition of any number of sources:
after the trace and flip passes the attributions, and then the outcomes, are the places each value really flows to
(`TextFlows`, `BooleanFlows`: distinct stand-ins never shadow each other, a flip changes a boolean's places and no
others), and the source found by the passes over prefixes is the first after which the value is absent or, for a base
value that still stands, stands at fewer places (`OutcomeTold`, from
`FlowsShrink`: a value once overridden does not come back). `MessageSafe` says what a refusal may quote.

Two things were found while looking for the invariants and corrected: `NoSilentDivergence` is false
when a read fails in part, and says so now; and `Recovery`'s attempt step left a running observation
of its machine looking as if begun after the request, which the code's basis comparison excludes.

**Left to TLC.** Liveness (`EveryClaimEnds`, `PublicationEnds`, `WatchEnds`, and that `AlertsLogged` comes
about) and `ENABLED` are out of this prover's reach. Every other property of the passing runs is a theorem.

## 5. Not modelled

* Provider client, web interface: without state of their own; every outcome a caller can meet is an
  input of the models, every write of the web interface a request of `Requests`. Experiments: the
  product does not build on them.
* HTTP, authentication by the identity provider's tokens, roles, rendering, wording; migrations but
  for the tables they leave.
* Dispatch: audit entries and operation events; the use-time checks before a send only decide whether
  an attempt is refused or dropped, and are a free choice.
* Watch: other callers of the stream, renewal inside a watch; a restored database may lack the
  operation.
* SignIn: contexts that differ in neither server nor provider, documents without an access token,
  operators' files at the path, unreadable Keychain entries. Writes left unanswered by a Secret
  Service are modelled (client-contracts.md section 9.2 item 3).
* Tokens: what a command reports after a lost COMMIT reply. Its read-back (tokens.go 59-82) waits for no
  lock of the transaction, unlike `resolveCommit` (tx.go), so it can report the failure of a rotation
  that then commits; noted from reading, not checked.
* Extraction: sequences, several documents, anchors' names, references declared in the input, and which
  other fields the machinery requires. Compile: list merging, byte fields, integers, embedded
  documents in a composition, and the version contract of `renderer.go`.
* Monitor: columns that are only served; the provider's clock is the database's. A version blocked,
  restored, named by a new release and deleted again before the next pass stays `blocked` throughout,
  and no alert names that release; noted from reading dependency-monitor.md sections 5.2 and 6.2.

## 6. Plan

1. An abstract specification of a cluster's writer (free, held, outstanding) that `Dispatch` implements.
2. Liveness on a reduced dispatch: with the loops fair and somebody who decides, every committed
   operation ends.
